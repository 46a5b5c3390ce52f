----------------------------- MODULE BuildInputs -----------------------------
(***************************************************************************)
(* The input fingerprint of an image (scripts/input-fingerprint.py): what  *)
(* of a source tree a Dockerfile build takes, read from git objects alone, *)
(* the comparison of the promoted revision with a new head, and what its   *)
(* three callers make of it: the shadow verdict of a build, the skip of an *)
(* image by the poll (scripts/poll-skip-decision.py), and the answer for a *)
(* static UI unit (scripts/ui_static_units.py).                            *)
(*                                                                         *)
(* A tree maps every path to an object or to Missing.  An object is a      *)
(* record [mode, oid], and an oid stands for the bytes: the instructions   *)
(* of a Dockerfile, the rules of an ignore file, the target of a link.     *)
(* A pattern is the set of paths and directories it matches.  `world` is   *)
(* the state of everything that is not in git: floating tags, downloads,   *)
(* secrets, build arguments.  What a command downloads on its own is no    *)
(* input here, neither of the fingerprint nor of the build.                *)
(***************************************************************************)
EXTENDS Naturals, Sequences, FiniteSets

CONSTANTS
    Paths,         \* the paths a tree may have
    Dirs,          \* [Paths -> the directories a path lies in]
    Dockerfile,    \* the image's Dockerfile (services.json)
    OwnIgnore,     \* <Dockerfile>.dockerignore
    RootIgnore,    \* .dockerignore of the context
    Attributes,    \* the paths named .gitattributes
    Contents,      \* [Paths -> the objects a commit may give a path]
    Scopes,        \* "" for a whole context, the directory of a UI unit else
    PinnedImages,  \* the image names that carry a digest
    Missing, Unknown,       \* no object; no proof
    Start,         \* the trees the exploration starts from
    MaxCommits, MaxMoves    \* bounds of the exploration

\* A Dockerfile as the parser hands it on, and an ignore file.
IsDockerfile(d) ==
    \A i \in DOMAIN d :
        /\ d[i].op \in {"SYNTAX", "FROM", "COPY", "ADD", "RUN", "ONBUILD"}
        /\ d[i].op \in {"SYNTAX", "FROM"} => d[i].src = "" /\ d[i].opt = ""
        /\ d[i].op = "SYNTAX" => d[i].as = ""
        /\ d[i].op = "ONBUILD" => d[i].image = "" /\ d[i].as = "" /\ d[i].opt = ""
        /\ d[i].opt = "secret" => d[i].op = "RUN"
        /\ d[i].src = "remote" => d[i].op \in {"COPY", "ADD"}

IsIgnoreFile(rules) ==
    /\ Len(rules) \in Nat /\ DOMAIN rules = 1..Len(rules)
    /\ \A n \in DOMAIN rules : rules[n].negate \in BOOLEAN

\* What is taken for granted of trees, and of the two values that stand for
\* none: the directories of a directory are those of its paths.
TreesAssumption ==
    /\ Attributes \cup {Dockerfile, OwnIgnore, RootIgnore} \subseteq Paths
    /\ "." \notin Paths \cup Scopes /\ Dockerfile \notin {OwnIgnore, RootIgnore}
    /\ \A p, q \in Paths : q \in Dirs[p] => Dirs[q] \subseteq Dirs[p]
    /\ Unknown \notin {"unchanged", "changed"}
    /\ Missing \notin Paths
    /\ \A t \in Start : t = [p \in Paths |-> t[p]]
    /\ \A p \in {Dockerfile, OwnIgnore, RootIgnore} :
          \A o \in Contents[p] \cup {t[p] : t \in Start} : o # Missing =>
              IF p = Dockerfile THEN IsDockerfile(o.oid) ELSE IsIgnoreFile(o.oid)

VARIABLES tree, world, recipe, commits, promoted, scope, answer

vars == <<tree, world, recipe, commits, promoted, scope, answer>>

Unanswered == [shadow |-> "none", caveat |-> FALSE, poll |-> "none", unit |-> "none"]

In(p, dir) == p = dir \/ dir \in Dirs[p]

-----------------------------------------------------------------------------
\* A listing.  The API drops entries past its limit and says so; the listing
\* is then refused.
Entries(t, fault) == IF fault = "truncated" THEN Unknown ELSE t

-----------------------------------------------------------------------------
\* IgnoreRules: a rule is only tried when it would turn the answer round.
Matches(rule, p) == ({p} \cup Dirs[p]) \cap rule.matches # {}

Ignored(rules, p) ==
    LET after[n \in 0..Len(rules)] ==
          IF n = 0 THEN FALSE
          ELSE IF rules[n].negate # after[n - 1] THEN after[n - 1]
          ELSE IF Matches(rules[n], p) THEN ~rules[n].negate
          ELSE after[n - 1]
    IN after[Len(rules)]

\* Faulty variant for SkipMeansSameBuild: the ignore file of the context wins.
RootIgnoreFirst(t) ==
    IF t[RootIgnore] # Missing THEN RootIgnore
    ELSE IF t[OwnIgnore] # Missing THEN OwnIgnore
    ELSE Missing

\* The one ignore file BuildKit reads; another one in the Dockerfile's
\* directory is dead.
IgnorePath(t) ==
    IF t[OwnIgnore] # Missing THEN OwnIgnore
    ELSE IF t[RootIgnore] # Missing THEN RootIgnore
    ELSE Missing

Rules(t) == IF IgnorePath(t) = Missing THEN <<>> ELSE t[IgnorePath(t)].oid

-----------------------------------------------------------------------------
\* parse_dockerfile.  An instruction is [op, image, as, src, opt]: the image a
\* FROM, a --from or a bind mount names, the stage it opens, the context
\* source, and one of "checksum", "exclude", "secret".  The frontend that a
\* `# syntax=` names is the image of a line of its own; ONBUILD stands for an
\* ONBUILD COPY of the context.
StagesBefore(d, i) == {d[j].as : j \in {k \in 1..(i - 1) : d[k].op = "FROM"}}
Internal(d, i) ==
    \/ d[i].image \in StagesBefore(d, i) \ {""}
    \/ d[i].op = "FROM" /\ d[i].image = "scratch"

Copies == {"COPY", "ADD"}
Elsewhere == {"remote", "variable", "heredoc"}

Problem(d, i) ==
    LET unpinned == ~Internal(d, i) /\ d[i].image \notin PinnedImages IN
    \/ d[i].op = "FROM" /\ unpinned
    \/ d[i].op \in Copies /\ d[i].opt = "exclude"
    \/ d[i].op \in Copies /\ d[i].image # "" /\ unpinned
    \/ /\ d[i].op \in Copies /\ d[i].image = "" /\ d[i].src = "remote"
       /\ ~(d[i].op = "ADD" /\ d[i].opt = "checksum")
    \/ d[i].op \in Copies \cup {"RUN"} /\ d[i].image = "" /\ d[i].src = "variable"
    \/ d[i].op = "RUN" /\ d[i].opt = "secret"

Problems(d) == {i \in DOMAIN d : Problem(d, i)}

\* A frontend without a digest is a caveat, not a problem.
Floating(d) == \E i \in DOMAIN d : d[i].op = "SYNTAX" /\ d[i].image \notin PinnedImages

ContextSources(d) ==
    {d[i].src : i \in {k \in DOMAIN d :
        /\ d[k].op \in Copies \cup {"RUN"} /\ d[k].image = ""
        /\ d[k].src \notin Elsewhere \cup {""}}}

Selected(p, sources) == \E s \in sources : s = "." \/ In(p, s)

-----------------------------------------------------------------------------
\* compute(): the payload that is hashed, or Unknown.
InUnit(p, unit) == p \in {Dockerfile, OwnIgnore} \/ In(p, unit)

Fingerprint(t, unit) ==
    IF t = Unknown THEN Unknown
    ELSE IF t[Dockerfile] = Missing THEN Unknown
    ELSE
    LET d == t[Dockerfile].oid
        sources == ContextSources(d)
        inScope(p) == unit = "" \/ InUnit(p, unit)
        attributes == {p \in Attributes : t[p] # Missing}
        files == {p \in Paths : /\ t[p] # Missing /\ inScope(p)
                                /\ Selected(p, sources) /\ ~Ignored(Rules(t), p)}
        ignore == IgnorePath(t)
    IN IF \/ Problems(d) # {}
          \/ \E p \in attributes : t[p].oid = "filter"
          \/ unit # "" /\ \E s \in sources : s # unit /\ ~(s \in Paths /\ In(s, unit))
          \/ files = {}
       THEN Unknown
       ELSE [dockerfile |-> t[Dockerfile].oid,
             ignore |-> IF ignore # Missing /\ inScope(ignore)
                        THEN {<<ignore, t[ignore].oid>>} ELSE {},
             attributes |-> {<<p, t[p].oid>> : p \in {q \in attributes : inScope(q)}},
             files |-> {<<p, t[p]>> : p \in files}]

Compare(base, head) ==
    IF Unknown \in {base, head} THEN Unknown
    ELSE IF base = head THEN "unchanged" ELSE "changed"

Verdict(inputs, recipes) ==
    IF inputs = "unchanged" /\ recipes = "unchanged" THEN "would-skip"
    ELSE IF Unknown \in {inputs, recipes} THEN "would-build (unknown)"
    ELSE "would-build"

-----------------------------------------------------------------------------
\* One thing fails at a time: a read, a listing, or the comparison of the
\* promoted commit with the head, which need not descend from it.
Faults == {"none", "head", "latest", "provenance", "truncated", "diverged"}

AtHead(fault) == IF fault = "head" THEN Unknown ELSE Fingerprint(Entries(tree, fault), scope)
AtPromoted(fault) == Fingerprint(Entries(promoted.tree, fault), scope)

\* shadow_ci() for one target: the revision label of :latest, and the
\* provenance that names the builder's commit, are read for the baseline.
Shadow(fault) ==
    LET latest == promoted # Missing /\ fault # "latest"
        base == IF latest THEN AtPromoted(fault) ELSE Unknown
        old == IF latest /\ fault # "provenance" THEN promoted.recipe ELSE Unknown
    IN Verdict(Compare(base, AtHead(fault)), Compare(old, recipe))

\* The caveats are read before what makes the fingerprint unknown.
HasCaveat(fault) == /\ fault \notin {"head", "truncated"} /\ tree[Dockerfile] # Missing
                    /\ Floating(tree[Dockerfile].oid)

\* decide() for one image that has no marker of HEAD: a floating frontend is
\* built again whatever the inputs are.
PollImage(fault) ==
    IF /\ promoted # Missing /\ fault \notin {"latest", "provenance", "diverged"}
       /\ Compare(promoted.recipe, recipe) = "unchanged"
       /\ Compare(AtPromoted(fault), AtHead(fault)) = "unchanged"
       /\ ~HasCaveat(fault)
    THEN "skip" ELSE "build"

\* poll_dispatches() for one unit: a first image and a proved difference are
\* promoted, an unreadable baseline or unknown inputs are only warned about.
DecideUnit(state) == state \in {"changed", "absent"}

PollUnit(fault) ==
    LET state == IF promoted = Missing THEN "absent"
                 ELSE Compare(AtPromoted(fault), AtHead(fault))
    IN IF fault \in {"head", "latest"} THEN "warn"
       ELSE IF DecideUnit(state) THEN "dispatch"
       ELSE IF state = Unknown THEN "warn" ELSE "skip"

-----------------------------------------------------------------------------
Init ==
    /\ tree \in Start
    /\ world = 0 /\ recipe = 0 /\ commits = 0
    /\ promoted = Missing
    /\ scope \in Scopes
    /\ answer = Unanswered

\* Sources change by commits.
Commit ==
    /\ commits < MaxCommits
    /\ \E p \in Paths : \E o \in Contents[p] \cup {Missing} :
          /\ o # tree[p]
          /\ tree' = [tree EXCEPT ![p] = o]
    /\ commits' = commits + 1
    /\ answer' = Unanswered
    /\ UNCHANGED <<world, recipe, promoted, scope>>

\* A floating tag, a download or a secret changes, or the builder is edited.
Move ==
    /\ world + recipe < MaxMoves
    /\ \/ world' = world + 1 /\ UNCHANGED recipe
       \/ recipe' = recipe + 1 /\ UNCHANGED world
    /\ answer' = Unanswered
    /\ UNCHANGED <<tree, commits, promoted, scope>>

\* An image of the present head is built and becomes :latest.
Promote ==
    /\ promoted = Missing /\ tree[Dockerfile] # Missing
    /\ promoted' = [tree |-> tree, world |-> world, recipe |-> recipe]
    /\ answer' = Unanswered
    /\ UNCHANGED <<tree, world, recipe, commits, scope>>

\* The tools answer; the poll asks about a unit in its own way.
Report ==
    /\ answer = Unanswered
    /\ \E fault \in Faults :
          answer' = [shadow |-> Shadow(fault), caveat |-> HasCaveat(fault),
                     poll |-> IF scope = "" THEN PollImage(fault) ELSE "none",
                     unit |-> IF scope # "" THEN PollUnit(fault) ELSE "none"]
    /\ UNCHANGED <<tree, world, recipe, commits, promoted, scope>>

Next == Commit \/ Move \/ Promote \/ Report

Spec == Init /\ [][Next]_vars

-----------------------------------------------------------------------------
\* What BuildKit takes, said without the tool's parser: the last rule that
\* matches decides about a file, a source that is a link is followed, an ONBUILD
\* is carried out by a later stage that starts from its own, and what has no
\* digest, the frontend among it, is whatever the world holds at the time.
Visible(t, p) ==
    LET own == t[OwnIgnore]
        root == t[RootIgnore]
        rules == IF own # Missing THEN own.oid ELSE IF root # Missing THEN root.oid ELSE <<>>
        hits == {n \in DOMAIN rules : Matches(rules[n], p)}
    IN hits = {} \/ rules[CHOOSE n \in hits : \A m \in hits : m <= n].negate

Followed(t, s) ==
    IF s \in Paths /\ t[s] # Missing /\ t[s].mode = "link" THEN t[s].oid ELSE s

ContextOf(t, s) ==
    {<<p, t[p]>> : p \in {q \in Paths : /\ t[q] # Missing /\ Visible(t, q)
                                        /\ s = "." \/ In(q, Followed(t, s))}}

\* A later stage of the same file starts from the stage of this ONBUILD.
Fires(d, i) ==
    \E k, j \in DOMAIN d :
        /\ k < i /\ i < j /\ d[k].op = "FROM" /\ d[j].op = "FROM"
        /\ \A l \in (k + 1)..(i - 1) : d[l].op # "FROM"
        /\ d[j].image = d[k].as /\ d[j].image # ""

Taken(d, i, t, w) ==
    IF d[i].op = "ONBUILD" /\ ~Fires(d, i) THEN {}
    ELSE IF d[i].image # "" /\ ~Internal(d, i)
    THEN {<<d[i].image, IF d[i].image \in PinnedImages THEN 0 ELSE w + 1>>}
    ELSE IF d[i].image # "" THEN {}
    ELSE IF d[i].opt = "secret" THEN {<<"secret", w + 1>>}
    ELSE IF d[i].src = "remote"
    THEN {<<"remote", IF d[i].opt = "checksum" THEN 0 ELSE w + 1>>}
    ELSE IF d[i].src = "variable" THEN {<<"variable", w + 1>>}
    ELSE IF d[i].src \in {"", "heredoc"} THEN {}
    ELSE ContextOf(t, d[i].src)

Build(t, w) ==
    LET d == t[Dockerfile].oid
    IN [dockerfile |-> d,
        taken |-> [i \in DOMAIN d |-> Taken(d, i, t, w)],
        checkout |-> {<<p, t[p].oid, IF t[p].oid = "filter" THEN w ELSE 0>> :
                         p \in {a \in Attributes : t[a] # Missing}}]

\* A bind mount from an image, an ONBUILD that the same file carries out, a
\* source that is a link, and for a UI unit a .gitattributes outside of it, are
\* not in the fingerprint.
Foreseen(t) ==
    LET d == t[Dockerfile].oid IN
    /\ \A i \in DOMAIN d : d[i].op = "RUN" => d[i].image = "" \/ Internal(d, i)
    /\ \A i \in DOMAIN d : d[i].op = "ONBUILD" => ~Fires(d, i)
    /\ \A s \in ContextSources(d) : Followed(t, s) = s
    /\ scope # "" => \A a \in Attributes : t[a] = Missing \/ InUnit(a, scope)

SameInputs == Build(promoted.tree, promoted.world) = Build(tree, world)

-----------------------------------------------------------------------------
\* When the poll skips an image, a build would take what the promoted one was
\* built from: the same instructions and frontend, the same files, images and
\* downloads that cannot have moved, the same builder (decide()).  So it would
\* where the shadow verdict says that a build could be skipped and has no
\* caveat (compute(), compare(), verdict()), and but for the builder where the
\* poll leaves a UI unit alone without a warning (poll_dispatches()), which
\* does not ask about the frontend.  Outside of what Foreseen names.
SkipMeansSameBuild ==
    LET foreseen == Foreseen(tree) /\ Foreseen(promoted.tree) IN
    /\ answer.poll = "skip" /\ foreseen => SameInputs /\ promoted.recipe = recipe
    /\ answer.shadow = "would-skip" /\ ~answer.caveat /\ foreseen
          => SameInputs /\ promoted.recipe = recipe
    /\ answer.unit = "skip" /\ ~Floating(tree[Dockerfile].oid) /\ foreseen => SameInputs

\* "Anything this parser cannot prove is reported unknown": an external image
\* without a digest, in whatever instruction (input-fingerprint.py:28-31).
UnprovedIsUnknown ==
    LET d == tree[Dockerfile].oid IN
    tree[Dockerfile] # Missing /\ (\E i \in DOMAIN d :
        /\ d[i].op # "SYNTAX" /\ d[i].image # ""
        /\ ~Internal(d, i) /\ d[i].image \notin PinnedImages)
            => Fingerprint(tree, scope) = Unknown
=============================================================================
