---------------------------- MODULE BoardPostgres ----------------------------
(***************************************************************************)
(* The PostgreSQL integration suites of a YueBoard validation job          *)
(* (scripts/validate-yueboard-postgres.py, the two steps of build.yml that *)
(* call it).  The source is what the checkout holds: the packages with     *)
(* integration tests and the capabilities that make a suite obligatory.    *)
(* The suites run code of that source, so the checkout may change between  *)
(* two steps.  `passed` is history: the tests that ran and passed.         *)
(***************************************************************************)
EXTENDS Naturals, FiniteSets

CONSTANTS
    Domain, Commands, Modules, Migrations,   \* the groups of packages, in order
    Gated,        \* packages only obligatory when the source is capable of them
    TestsOf,      \* [package -> its integration tests]
    Ordinary,     \* tests of the commands that need no privileges
    Roles,        \* "postgres" runs the domain suites, "migration" all of them
    Sources,      \* what a checkout may hold: [found, capable, gate]
    None

VARIABLES source, role, step, receipt, passed

vars == <<source, role, step, receipt, passed>>

Order == Domain \cup Commands \cup Modules \cup Migrations

Init ==
    /\ source \in Sources /\ role \in Roles
    /\ step = "domain" /\ receipt = None /\ passed = {}

\* discover(): nothing obligatory is missing, nothing unplanned is there, and
\* no package is without tests.
Required(s) ==
    (Order \ (Commands \cup Gated)) \cup (Gated \cap s.capable)
        \cup (IF s.gate THEN Commands ELSE {})

Discovered(s) ==
    /\ Required(s) \subseteq s.found /\ s.found \subseteq Order
    /\ \A p \in s.found : TestsOf[p] # {}

TestsIn(packages) == UNION {TestsOf[p] : p \in packages}

\* run_group(): a test may pass, fail, be skipped or never run; the group is
\* good when every test of it ran and passed, and there was one.
Outcomes == {"passed", "failed", "skipped", "unrun"}
Passed(outcome) == {t \in DOMAIN outcome : outcome[t] = "passed"}
GroupGood(outcome) == DOMAIN outcome # {} /\ Passed(outcome) = DOMAIN outcome

\* run_commands(): the native gate runs what needs privileges, and the
\* ordinary tests go through run_group; without the package, nothing to do.
NativeTests(s) == TestsIn(Commands \cap s.found) \ Ordinary

\* Faulty variant for BoardCompleteMeansAllRan: the native gate is enough.
NativeGood(s, native, ordinary) ==
    \/ Commands \cap s.found = {}
    \/ /\ s.gate
       /\ \A t \in DOMAIN native : native[t] \notin {"failed", "skipped"}
       /\ NativeTests(s) \subseteq Passed(native)

CommandsGood(s, native, ordinary) ==
    \/ Commands \cap s.found = {}
    \/ /\ s.gate
       /\ \A t \in DOMAIN native : native[t] \notin {"failed", "skipped"}
       /\ NativeTests(s) \subseteq Passed(native)
       /\ DOMAIN ordinary # {} => GroupGood(ordinary)

Fail == step' = "failed" /\ UNCHANGED receipt

\* --phase domain: an earlier receipt is never reused.
RunDomain ==
    /\ step = "domain"
    /\ \E outcome \in [TestsIn(Domain \cap source.found) -> Outcomes] :
          /\ passed' = passed \cup {<<source, t>> : t \in Passed(outcome)}
          /\ IF Discovered(source) /\ receipt = None /\ GroupGood(outcome)
             THEN /\ receipt' = [manifest |-> source.found, ran |-> Domain \cap source.found]
                  /\ step' = IF role = "postgres" THEN "done" ELSE "commands"
             ELSE Fail
    /\ UNCHANGED <<source, role>>

\* --phase remaining starts: the receipt is of this very list of tests.
RunCommands ==
    /\ step = "commands"
    /\ \E native \in [TestsIn(Commands \cap source.found) -> Outcomes],
          ordinary \in [TestsIn(Commands \cap source.found) \cap Ordinary -> Outcomes] :
          /\ passed' = passed \cup {<<source, t>> : t \in Passed(native) \cup Passed(ordinary)}
          /\ IF /\ Discovered(source)
                /\ receipt.manifest = source.found /\ receipt.ran = Domain
                /\ CommandsGood(source, native, ordinary)
             THEN /\ receipt' = [receipt EXCEPT !.ran = @ \cup (Commands \cap source.found)]
                  /\ step' = "modules"
             ELSE Fail
    /\ UNCHANGED <<source, role>>

\* The plan of the phase was made once; the groups after the commands follow it.
RunGroup(here, packages, next) ==
    /\ step = here
    /\ \E outcome \in [TestsIn(packages \cap receipt.manifest) -> Outcomes] :
          /\ passed' = passed \cup {<<source, t>> : t \in Passed(outcome)}
          /\ IF GroupGood(outcome)
             THEN /\ receipt' = [receipt EXCEPT !.ran = @ \cup (packages \cap receipt.manifest)]
                  /\ step' = next
             ELSE Fail
    /\ UNCHANGED <<source, role>>

RunModules == RunGroup("modules", Modules, "migrations")

\* Last, because they destroy the schema.
RunMigrations == RunGroup("migrations", Migrations, "check")

\* Every discovered package was executed.
Complete ==
    /\ step = "check"
    /\ step' = IF receipt.ran = receipt.manifest THEN "done" ELSE "failed"
    /\ UNCHANGED <<source, role, receipt, passed>>

\* A suite leaves files behind in the checkout, between the two steps.
Disturb ==
    /\ step = "commands" /\ source' \in Sources
    /\ UNCHANGED <<role, step, receipt, passed>>

Next ==
    \/ RunDomain \/ RunCommands \/ RunModules \/ RunMigrations \/ Complete
    \/ Disturb

Spec == Init /\ [][Next]_vars

-----------------------------------------------------------------------------
\* A finished migration job ran and passed every integration test that its
\* checkout had from beginning to end, in each of the four groups, the
\* obligatory suites among them (discover(), run_group(), run_commands(),
\* main()).
BoardCompleteMeansAllRan ==
    step = "done" /\ role = "migration" =>
        /\ Required(source) \subseteq source.found
        /\ \A t \in TestsIn(source.found) :
              \E s \in Sources : s.found = source.found /\ <<s, t>> \in passed
=============================================================================
