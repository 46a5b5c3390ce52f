---------------------------- MODULE SharedReviews ----------------------------
(***************************************************************************)
(* The reviews of the shared inputs that scripts/pytest-shards.py carries: *)
(* dependency files, package files and test helpers every Ops test module  *)
(* reads.  The skip baseline names the inputs of one historical run; each  *)
(* later review seals the inputs it changed, from which blob to which, and *)
(* at which source.  Constants only; SharedInputs is the admission.        *)
(*                                                                         *)
(* A review is one definition below.  The blobs of a path are numbered in  *)
(* the order in which reviews touch it: 0 is the historical blob, or the   *)
(* absence of a path a review adds.  A blob stands for the mode too.  The  *)
(* sources of the reviews are one line of commits, review n at the n-th,   *)
(* in the order in which reviews are peeled.                               *)
(***************************************************************************)
EXTENDS Integers, Sequences, FiniteSets

\* The reviews, each sealed with a rule of its own.  A sealed record that is
\* missing, altered or moved in the baseline is refused before any of this.
Seal(rule, paths) == [rule |-> rule, paths |-> paths]

FrontendLock == Seal("historical", {"frontend/package-lock.json"})
PythonInputs == Seal("historical", {"pyproject.toml", "uv.lock", "yue/requirements.txt"})
FrontendSecurity == Seal("historical", {"frontend/package-lock.json"})
MiniappSecurity == Seal("historical", {"miniapp/package-lock.json"})
W85Inputs == Seal("historical", {"pyproject.toml", "uv.lock"})
W85Observability == Seal("historical", {"requirements-observability.txt"})
AuditDependency == Seal("historical", {"pyproject.toml", "uv.lock"})
ZodLock == Seal("historical", {"frontend/package.json", "frontend/package-lock.json",
                               "miniapp/package.json", "miniapp/package-lock.json"})
ScannerInput == Seal("historical", {"tests/_shell_early_exit_pipes.py"})

Template == "tests/native/subscribe_template_baseline_cas_pg.py"
EstateInputs == Seal("estate", {"qa/package.json", "qa/package-lock.json", "yue/pyproject.toml",
                                "tests/node_resource_fixture.py", Template})
SiteLock == Seal("successor", {"site/pnpm-lock.yaml"})
BotPackaging == Seal("successor", {"yue/pyproject.toml"})
AuditLock == Seal("successor", {"uv.lock"})
RuntimeDependency == Seal("successor", {"pyproject.toml", "yue/requirements.txt", "uv.lock"})
HangGuard == Seal("guard", {"tests/_subprocess.py"})
Tornado66 == Seal("successor", {"pyproject.toml", "yue/requirements.txt", "uv.lock"})
RequiredNative == Seal("native", {"tests/native_loadshed_installer.py"})
OpsPackaging == Seal("successor", {"pyproject.toml", "tests/_runtime_module_patch.py",
                                   "tests/_bot_real_modules.py", "tests/_yueboard_internal_source.py"})
CollectionShuffle == Seal("hook", {"conftest.py"})
NpmSecurity == Seal("lasting", ZodLock.paths)
NativeSuccessor == Seal("native", {"tests/native_loadshed_installer.py"})
MiniappMembership == Seal("membership", {"tests/_miniapp_source.py"})
FirstNativeHelper == Seal("first", {"tests/_native_root_lab.py"})
P015Helper == Seal("offline", {"tests/p015_offline_plugin.py"})
NativeProtocol == Seal("helper", {"tests/native_protocol_fixture.py"})
Pr122 == Seal("merged", {"checkin-api/requirements.txt", "pyproject.toml",
                         "yue/requirements.txt", "uv.lock"})
Pr256 == Seal("merged", {"pyproject.toml", "uv.lock"})
PrDatabase == Seal("sidecar", {"pytest.ini", "tests/_native_postgres.py"})
PrSite == Seal("sidecar", {"site/package.json", "site/pnpm-lock.yaml"})
PrDeploy == Seal("sidecar", {"tests/_deploy_source.py"})
PrProject == Seal("sidecar", {"pyproject.toml"})
TemplateRetirement == Seal("retired", {})

\* In the order of the sources; they are peeled from the last to the first.
Reviews ==
    <<FrontendLock, PythonInputs, FrontendSecurity, MiniappSecurity, W85Inputs,
      W85Observability, AuditDependency, ZodLock, ScannerInput, EstateInputs,
      AuditLock, RuntimeDependency, Tornado66, OpsPackaging, BotPackaging, SiteLock,
      HangGuard, RequiredNative, NativeSuccessor, CollectionShuffle, NpmSecurity,
      MiniappMembership, FirstNativeHelper, P015Helper, NativeProtocol, Pr122, Pr256,
      PrDatabase, PrSite, PrDeploy, PrProject, TemplateRetirement>>

All == DOMAIN Reviews
Historical == {i \in All : Reviews[i].rule = "historical"}
Estate == CHOOSE i \in All : Reviews[i].rule = "estate"
Retirement == CHOOSE i \in All : Reviews[i].rule = "retired"
Paths == UNION {Reviews[i].paths : i \in All}

\* The blob of every path after the reviews up to n, and the source there.
Blobs == [n \in 0..Len(Reviews) |->
            [p \in Paths |-> Cardinality({j \in 1..n : p \in Reviews[j].paths})]]
Sources == [n \in 0..Len(Reviews) |->
              IF n >= Retirement THEN [Blobs[n] EXCEPT ![Template] = 0] ELSE Blobs[n]]
=============================================================================
