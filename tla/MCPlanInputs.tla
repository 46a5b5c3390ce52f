----------------------------- MODULE MCPlanInputs -----------------------------
(***************************************************************************)
(* A small instance of each of the three of PlanInputs.  The base of the   *)
(* SQL validation is asked for on every history of four commits and every  *)
(* choice of three baselines.                                              *)
(***************************************************************************)
EXTENDS PlanInputs

CONSTANTS web, bot, ops, board, link, master, o1, o2, b1, b2, l1, l2

\* BuildPlan: two images of Ops, one of the board with two roles, and a
\* source-only target with two jobs; two commits of each.
Target(service, group, repo, validation) ==
    [service |-> service, group |-> group, repo |-> repo, ref |-> master,
     validation |-> validation]

TwoImagesAndBoard == {Target(web, ops, ops, ops), Target(bot, ops, ops, ops),
                      Target(board, board, board, board)}
LinkOnly == {Target(link, link, link, link)}

JobsOf == [v \in {ops, board, link} |->
    CASE v = ops -> {"ops"} [] v = board -> {"quality", "e2e"} [] v = link -> {"hy2", "vless"}]

HistoryOf == [r \in {ops, board, link} |->
    CASE r = ops -> {o1, o2} [] r = board -> {b1, b2} [] r = link -> {l1, l2}]

-----------------------------------------------------------------------------
\* BuildInputs: a Dockerfile of twelve texts, ignore files and attributes beside
\* it, and two files under ui/, one of which may be a link to the other.
From(image, as) == [op |-> "FROM", image |-> image, as |-> as, src |-> "", opt |-> ""]
Copy(op, image, src, opt) == [op |-> op, image |-> image, as |-> "", src |-> src, opt |-> opt]
Pinned == From("node@sha256", "build")
Syntax(image) == [op |-> "SYNTAX", image |-> image, as |-> "", src |-> "", opt |-> ""]

DockerfileTexts == {
    <<Pinned, Copy("COPY", "", ".", "")>>,
    <<Pinned, Copy("COPY", "", "ui", ""), From("scratch", ""), Copy("COPY", "build", "ui", "")>>,
    <<Pinned, Copy("RUN", "", "ui/a", ""), Copy("ADD", "", "remote", "checksum")>>,
    <<From("node", "build"), Copy("COPY", "", "ui", "")>>,
    <<Pinned, Copy("COPY", "late", "ui", ""), From("scratch", "late"), Copy("COPY", "", "ui/b", "")>>,
    <<Pinned, Copy("COPY", "", "ui", ""), Copy("ADD", "", "remote", "")>>,
    <<Pinned, Copy("COPY", "", "ui", ""), Copy("RUN", "", "", "secret")>>,
    <<Pinned, Copy("COPY", "", "ui", "exclude"), Copy("COPY", "", "variable", "")>>,
    <<Pinned, Copy("COPY", "", "ui", ""), Copy("RUN", "tool", "", "")>>,
    <<Syntax("frontend"), Pinned, Copy("COPY", "", "ui", "")>>,
    <<Syntax("frontend@sha256"), Pinned, Copy("COPY", "", "ui", "")>>,
    <<Pinned, Copy("ONBUILD", "", "ui/b", ""), Copy("COPY", "", "ui/a", ""), From("build", "")>>}

Rule(negate, matches) == [negate |-> negate, matches |-> matches]
IgnoreTexts == {<<Rule(FALSE, {"ui"}), Rule(TRUE, {"ui/a"})>>,
                <<Rule(TRUE, {"ui/a"}), Rule(FALSE, {"ui/a"})>>,
                <<Rule(FALSE, {"ui/b"})>>}

Repository == {"Dockerfile", "Dockerfile.dockerignore", ".dockerignore", ".gitattributes",
               "ui/a", "ui/b"}
File(oid) == [mode |-> "file", oid |-> oid]
MayHold == [p \in Repository |->
    CASE p = "Dockerfile" -> {File(t) : t \in DockerfileTexts}
      [] p \in {"Dockerfile.dockerignore", ".dockerignore"} -> {File(r) : r \in IgnoreTexts}
      [] p = ".gitattributes" -> {File("eol"), File("filter")}
      [] p = "ui/a" -> {File("1"), File("2")}
      [] p = "ui/b" -> {File("1"), [mode |-> "link", oid |-> "ui/a"]}]
FirstTrees ==
    {[p \in Repository |-> CASE p = "Dockerfile" -> File(text)
                             [] p = "Dockerfile.dockerignore" -> own
                             [] p = ".dockerignore" -> root
                             [] p = ".gitattributes" -> Missing
                             [] p \in {"ui/a", "ui/b"} -> File("1")] :
        text \in DockerfileTexts, own \in {Missing} \cup MayHold["Dockerfile.dockerignore"],
        root \in {Missing, File(<<Rule(FALSE, {"ui/b"})>>)}}
DirsOf == [p \in Repository |-> IF p \in {"ui/a", "ui/b"} THEN {"ui"} ELSE {}]

\* The trees are such as the theorems are about.
ASSUME InstanceAssumption == I!TreesAssumption
=============================================================================
