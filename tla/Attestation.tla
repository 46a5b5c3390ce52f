------------------------------ MODULE Attestation ------------------------------
(***************************************************************************)
(* Signing an image and attesting its SBOMs (the sign and attest step of   *)
(* build.yml): external commands under bounded retries                     *)
(* (scripts/ci-retry.sh), then the check of what the registry holds        *)
(* (scripts/verify-sbom-attestations.py).  The registry is external: an    *)
(* attestation may be stored although the command fails, and an append     *)
(* that does not see the earlier ones replaces them.  Other attempts and   *)
(* older builds have left statements behind.  What is stored twice is one  *)
(* element here: nothing counts them.                                      *)
(***************************************************************************)
EXTENDS Naturals

CONSTANTS
    Digest,          \* the image that was built
    Allowed,         \* the architectures an image may have
    Platforms,       \* the sets of architectures an image is built for
    Formats,         \* "cyclonedx", "spdxjson"
    Leftovers,       \* statements the registry may start with
    MaxAttempts      \* of a signing command and of a verifying one

\* PREDICATE_TYPES.
FormatsAssumption == Formats = {"cyclonedx", "spdxjson"}

VARIABLES expected, todo, attempt, registry, document, step

vars == <<expected, todo, attempt, registry, document, step>>

\* A statement: the digest it is about, its format, the architectures its
\* markers name; "malformed" ones lack a field the format prescribes.
Statement(digest, format, archs) ==
    [subject |-> digest, format |-> format, archs |-> archs, malformed |-> FALSE]

\* The predicates to attest, all of one format before the other.
Predicates(archs) == {Statement(Digest, f, {a}) : f \in Formats, a \in archs}

Init ==
    /\ expected \in Platforms /\ todo = Predicates(expected) /\ attempt = 1
    /\ \E old \in SUBSET Leftovers : registry = old
    /\ document = {} /\ step = "attest"

\* ci_retry(): after a failure another attempt is only made when one is left
\* and the error is a transient one; a refusal always wins.
Ended(error) == attempt = MaxAttempts \/ error = "refused"

AfterFailure(error) ==
    /\ attempt' = IF Ended(error) THEN attempt ELSE attempt + 1
    /\ step' = IF Ended(error) THEN "failed" ELSE step

\* One attempt at one predicate, with a token of its own (ci_keyless_once()).
Attest(p) ==
    /\ step = "attest" /\ p \in todo
    /\ \A q \in todo : p.format = "spdxjson" => q.format = "spdxjson"
    /\ \/ /\ registry' \in {registry \cup {p}, {p}}
          /\ \/ /\ todo' = todo \ {p} /\ attempt' = 1
                /\ step' = IF todo = {p} THEN "cyclonedx" ELSE step
             \/ AfterFailure("transient") /\ UNCHANGED todo
       \/ \E error \in {"transient", "refused"} :
             AfterFailure(error) /\ UNCHANGED <<registry, todo>>
    /\ UNCHANGED <<expected, document>>

\* cosign verify-attestation: the documents of one format, from the attempt
\* that succeeds and from no other.
ReadBack(format) ==
    /\ step = format /\ document = {}
    /\ \/ /\ document' = {s \in registry : s.format = format}
          /\ document' # {}
          /\ UNCHANGED <<attempt, step>>
       \/ \E error \in {"transient", "refused"} :
             AfterFailure(error) /\ UNCHANGED document
    /\ UNCHANGED <<expected, todo, registry>>

\* _statement_architectures(): nothing for another image, another format or a
\* malformed predicate; the set its markers name else.
Architectures(s, format) ==
    IF s.format # format \/ s.subject # Digest \/ s.malformed THEN {}
    ELSE s.archs \cap Allowed

\* Faulty variant for SignedMeansEveryPlatform: a statement about several
\* architectures counts for each.
ObservedTogether(format) == UNION {Architectures(s, format) : s \in document}

\* verify(): only a statement about exactly one architecture counts, and what
\* is counted must be what is expected.
Observed(format) ==
    UNION {Architectures(s, format) : s \in
              {x \in document : \E a \in Allowed : Architectures(x, format) = {a}}}

Verify(format) ==
    /\ step = format /\ document # {}
    /\ step' = IF Observed(format) # expected THEN "rejected"
               ELSE IF format = "cyclonedx" THEN "spdxjson" ELSE "signed"
    /\ document' = {} /\ attempt' = 1
    /\ UNCHANGED <<expected, todo, registry>>

Next ==
    \/ \E p \in Predicates(expected) : Attest(p)
    \/ \E f \in Formats : ReadBack(f) \/ Verify(f)

Spec == Init /\ [][Next]_vars

-----------------------------------------------------------------------------
Attested(format) ==
    {a \in Allowed :
        \E s \in registry : s.subject = Digest /\ s.format = format
                            /\ s.archs \cap Allowed = {a} /\ ~s.malformed}

\* A signed image has in the registry, in both formats, a statement of its own
\* for each of its architectures and for no other one an image may have,
\* however often a command was repeated after its effect or replaced what was
\* there; and it is rejected for nothing else, so that repeated and stray
\* statements do no harm (ci_retry(), verify()).
SignedMeansEveryPlatform ==
    /\ step = "signed" => \A f \in Formats : Attested(f) = expected
    /\ step = "rejected" => \E f \in Formats : Attested(f) # expected
=============================================================================
