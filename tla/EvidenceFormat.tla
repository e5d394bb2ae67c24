---------------------------- MODULE EvidenceFormat ----------------------------
(***************************************************************************)
(* The evidence of a build and what is asked of it                         *)
(* (crates/shared/src/evidence.rs, build.rs), and how a builder composes   *)
(* it from the answers of nix (crates/builder-core/src/build.rs,           *)
(* build/nix.rs, build/evidence.rs).                                       *)
(*                                                                         *)
(* A text is a member of a small set.  The code tells apart texts that are *)
(* empty or nothing but white space, texts that are longer than their      *)
(* field admits, texts with white space in them, and all others.           *)
(***************************************************************************)
EXTENDS Naturals, Sequences, FiniteSets, SequencesExt

CONSTANTS
    Blank,      \* a text that is empty after trim()
    TooLong,    \* a text beyond the maximum length of its field
    Spaced,     \* any other text with white space in it
    None        \* Option::None, an error in place of a result

ValidText(t) == t \notin {Blank, TooLong}
ValidOptional(t) == t = None \/ ValidText(t)

SchemaVersion == 4

-----------------------------------------------------------------------------
(* Package::parse_reference, of a text given by its parts between "#".     *)
ParseReference(parts) ==
    IF Len(parts) = 2 /\ \A i \in 1 .. 2 : parts[i] \notin {Blank, TooLong, Spaced}
    THEN [repository |-> parts[1], name |-> parts[2]] ELSE None

(* ClaimKind::with_required_build: the build, then whatever else is asked  *)
(* for, once.  There is one other kind.                                    *)
WithRequiredBuild(requested) ==
    IF Contains(requested, "log") THEN <<"build", "log">> ELSE <<"build">>

-----------------------------------------------------------------------------
(* Evidence::validate *)

IsBuild(claim) == claim.kind = "build"
BuildClaims(e) == {i \in DOMAIN e.claims : IsBuild(e.claims[i])}

(* Evidence::build_claim, of an evidence that has one. *)
BuildClaim(e) == e.claims[CHOOSE i \in BuildClaims(e) : \A j \in BuildClaims(e) : i <= j]

ValidOutput(o) ==
    /\ ValidText(o.output_name) /\ ValidText(o.output_store_path) /\ ValidText(o.nar_hash)
    /\ ValidText(o.closure_root) /\ ValidOptional(o.content_addressed)
    /\ \A i \in DOMAIN o.references : ValidText(o.references[i])

(* Neither a name nor a store path comes twice. *)
ValidOutputs(outputs) ==
    /\ outputs # <<>>
    /\ \A i \in DOMAIN outputs : ValidOutput(outputs[i])
    /\ \A i, j \in DOMAIN outputs : i # j =>
         /\ outputs[i].output_name # outputs[j].output_name
         /\ outputs[i].output_store_path # outputs[j].output_store_path

ValidSource(source) == /\ ValidText(source.resolved_url)
                       /\ ValidOptional(source.revision) /\ ValidOptional(source.nar_hash)

ValidClaim(claim) ==
    IF IsBuild(claim)
    THEN /\ ValidSource(claim.source) /\ ValidText(claim.derivation_path)
         /\ ValidOutputs(claim.outputs) /\ ValidOptional(claim.build_log_digest)
    ELSE claim.finished_at >= claim.started_at

Valid(e) ==
    /\ e.schema_version = SchemaVersion
    /\ ValidText(e.builder_id) /\ ValidText(e.package.repository) /\ ValidText(e.package.name)
    /\ Cardinality(BuildClaims(e)) = 1
    /\ \A i \in DOMAIN e.claims : ValidClaim(e.claims[i])

(* The shape of an evidence: lists, and the fields of its records.         *)
IsList(s) == /\ IsFiniteSet(DOMAIN s) /\ DOMAIN s = 1 .. Cardinality(DOMAIN s)
             /\ s = [i \in DOMAIN s |-> s[i]]

IsEvidence(e) ==
    /\ e = [schema_version |-> e.schema_version, builder_id |-> e.builder_id,
            package |-> [repository |-> e.package.repository, name |-> e.package.name],
            claims |-> e.claims]
    /\ IsList(e.claims)
    /\ \A i \in BuildClaims(e) : LET build == e.claims[i] IN
         /\ build = [kind |-> "build", source |-> build.source,
                     derivation_path |-> build.derivation_path, outputs |-> build.outputs,
                     build_log_digest |-> build.build_log_digest, built_at |-> build.built_at]
         /\ IsList(build.outputs)

-----------------------------------------------------------------------------
(* What is read from the answers of nix; None is an error. *)

(* nix flake metadata: locked, url and resolved_url may each be missing. *)
ResolveSource(repository, metadata) ==
    LET first(a, b) == IF a # None THEN a ELSE b
        locked == metadata.locked
    IN  [resolved_url |-> first(first(metadata.resolved_url, metadata.url), repository),
         revision |-> IF locked = None THEN None ELSE locked.rev,
         nar_hash |-> IF locked = None THEN None ELSE locked.nar_hash]

(* nix path-info --derivation: the derivation paths it names. *)
TakeOnlyEntry(entries) == IF Cardinality(entries) = 1 THEN CHOOSE p \in entries : TRUE ELSE None

(* nix build --json: a list of results, each with its outputs by name. *)
ParseBuildOutputs(results) ==
    IF Len(results) # 1 THEN None
    ELSE IF DOMAIN results[1] = {} THEN None ELSE results[1]

(* The members of S in the order of their keys, which are distinct.        *)
SortedBy(S, Key(_)) ==
    [i \in 1 .. Cardinality(S) |->
       CHOOSE a \in S : Cardinality({b \in S : Key(b) < Key(a)}) = i - 1]

(* A BTreeMap is iterated in the order of its keys, the output names, for  *)
(* which numbers stand.                                                    *)
InOrder(map) == SortedBy(DOMAIN map, LAMBDA name : name)

OutputInfo(name, path, info) ==
    [output_name |-> name, output_path |-> path, nar_hash |-> info.nar_hash,
     nar_size |-> info.nar_size, references |-> info.references,
     content_addressed |-> info.ca]

(* Variant: the entry of a path is not taken out when it is used. *)
CollectSharedInfo(outputs, entries) ==
    IF {outputs[n] : n \in DOMAIN outputs} = DOMAIN entries
    THEN LET names == InOrder(outputs) IN
         [i \in DOMAIN names |-> OutputInfo(names[i], outputs[names[i]], entries[outputs[names[i]]])]
    ELSE None

(* nix path-info: every output takes the entry of its path, and none is    *)
(* left.                                                                   *)
CollectOutputInfo(outputs, entries) ==
    IF /\ {outputs[n] : n \in DOMAIN outputs} = DOMAIN entries
       /\ \A m, n \in DOMAIN outputs : outputs[m] = outputs[n] => m = n
    THEN LET names == InOrder(outputs) IN
         [i \in DOMAIN names |-> OutputInfo(names[i], outputs[names[i]], entries[outputs[names[i]]])]
    ELSE None

-----------------------------------------------------------------------------
(* compose_evidence *)

LogClaim(run) == [kind |-> "log", stdout |-> run.stdout, stderr |-> run.stderr,
                  started_at |-> run.started_at, finished_at |-> run.finished_at]

(* SHA-256 is taken to be free of collisions. *)
DigestBuildLog(log) == <<"sha256", log.stdout, log.stderr>>

BuildOutput(info) ==
    [output_name |-> info.output_name, output_store_path |-> info.output_path,
     nar_hash |-> info.nar_hash, nar_size |-> info.nar_size, references |-> info.references,
     closure_root |-> info.output_path, content_addressed |-> info.content_addressed]

ComposeBuild(source, derivation_path, infos, run) ==
    [kind |-> "build", source |-> source, derivation_path |-> derivation_path,
     outputs |-> [i \in DOMAIN infos |-> BuildOutput(infos[i])],
     build_log_digest |-> DigestBuildLog(LogClaim(run)), built_at |-> run.finished_at]

ComposeEvidence(package, builder_id, source, derivation_path, infos, run, kinds) ==
    [schema_version |-> SchemaVersion, builder_id |-> builder_id, package |-> package,
     claims |-> [i \in DOMAIN kinds |->
                   IF kinds[i] = "build" THEN ComposeBuild(source, derivation_path, infos, run)
                                         ELSE LogClaim(run)]]

=============================================================================
