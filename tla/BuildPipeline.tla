----------------------------- MODULE BuildPipeline -----------------------------
(***************************************************************************)
(* A build from the command to the trust score: execute_build of           *)
(* crates/builder-core, with generate_evidence and the answers of nix, the *)
(* registry's part of commit and reveal that deals with the evidence       *)
(* itself, and the score that the command line client computes.  Other     *)
(* builders reveal evidence of the same derivation at any time.            *)
(*                                                                         *)
(* Who may commit and reveal when is the subject of RoundStore and         *)
(* BuilderSession: here all happens in one round whose reveal phase lasts. *)
(* nix is external: it may fail at any call, answer with less or more than *)
(* was asked for, and take the time from a clock that is set back.         *)
(*                                                                         *)
(* A definition marked "Variant" is a plausible mistake in the code and    *)
(* not part of the specification (see RoundStore).                         *)
(***************************************************************************)
EXTENDS Trust, EvidenceTables

CONSTANTS
    Commands,         \* build commands that are asked for
    BuilderIds,       \* values of --builder-id
    LocationLists,    \* the values of --cache-location of a node, in order
    Metadata,         \* answers of nix flake metadata
    DerivationSets,   \* answers of nix path-info --derivation
    BuildResults,     \* answers of nix build
    PathInfos,        \* answers of nix path-info
    Logs,             \* what nix build writes
    Moments,          \* readings of the clock
    OtherEvidences    \* evidences that other builders reveal

VARIABLES
    pc,               \* where execute_build is
    work,             \* what it has by now
    tables,           \* the tables of an evidence
    cache_locations,  \* table cache_locations
    commitments,      \* table evidence_commitments, of one round
    reply             \* the answer to the builder's reveal

(* A JSON object has finitely many entries; a digest has 64 digits, and a  *)
(* time is one; others, too, reveal evidences.                             *)
ASSUME AnswersAssumption ==
    /\ None \notin Nat /\ Moments \subseteq Nat
    /\ \A log \in Logs : ValidText(DigestBuildLog(log))
    /\ \A results \in BuildResults : Len(results) = 1 =>
         IsFiniteSet(DOMAIN results[1]) /\ DOMAIN results[1] \subseteq Nat
    /\ \A e \in OtherEvidences : IsEvidence(e)

pipeline == <<pc, work, tables, cache_locations, commitments, reply>>

Stages == {"command", "source", "derivation", "initial", "rebuild", "info", "compose",
           "commit", "reveal", "facts", "done", "failed"}

NoWork == [command |-> None, builder_id |-> None, package |-> None, source |-> None,
           derivation_path |-> None, run |-> None, infos |-> None, evidence |-> None,
           trust |-> None]

Commitment(e, id) == [builder_id |-> e.builder_id, digest |-> e, evidence_id |-> id]

-----------------------------------------------------------------------------
(* The builder.  A step yields a result, or None and the build fails.      *)

Yields(stage, field, result, next) ==
    /\ pc = stage
    /\ IF result = None THEN pc' = "failed" /\ UNCHANGED work
                        ELSE pc' = next /\ work' = [work EXCEPT ![field] = result]
    /\ UNCHANGED <<tables, cache_locations, commitments, reply>>

(* nix cannot be run, or exits with an error. *)
NixFails ==
    /\ pc \in {"source", "derivation", "initial", "rebuild", "info"}
    /\ pc' = "failed"
    /\ UNCHANGED <<work, tables, cache_locations, commitments, reply>>

(* BuildCommand::validate, and generate_evidence asks for a builder id.    *)
AcceptCommand ==
    /\ pc = "command"
    /\ \E command \in Commands, b \in BuilderIds :
         LET package == ParseReference(command.package_ref) IN
         IF package = None \/ b = Blank
         THEN pc' = "failed" /\ UNCHANGED work
         ELSE /\ pc' = "source"
              /\ work' = [work EXCEPT !.command = command, !.builder_id = b, !.package = package]
    /\ UNCHANGED <<tables, cache_locations, commitments, reply>>

ResolveTheSource ==
    \E metadata \in Metadata :
        Yields("source", "source", ResolveSource(work.package.repository, metadata), "derivation")

FindDerivation ==
    \E entries \in DerivationSets :
        Yields("derivation", "derivation_path", TakeOnlyEntry(entries), "initial")

(* run_build: the answer of the first build has to be well-formed, too. *)
BuildRun(results, log, started, finished) ==
    LET outputs == ParseBuildOutputs(results) IN
    IF outputs = None THEN None
    ELSE [outputs |-> outputs, stdout |-> log.stdout, stderr |-> log.stderr,
          started_at |-> started, finished_at |-> finished]

InitialBuild ==
    /\ pc = "initial"
    /\ \E results \in BuildResults :
         pc' = IF ParseBuildOutputs(results) = None THEN "failed" ELSE "rebuild"
    /\ UNCHANGED <<work, tables, cache_locations, commitments, reply>>

Rebuild ==
    \E results \in BuildResults, log \in Logs, started, finished \in Moments :
        Yields("rebuild", "run", BuildRun(results, log, started, finished), "info")

QueryOutputs ==
    \E entries \in PathInfos :
        Yields("info", "infos", CollectOutputInfo(work.run.outputs, entries), "compose")

Compose ==
    Yields("compose", "evidence",
           ComposeEvidence(work.package, work.builder_id, work.source, work.derivation_path,
                           work.infos, work.run, WithRequiredBuild(work.command.claims)),
           "commit")

-----------------------------------------------------------------------------
(* The registry. *)

(* validate_commitment_request; submit_evidence needs a build claim, too.  *)
Commits(e) == /\ BuildClaims(e) # {}
              /\ ValidText(e.builder_id) /\ ValidText(BuildClaim(e).derivation_path)

(* The scheme, the host, and no more than a path (cache_location.rs). *)
Normalizes(location) ==
    /\ location.scheme \in {"http", "https"} /\ location.host
    /\ ~location.credentials /\ ~location.query

AllNormalize(locations) == \A i \in DOMAIN locations : Normalizes(locations[i])

(* The path of a stored location ends with a slash. *)
Normalized(locations) == [i \in DOMAIN locations |-> [locations[i] EXCEPT !.slash = TRUE]]

CommittedBy(b) == {i \in DOMAIN commitments : commitments[i].builder_id = b}

(* What reveal answers to an evidence, whose builder has committed to it.  *)
Verdict(e, locations) ==
    IF ~Valid(e) \/ ~AllNormalize(locations) THEN "bad_request"
    ELSE IF Storable(e) THEN "created" ELSE "internal"

Revealed(verdict) == IF verdict = "created" THEN Cardinality(tables.evidences) + 1 ELSE None

LocationRowsAt(verdict, locations) ==
    IF verdict = "created" THEN CacheLocationRows(Revealed(verdict), Normalized(locations)) ELSE {}

(* Variant: the locations are inserted first, outside of the transaction. *)
StoresLocationsFirst(e, locations, verdict) ==
    /\ tables' = IF verdict = "bad_request" THEN tables ELSE InsertEvidence(tables, e)
    /\ cache_locations' = cache_locations \cup
         IF verdict = "bad_request" THEN {}
         ELSE CacheLocationRows(Revealed("created"), Normalized(locations))

(* One transaction: when the insertion of the evidence fails, the locations *)
(* are not reached.                                                         *)
Stores(e, locations, verdict) ==
    /\ tables' = IF verdict = "bad_request" THEN tables ELSE InsertEvidence(tables, e)
    /\ cache_locations' = cache_locations \cup LocationRowsAt(verdict, locations)

CommitEvidence ==
    /\ pc = "commit"
    /\ IF Commits(work.evidence) /\ CommittedBy(work.builder_id) = {}
       THEN /\ pc' = "reveal"
            /\ commitments' = Append(commitments, Commitment(work.evidence, None))
       ELSE pc' = "failed" /\ UNCHANGED commitments
    /\ UNCHANGED <<work, tables, cache_locations, reply>>

RevealEvidence ==
    /\ pc = "reveal"
    /\ \E locations \in LocationLists, i \in CommittedBy(work.builder_id) :
         LET verdict == Verdict(work.evidence, locations) IN
         /\ reply' = [status |-> verdict, locations |-> locations]
         /\ Stores(work.evidence, locations, verdict)
         /\ commitments' = [commitments EXCEPT ![i].evidence_id = Revealed(verdict)]
         /\ pc' = IF verdict = "created" THEN "facts" ELSE "failed"
    /\ UNCHANGED work

OthersReveal ==
    \E e \in OtherEvidences :
        LET locations == CHOOSE list \in LocationLists : AllNormalize(list)
            verdict == Verdict(e, locations)
        IN
        /\ CommittedBy(e.builder_id) = {}
        /\ Stores(e, locations, verdict)
        /\ commitments' = Append(commitments, Commitment(e, Revealed(verdict)))
        /\ UNCHANGED <<pc, work, reply>>

(* list_round *)
RoundFacts == HydrateAll(tables, {commitments[i].evidence_id : i \in DOMAIN commitments} \ {None})

ScoreFacts == Yields("facts", "trust", CalculateTrust(RoundFacts), "done")

-----------------------------------------------------------------------------
PipelineInit ==
    /\ pc = "command"
    /\ work = NoWork
    /\ tables = NoRows /\ cache_locations = {}
    /\ commitments = <<>>
    /\ reply = None

PipelineNext ==
    \/ AcceptCommand \/ ResolveTheSource \/ FindDerivation \/ InitialBuild \/ Rebuild
    \/ QueryOutputs \/ NixFails \/ Compose
    \/ CommitEvidence \/ RevealEvidence \/ ScoreFacts
    \/ OthersReveal

PipelineSpec == PipelineInit /\ [][PipelineNext]_pipeline

-----------------------------------------------------------------------------
(* Properties. *)

(* An evidence is stored with all of its rows or with none: the tables     *)
(* hold exactly the evidences that a commitment points to, and cache       *)
(* locations of no other, also after a reveal that failed half-way; and a  *)
(* builder whose reveal was accepted has all the locations it sent, in     *)
(* their order.                                                            *)
EvidenceIds == {commitments[i].evidence_id : i \in DOMAIN commitments} \ {None}

HasLocations(id, locations) ==
    {row \in cache_locations : row.evidence_id = id} = CacheLocationRows(id, Normalized(locations))

StoredWhole ==
    /\ RowsBelongTo(tables, EvidenceIds)
    /\ \A row \in cache_locations : row.evidence_id \in EvidenceIds
    /\ reply # None /\ reply.status = "created" =>
         \E i \in CommittedBy(work.builder_id) :
           /\ commitments[i].evidence_id # None
           /\ HasLocations(commitments[i].evidence_id, reply.locations)

(* What the registry gives out is what was committed to, field by field    *)
(* and in the same order, so that anybody can verify the digest; and the   *)
(* list of the derivation agrees with that of the round.                   *)
ReadBackOpensDigest ==
    /\ \A i \in DOMAIN commitments : commitments[i].evidence_id # None =>
         Hydrate(tables, commitments[i].evidence_id) = commitments[i].digest
    /\ work.derivation_path # None =>
         \A i \in DOMAIN RoundFacts :
           BuildClaim(RoundFacts[i]).derivation_path = work.derivation_path
             <=> Contains(ListOf(tables, work.derivation_path), RoundFacts[i])

(* nix answers with texts that fit the fields of an evidence (and names of *)
(* outputs, for which numbers stand, do): execute_build does not ask.      *)
AnswersFit ==
    /\ \A metadata \in Metadata :
         /\ ValidOptional(metadata.resolved_url) /\ ValidOptional(metadata.url)
         /\ metadata.locked # None => /\ ValidOptional(metadata.locked.rev)
                                      /\ ValidOptional(metadata.locked.nar_hash)
    /\ \A results \in BuildResults : Len(results) = 1 =>
         \A name \in DOMAIN results[1] : ValidText(name) /\ ValidText(results[1][name])
    /\ \A entries \in PathInfos : \A path \in DOMAIN entries :
         LET info == entries[path] IN
         /\ ValidText(info.nar_hash) /\ ValidOptional(info.ca)
         /\ \A i \in DOMAIN info.references : ValidText(info.references[i])

(* A builder that reveals late or never holds up all others, and only the  *)
(* reveal looks at the evidence.  So whatever nix has answered in texts    *)
(* that fit, what the builder commits to is accepted when it is revealed,  *)
(* unless the clock was set back during the build, an output is too large  *)
(* for the tables or the node is configured with a location that no reveal *)
(* may have.                                                               *)
ClockSetBack == \E i \in DOMAIN work.evidence.claims :
                  LET claim == work.evidence.claims[i] IN
                  ~IsBuild(claim) /\ claim.finished_at < claim.started_at

CommittedIsAccepted ==
    reply # None /\ reply.status # "created" =>
      ClockSetBack \/ ~AllNormalize(reply.locations) \/ ~Storable(work.evidence)

(* The score follows the evidence, in whatever order it came.  A builder   *)
(* that agrees with the consensus of the others never lowers its score,    *)
(* one that disagrees never raises it, and neither makes another output    *)
(* set the consensus.                                                      *)
TrustFollowsEvidence ==
    LET facts == RoundFacts
        all == CalculateTrust(facts)
    IN  \A i \in DOMAIN facts :
          LET others == CalculateTrust(RemoveAt(facts, i)) IN
          others.consensus # None =>
            IF OutputSet(facts[i]) = others.consensus
            THEN all.consensus = others.consensus /\ all.score >= others.score
            ELSE all.consensus \in {others.consensus, None} /\ all.score <= others.score

=============================================================================
