---------------------------- MODULE EvidenceTables ----------------------------
(***************************************************************************)
(* How the registry keeps an evidence in its tables and reads it back:     *)
(* insert_evidence and hydrate of crates/server/src/store.rs over the      *)
(* tables of entity.rs, and the rows of its cache locations.  A table is   *)
(* the set of its rows; no row is ever deleted, so the next key is one     *)
(* more than their number.                                                 *)
(***************************************************************************)
EXTENDS EvidenceFormat

CONSTANT MaxInteger  \* the largest INTEGER of SQLite, 2^63 - 1; a u64 goes to twice that

NoRows == [evidences |-> {}, claims |-> {}, build_claims |-> {}, build_outputs |-> {},
           log_claims |-> {}]

RowById(table, id) == CHOOSE row \in table : row.id = id
RowOfClaim(table, id) == CHOOSE row \in table : row.claim_id = id

(* order_by_asc(Position) *)
ByPosition(rows) == SortedBy(rows, LAMBDA row : row.position)

-----------------------------------------------------------------------------
(* The rows of an evidence that gets the key id, its claims those above    *)
(* base.                                                                   *)

EvidenceRow(id, e) == [id |-> id, schema_version |-> e.schema_version,
                       builder_id |-> e.builder_id,
                       package_repository |-> e.package.repository,
                       package_name |-> e.package.name]

ClaimRow(id, base, e, i) == [id |-> base + i, evidence_id |-> id, position |-> i,
                             kind |-> e.claims[i].kind]

BuildClaimRow(base, e, i) ==
    LET build == e.claims[i] IN
    [claim_id |-> base + i, source |-> build.source, derivation_path |-> build.derivation_path,
     build_log_digest |-> build.build_log_digest, built_at |-> build.built_at]

BuildOutputRow(base, e, i, k) ==
    [claim_id |-> base + i, position |-> k, output |-> e.claims[i].outputs[k]]

LogClaimRow(base, e, i) == [claim_id |-> base + i, log |-> e.claims[i]]

(* u64 to i64, for every output *)
Storable(e) == \A i \in BuildClaims(e) : \A k \in DOMAIN e.claims[i].outputs :
                 e.claims[i].outputs[k].nar_size <= MaxInteger

WithRowsOf(tables, e) ==
    LET id == Cardinality(tables.evidences) + 1
        base == Cardinality(tables.claims)
        builds == BuildClaims(e)
    IN  [evidences |-> tables.evidences \cup {EvidenceRow(id, e)},
         claims |-> tables.claims \cup {ClaimRow(id, base, e, i) : i \in DOMAIN e.claims},
         build_claims |-> tables.build_claims \cup {BuildClaimRow(base, e, i) : i \in builds},
         build_outputs |-> tables.build_outputs
           \cup UNION {{BuildOutputRow(base, e, i, k) : k \in DOMAIN e.claims[i].outputs} :
                         i \in builds},
         log_claims |-> tables.log_claims
           \cup {LogClaimRow(base, e, i) : i \in DOMAIN e.claims \ builds}]

(* Variant: the rows are inserted outside of a transaction. *)
InsertEvidenceDirectly(tables, e) ==
    LET all == WithRowsOf(tables, e) IN
    IF Storable(e) THEN all
    ELSE [all EXCEPT !.build_outputs = tables.build_outputs, !.log_claims = tables.log_claims]

(* The transaction is rolled back when a size does not fit. *)
InsertEvidence(tables, e) == IF Storable(e) THEN WithRowsOf(tables, e) ELSE tables

(* Table cache_locations; the reveal inserts these rows after the evidence. *)
CacheLocationRows(id, uris) == {[evidence_id |-> id, position |-> i, uri |-> uris[i]] :
                                  i \in DOMAIN uris}

-----------------------------------------------------------------------------
(* hydrate *)

ClaimRowsOf(tables, id) == {row \in tables.claims : row.evidence_id = id}
OutputRowsOf(tables, claim_id) == {row \in tables.build_outputs : row.claim_id = claim_id}

HydrateBuild(tables, claim_id) ==
    LET row == RowOfClaim(tables.build_claims, claim_id)
        outputs == ByPosition(OutputRowsOf(tables, claim_id))
    IN  [kind |-> "build", source |-> row.source, derivation_path |-> row.derivation_path,
         outputs |-> [k \in DOMAIN outputs |-> outputs[k].output],
         build_log_digest |-> row.build_log_digest, built_at |-> row.built_at]

HydrateClaim(tables, row) ==
    IF row.kind = "build" THEN HydrateBuild(tables, row.id)
                          ELSE RowOfClaim(tables.log_claims, row.id).log

HydrateClaims(tables, rows) == [i \in DOMAIN rows |-> HydrateClaim(tables, rows[i])]

(* Variant: the claims come in the order of their kinds. *)
HydrateByKind(tables, id) ==
    LET row == RowById(tables.evidences, id)
        rows == ByPosition(ClaimRowsOf(tables, id))
        others == SelectSeq(rows, LAMBDA r : r.kind # "build")
    IN  [schema_version |-> row.schema_version, builder_id |-> row.builder_id,
         package |-> [repository |-> row.package_repository, name |-> row.package_name],
         claims |-> HydrateClaims(tables, others \o SelectSeq(rows, LAMBDA r : r.kind = "build"))]

Hydrate(tables, id) ==
    LET row == RowById(tables.evidences, id) IN
    [schema_version |-> row.schema_version, builder_id |-> row.builder_id,
     package |-> [repository |-> row.package_repository, name |-> row.package_name],
     claims |-> HydrateClaims(tables, ByPosition(ClaimRowsOf(tables, id)))]

(* Evidences in the order of their keys. *)
HydrateAll(tables, ids) == LET order == SortedBy(ids, LAMBDA id : id) IN
                           [i \in DOMAIN order |-> Hydrate(tables, order[i])]

(* list: all evidences that have a build claim of the derivation. *)
ListOf(tables, derivation_path) ==
    HydrateAll(tables,
      {RowById(tables.claims, row.claim_id).evidence_id :
         row \in {b \in tables.build_claims : b.derivation_path = derivation_path}})

(* Every row belongs to one of these evidences, and they have their rows.  *)
RowsBelongTo(tables, ids) ==
    /\ {row.id : row \in tables.evidences} = ids
    /\ {row.evidence_id : row \in tables.claims} = ids
    /\ {row.id : row \in tables.claims} =
         {row.claim_id : row \in tables.build_claims \cup tables.log_claims}
    /\ {row.claim_id : row \in tables.build_outputs} =
         {row.claim_id : row \in tables.build_claims}

=============================================================================
