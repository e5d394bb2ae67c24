-------------------------- MODULE BuildPipelineProofs --------------------------
(***************************************************************************)
(* What becomes of an evidence between the builder and a reader of the     *)
(* registry, for whatever nix answers and others reveal: it is stored      *)
(* whole and read back as it was committed to, it is accepted when it is   *)
(* revealed, and it moves the trust score in its own direction.            *)
(*                                                                         *)
(* The argument: keys are given out in order, so a new evidence adds rows  *)
(* that no earlier one has, and the rows under its key are, sorted by      *)
(* their positions, its lists (Stored, HydrateStored).  A builder's        *)
(* evidence is composed from answers that were checked stage by stage      *)
(* (WorkOK).  An evidence is a vote, of a builder that commits once; what  *)
(* a vote changes is arithmetic (ScoreRises, ScoreFalls).                  *)
(***************************************************************************)
EXTENDS BuildPipeline, TLAPS, FiniteSetTheorems

-----------------------------------------------------------------------------
(* Finite sets.                                                            *)

LEMMA DistinctImages ==
    ASSUME NEW D, IsFiniteSet(D), NEW f,
           \A a, b \in D : f[a] = f[b] => a = b
    PROVE  /\ IsFiniteSet({f[a] : a \in D})
           /\ Cardinality({f[a] : a \in D}) = Cardinality(D)
<1> DEFINE R == {f[a] : a \in D}
           g == [a \in D |-> f[a]]
<1>1. g \in Bijection(D, R)
  BY DEF Bijection, Injection, Surjection, IsInjective
<1>2. ExistsBijection(D, R)
  BY <1>1 DEF ExistsBijection
<1> HIDE DEF R, g
<1>3. IsFiniteSet(R) /\ Cardinality(R) = Cardinality(D)
  BY <1>2, FS_Bijection
<1> QED
  BY <1>3 DEF R

LEMMA UpTo ==
    ASSUME NEW n \in Nat
    PROVE  IsFiniteSet(1 .. n) /\ Cardinality(1 .. n) = n
<1>1. 1 \in Int /\ n \in Int
  OBVIOUS
<1>2. IsFiniteSet(1 .. n) /\ Cardinality(1 .. n) = IF 1 > n THEN 0 ELSE n - 1 + 1
  BY <1>1, FS_Interval
<1> QED
  BY <1>2

LEMMA DistinctRows ==
    ASSUME NEW n \in Nat, NEW row, \A i, j \in 1 .. n : row[i] = row[j] => i = j
    PROVE  /\ IsFiniteSet({row[i] : i \in 1 .. n})
           /\ Cardinality({row[i] : i \in 1 .. n}) = n
<1> DEFINE D == 1 .. n
<1>1. IsFiniteSet(D) /\ Cardinality(D) = n
  BY UpTo
<1>2. \A i, j \in D : row[i] = row[j] => i = j
  OBVIOUS
<1> HIDE DEF D
<1>3. IsFiniteSet({row[i] : i \in D}) /\ Cardinality({row[i] : i \in D}) = Cardinality(D)
  BY <1>1, <1>2, DistinctImages
<1> QED
  BY <1>1, <1>3 DEF D

(* The same of a set that has a name.                                      *)
LEMMA DistinctRowSet ==
    ASSUME NEW n \in Nat, NEW row, NEW R, R = {row[i] : i \in 1 .. n},
           \A i, j \in 1 .. n : row[i] = row[j] => i = j
    PROVE  IsFiniteSet(R) /\ Cardinality(R) = n
  BY DistinctRows

(* The rank of a member of a set of numbers is the number of those before it. *)
Below(S, a) == {b \in S : b < a}

LEMMA RankBounds ==
    ASSUME NEW S \in SUBSET Nat, IsFiniteSet(S), NEW a \in S
    PROVE  /\ IsFiniteSet(Below(S, a))
           /\ Cardinality(Below(S, a)) \in 0 .. Cardinality(S) - 1
<1>1. IsFiniteSet(S \ {a}) /\ Cardinality(S \ {a}) = Cardinality(S) - 1
  BY FS_RemoveElement
<1>2. Below(S, a) \subseteq S \ {a}
  BY DEF Below
<1>3. IsFiniteSet(Below(S, a)) /\ Cardinality(Below(S, a)) <= Cardinality(S \ {a})
  BY <1>1, <1>2, FS_Subset
<1>4. Cardinality(Below(S, a)) \in Nat /\ Cardinality(S) \in Nat
  BY <1>3, FS_CardinalityType
<1> QED
  BY <1>1, <1>3, <1>4

LEMMA RankOrder ==
    ASSUME NEW S \in SUBSET Nat, IsFiniteSet(S), NEW a \in S, NEW b \in S, a < b
    PROVE  Cardinality(Below(S, a)) < Cardinality(Below(S, b))
<1>0. a \in Nat /\ b \in Nat
  OBVIOUS
<1>1. ASSUME NEW c \in Below(S, a) PROVE c \in Below(S, b)
  <2>1. c \in S /\ c < a
    BY <1>1 DEF Below
  <2>2. c \in Nat
    BY <2>1
  <2>3. c < b
    BY <1>0, <2>1, <2>2
  <2> QED
    BY <2>1, <2>3 DEF Below
<1>2. a \in Below(S, b)
  BY DEF Below
<1>3. a \notin Below(S, a)
  BY <1>0 DEF Below
<1>4. /\ IsFiniteSet(Below(S, b)) /\ Cardinality(Below(S, a)) \in Nat
      /\ Cardinality(Below(S, b)) \in Nat
  <2>1. /\ IsFiniteSet(Below(S, a)) /\ IsFiniteSet(Below(S, b))
    BY RankBounds
  <2> QED
    BY <2>1, FS_CardinalityType
<1>5. Below(S, a) \subseteq Below(S, b)
  BY <1>1
<1>6. /\ Cardinality(Below(S, a)) <= Cardinality(Below(S, b))
      /\ Cardinality(Below(S, a)) # Cardinality(Below(S, b))
  BY <1>2, <1>3, <1>4, <1>5, FS_Subset
<1> QED
  BY <1>4, <1>6

LEMMA EveryRank ==
    ASSUME NEW S \in SUBSET Nat, IsFiniteSet(S), NEW i \in 1 .. Cardinality(S)
    PROVE  \E a \in S : Cardinality(Below(S, a)) = i - 1
<1> DEFINE n == Cardinality(S)
           N == 0 .. n - 1
           f == [a \in S |-> Cardinality(Below(S, a))]
<1>1. n \in Nat /\ n > 0 /\ i - 1 \in N
  BY FS_CardinalityType
<1>2. IsFiniteSet(N) /\ Cardinality(N) = n
  <2>1. 0 \in Int /\ n - 1 \in Int /\ ~(0 > n - 1)
    BY <1>1
  <2>2. IsFiniteSet(0 .. n - 1) /\ Cardinality(0 .. n - 1) = n - 1 - 0 + 1
    BY <2>1, FS_Interval
  <2> QED
    BY <1>1, <2>2
<1>3. f \in [S -> N]
  BY RankBounds
<1>4. \A a, b \in S : f[a] = f[b] => a = b
  <2>1. \A a, b \in S : a < b => f[a] # f[b]
    <3> SUFFICES ASSUME NEW a \in S, NEW b \in S, a < b PROVE f[a] # f[b]
      OBVIOUS
    <3>1. f[a] < f[b] /\ f[a] = Cardinality(Below(S, a)) /\ f[b] = Cardinality(Below(S, b))
      BY RankOrder
    <3>2. f[a] \in Nat /\ f[b] \in Nat
      BY <3>1, RankBounds
    <3> QED
      BY <3>1, <3>2
  <2>2. \A a, b \in S : a < b \/ b < a \/ a = b
    <3> SUFFICES ASSUME NEW a \in S, NEW b \in S PROVE a < b \/ b < a \/ a = b
      OBVIOUS
    <3>1. a \in Nat /\ b \in Nat
      OBVIOUS
    <3> QED
      BY <3>1
  <2> HIDE DEF f
  <2> QED
    BY <2>1, <2>2
<1> HIDE DEF f, N, n
<1>5. f \in Injection(S, N)
  BY <1>3, <1>4 DEF Injection, IsInjective
<1>6. f \in Surjection(S, N)
  BY <1>2, <1>5, FS_Injection DEF n
<1>7. \E a \in S : f[a] = i - 1
  BY <1>1, <1>6 DEF Surjection
<1> QED
  BY <1>7 DEF f

(* Numbers in their order: each comes. *)
LEMMA SortedMembers ==
    ASSUME NEW S \in SUBSET Nat, IsFiniteSet(S)
    PROVE  LET order == SortedBy(S, LAMBDA a : a) IN
           /\ DOMAIN order = 1 .. Cardinality(S)
           /\ \A i \in DOMAIN order : order[i] \in S
           /\ \A a \in S : \E i \in DOMAIN order : order[i] = a
           /\ \A i, j \in DOMAIN order : order[i] = order[j] => i = j
<1> DEFINE order == [i \in 1 .. Cardinality(S) |->
                       CHOOSE a \in S : Cardinality(Below(S, a)) = i - 1]
<1>1. SortedBy(S, LAMBDA a : a) = order
  BY DEF SortedBy, Below
<1>2. \A i \in 1 .. Cardinality(S) : order[i] \in S /\ Cardinality(Below(S, order[i])) = i - 1
  BY EveryRank
<1>3. ASSUME NEW a \in S PROVE \E i \in 1 .. Cardinality(S) : order[i] = a
  <2> DEFINE i == Cardinality(Below(S, a)) + 1
  <2>1. Cardinality(S) \in Nat /\ Cardinality(Below(S, a)) \in 0 .. Cardinality(S) - 1
    BY RankBounds, FS_CardinalityType
  <2>2. i \in 1 .. Cardinality(S) /\ i - 1 = Cardinality(Below(S, a))
    BY <2>1
  <2>3. order[i] \in S /\ Cardinality(Below(S, order[i])) = Cardinality(Below(S, a))
    BY <1>2, <2>2
  <2> DEFINE b == order[i]
  <2>4. b \in S /\ a \in Nat /\ b \in Nat
    BY <2>3
  <2>5. Cardinality(Below(S, b)) \in Nat
    BY <2>1, <2>3
  <2>6. ~(a < b) /\ ~(b < a)
    <3> HIDE DEF b
    <3>1. Cardinality(Below(S, b)) = Cardinality(Below(S, a))
      BY <2>3 DEF b
    <3> QED
      BY <2>1, <2>4, <2>5, <3>1, RankOrder
  <2>7. b = a
    <3> HIDE DEF b
    <3> QED
      BY <2>4, <2>6
  <2> QED
    BY <2>2, <2>7
<1> HIDE DEF order
<1>4. DOMAIN order = 1 .. Cardinality(S)
  BY DEF order
<1>5. \A i, j \in 1 .. Cardinality(S) : order[i] = order[j] => i = j
  BY <1>2
<1> QED
  BY <1>1, <1>2, <1>3, <1>4, <1>5

(* Rows that are numbered by their positions come in their order.          *)
LEMMA RowsInOrder ==
    ASSUME NEW n \in Nat, NEW row, \A i \in 1 .. n : row[i].position = i
    PROVE  ByPosition({row[i] : i \in 1 .. n}) = [i \in 1 .. n |-> row[i]]
<1> DEFINE R == {row[i] : i \in 1 .. n}
           Before(a) == {b \in R : b.position < a.position}
<1>1. IsFiniteSet(R) /\ Cardinality(R) = n
  <2>1. \A i, j \in 1 .. n : row[i] = row[j] => i = j
    OBVIOUS
  <2>2. R = {row[i] : i \in 1 .. n}
    OBVIOUS
  <2> HIDE DEF R
  <2> QED
    BY <2>1, <2>2, DistinctRowSet, Zenon
<1>2. ASSUME NEW m \in Nat, 1 .. m \subseteq 1 .. n
      PROVE  Cardinality({row[j] : j \in 1 .. m}) = m
  <2> DEFINE Q == {row[j] : j \in 1 .. m}
  <2>1. \A j, k \in 1 .. m : row[j] = row[k] => j = k
    BY <1>2
  <2>2. Q = {row[j] : j \in 1 .. m}
    OBVIOUS
  <2> HIDE DEF Q
  <2>3. Cardinality(Q) = m
    BY <2>1, <2>2, DistinctRowSet, Zenon
  <2> QED
    BY <2>2, <2>3
<1>3. ASSUME NEW i \in 1 .. n PROVE Cardinality(Before(row[i])) = i - 1
  <2> DEFINE m == i - 1
  <2>1. m \in Nat /\ 1 .. m \subseteq 1 .. n
    OBVIOUS
  <2>2. Before(row[i]) = {row[j] : j \in 1 .. m}
    <3>1. ASSUME NEW b \in Before(row[i]) PROVE b \in {row[j] : j \in 1 .. m}
      <4>1. PICK j \in 1 .. n : b = row[j]
        OBVIOUS
      <4>2. j < i
        BY <4>1
      <4> QED
        BY <4>1, <4>2
    <3>2. ASSUME NEW j \in 1 .. m PROVE row[j] \in Before(row[i])
      BY <2>1
    <3> QED
      BY <3>1, <3>2
  <2>3. Cardinality({row[j] : j \in 1 .. m}) = m
    BY <2>1, <1>2
  <2> QED
    BY <2>2, <2>3
<1>4. ASSUME NEW i \in 1 .. n
      PROVE  (CHOOSE a \in R : Cardinality(Before(a)) = i - 1) = row[i]
  <2>1. row[i] \in R /\ Cardinality(Before(row[i])) = i - 1
    BY <1>3
  <2>2. ASSUME NEW a \in R, Cardinality(Before(a)) = i - 1 PROVE a = row[i]
    <3>1. PICK j \in 1 .. n : a = row[j]
      OBVIOUS
    <3>2. Cardinality(Before(row[j])) = j - 1
      BY <1>3
    <3> QED
      BY <2>2, <3>1, <3>2
  <2> HIDE DEF R, Before
  <2> QED
    BY <2>1, <2>2
<1>5. ByPosition(R) = [i \in 1 .. Cardinality(R) |-> CHOOSE a \in R : Cardinality(Before(a)) = i - 1]
  BY DEF ByPosition, SortedBy
<1> HIDE DEF R, Before
<1>6. ByPosition(R) = [i \in 1 .. n |-> row[i]]
  BY <1>1, <1>4, <1>5
<1> QED
  BY <1>6 DEF R

-----------------------------------------------------------------------------
(* The inductive invariant.                                                *)

(* Keys are given out in order. *)
TablesOK(T) ==
    LET ids == 1 .. Cardinality(T.evidences)
        claim_ids == 1 .. Cardinality(T.claims)
    IN  /\ IsFiniteSet(T.evidences) /\ IsFiniteSet(T.claims)
        /\ \A row \in T.evidences : row.id \in ids
        /\ \A row \in T.claims : row.id \in claim_ids /\ row.evidence_id \in ids
        /\ \A row \in T.build_claims : row.claim_id \in claim_ids
        /\ \A row \in T.build_outputs : row.claim_id \in claim_ids
        /\ \A row \in T.log_claims : row.claim_id \in claim_ids

(* The rows of claim i of the evidence e, the claims of which are those    *)
(* above base.                                                             *)
ClaimStored(T, id, base, e, i) ==
    /\ base + i \in 1 .. Cardinality(T.claims)
    /\ {row \in T.claims : row.id = base + i} = {ClaimRow(id, base, e, i)}
    /\ {row \in T.build_claims : row.claim_id = base + i} =
         IF i \in BuildClaims(e) THEN {BuildClaimRow(base, e, i)} ELSE {}
    /\ i \in BuildClaims(e) =>
         {row \in T.build_outputs : row.claim_id = base + i} =
           {BuildOutputRow(base, e, i, k) : k \in DOMAIN e.claims[i].outputs}
    /\ i \notin BuildClaims(e) =>
         {row \in T.log_claims : row.claim_id = base + i} = {LogClaimRow(base, e, i)}

StoredAt(T, id, base, e) ==
    /\ id \in 1 .. Cardinality(T.evidences)
    /\ {row \in T.evidences : row.id = id} = {EvidenceRow(id, e)}
    /\ {row \in T.claims : row.evidence_id = id} = {ClaimRow(id, base, e, i) : i \in DOMAIN e.claims}
    /\ \A i \in DOMAIN e.claims : ClaimStored(T, id, base, e, i)

Stored(T, id, e) == \E base \in 0 .. Cardinality(T.claims) : StoredAt(T, id, base, e)

(* What execute_build has got so far has the shape of an evidence. *)
WorkOK ==
    /\ DOMAIN work = DOMAIN NoWork
    /\ pc \in Stages
    /\ pc \notin {"command", "failed"} =>
         work.package = [repository |-> work.package.repository, name |-> work.package.name]
    /\ pc = "info" => IsFiniteSet(DOMAIN work.run.outputs)
    /\ pc = "compose" => IsList(work.infos)
    /\ pc \in {"commit", "reveal"} =>
         IsEvidence(work.evidence) /\ work.evidence.builder_id = work.builder_id

(* An evidence that is revealed was the only one of its builder. *)
CommitmentOK(T, c) ==
    /\ c = Commitment(c.digest, c.evidence_id)
    /\ IsEvidence(c.digest)
    /\ c.evidence_id # None => Valid(c.digest) /\ Stored(T, c.evidence_id, c.digest)

CommitmentsOK ==
    /\ commitments \in Seq({commitments[i] : i \in DOMAIN commitments})
    /\ \A i \in DOMAIN commitments : CommitmentOK(tables, commitments[i])
    /\ pc = "reveal" =>
         /\ CommittedBy(work.builder_id) # {}
         /\ \A i \in CommittedBy(work.builder_id) : commitments[i] = Commitment(work.evidence, None)

(* The tables hold the rows of revealed evidences and no others. *)
RowsWhole == RowsBelongTo(tables, EvidenceIds)

PInv == /\ TablesOK(tables) /\ RowsWhole
        /\ WorkOK /\ CommitmentsOK

-----------------------------------------------------------------------------
(* What is stored is read back as it was.                                  *)

LEMMA RowByIdFound ==
    ASSUME NEW table, NEW id, NEW r, {row \in table : row.id = id} = {r}
    PROVE  RowById(table, id) = r
<1>1. r \in table /\ r.id = id
  OBVIOUS
<1>2. \A row \in table : row.id = id => row = r
  OBVIOUS
<1> QED
  BY <1>1, <1>2 DEF RowById

LEMMA RowOfClaimFound ==
    ASSUME NEW table, NEW id, NEW r, {row \in table : row.claim_id = id} = {r}
    PROVE  RowOfClaim(table, id) = r
<1>1. r \in table /\ r.claim_id = id
  OBVIOUS
<1>2. \A row \in table : row.claim_id = id => row = r
  OBVIOUS
<1> QED
  BY <1>1, <1>2 DEF RowOfClaim

LEMMA ListLength ==
    ASSUME NEW s, IsList(s)
    PROVE  \E n \in Nat : DOMAIN s = 1 .. n
<1>1. Cardinality(DOMAIN s) \in Nat
  BY FS_CardinalityType DEF IsList
<1> QED
  BY <1>1 DEF IsList

LEMMA HydrateBuildStored ==
    ASSUME NEW T, NEW id, NEW base, NEW e, NEW i \in BuildClaims(e), IsEvidence(e),
           ClaimStored(T, id, base, e, i)
    PROVE  HydrateBuild(T, base + i) = e.claims[i]
<1> DEFINE build == e.claims[i]
           outputs == build.outputs
           rows == [k \in DOMAIN outputs |-> BuildOutputRow(base, e, i, k)]
<1>1. RowOfClaim(T.build_claims, base + i) = BuildClaimRow(base, e, i)
  <2>1. {row \in T.build_claims : row.claim_id = base + i} = {BuildClaimRow(base, e, i)}
    BY DEF ClaimStored
  <2> QED
    BY <2>1, RowOfClaimFound
<1>2. /\ build = [kind |-> "build", source |-> build.source,
                  derivation_path |-> build.derivation_path, outputs |-> build.outputs,
                  build_log_digest |-> build.build_log_digest, built_at |-> build.built_at]
      /\ IsList(outputs)
  BY DEF IsEvidence
<1>3. PICK n \in Nat : DOMAIN outputs = 1 .. n
  BY <1>2, ListLength
<1>4. OutputRowsOf(T, base + i) = {rows[k] : k \in 1 .. n}
  <2>1. {row \in T.build_outputs : row.claim_id = base + i} = {BuildOutputRow(base, e, i, k) : k \in DOMAIN outputs}
    BY DEF ClaimStored
  <2>2. \A k \in 1 .. n : rows[k] = BuildOutputRow(base, e, i, k)
    BY <1>3
  <2> HIDE DEF rows, outputs
  <2> QED
    BY <1>3, <2>1, <2>2 DEF OutputRowsOf
<1>5. ByPosition(OutputRowsOf(T, base + i)) = [k \in 1 .. n |-> rows[k]]
  <2>1. \A k \in 1 .. n : rows[k].position = k
    BY <1>3 DEF BuildOutputRow
  <2> HIDE DEF rows
  <2> QED
    BY <1>4, <2>1, RowsInOrder
<1>6. \A k \in 1 .. n : rows[k].output = outputs[k]
  BY <1>3 DEF BuildOutputRow
<1>7. outputs = [k \in 1 .. n |-> outputs[k]]
  BY <1>2, <1>3 DEF IsList
<1> DEFINE sorted == ByPosition(OutputRowsOf(T, base + i))
<1>8. [k \in DOMAIN sorted |-> sorted[k].output] = outputs
  <2>1. DOMAIN sorted = 1 .. n /\ \A k \in 1 .. n : sorted[k] = rows[k]
    BY <1>5
  <2> HIDE DEF sorted, rows, outputs
  <2>2. [k \in DOMAIN sorted |-> sorted[k].output] = [k \in 1 .. n |-> outputs[k]]
    BY <2>1, <1>6
  <2> QED
    BY <2>2, <1>7
<1>9. HydrateBuild(T, base + i) =
        [kind |-> "build", source |-> build.source, derivation_path |-> build.derivation_path,
         outputs |-> outputs, build_log_digest |-> build.build_log_digest,
         built_at |-> build.built_at]
  <2>1. /\ BuildClaimRow(base, e, i).source = build.source
        /\ BuildClaimRow(base, e, i).derivation_path = build.derivation_path
        /\ BuildClaimRow(base, e, i).build_log_digest = build.build_log_digest
        /\ BuildClaimRow(base, e, i).built_at = build.built_at
    BY DEF BuildClaimRow
  <2> HIDE DEF build, outputs
  <2> QED
    BY <1>1, <1>8, <2>1 DEF HydrateBuild
<1> QED
  BY <1>2, <1>9

LEMMA HydrateStored ==
    ASSUME NEW T, NEW id, NEW base, NEW e, IsEvidence(e), StoredAt(T, id, base, e)
    PROVE  Hydrate(T, id) = e
<1> DEFINE rows == [i \in DOMAIN e.claims |-> ClaimRow(id, base, e, i)]
<1>1. RowById(T.evidences, id) = EvidenceRow(id, e)
  BY RowByIdFound DEF StoredAt
<1>2. PICK n \in Nat : DOMAIN e.claims = 1 .. n
  BY ListLength DEF IsEvidence
<1>3. ClaimRowsOf(T, id) = {rows[i] : i \in 1 .. n}
  BY <1>2 DEF StoredAt, ClaimRowsOf
<1>4. ByPosition(ClaimRowsOf(T, id)) = [i \in 1 .. n |-> rows[i]]
  <2>1. \A i \in 1 .. n : rows[i].position = i
    BY <1>2 DEF ClaimRow
  <2> HIDE DEF rows
  <2> QED
    BY <1>3, <2>1, RowsInOrder
<1>5. ASSUME NEW i \in 1 .. n PROVE HydrateClaim(T, rows[i]) = e.claims[i]
  <2>1. rows[i].kind = e.claims[i].kind /\ rows[i].id = base + i
    BY <1>2 DEF ClaimRow
  <2>2. ClaimStored(T, id, base, e, i)
    BY <1>2 DEF StoredAt
  <2>3. CASE e.claims[i].kind = "build"
    <3>1. i \in BuildClaims(e)
      BY <2>3, <1>2 DEF BuildClaims, IsBuild
    <3>2. HydrateBuild(T, base + i) = e.claims[i]
      BY <2>2, <3>1, HydrateBuildStored
    <3> HIDE DEF rows
    <3> QED
      BY <2>1, <2>3, <3>2 DEF HydrateClaim
  <2>4. CASE e.claims[i].kind # "build"
    <3>1. i \notin BuildClaims(e)
      BY <2>4 DEF BuildClaims, IsBuild
    <3>2. RowOfClaim(T.log_claims, base + i) = LogClaimRow(base, e, i)
      BY <2>2, <3>1, RowOfClaimFound DEF ClaimStored
    <3>3. LogClaimRow(base, e, i).log = e.claims[i]
      BY DEF LogClaimRow
    <3> HIDE DEF rows
    <3> QED
      BY <2>1, <2>4, <3>2, <3>3 DEF HydrateClaim
  <2> QED
    BY <2>3, <2>4
<1>6. HydrateClaims(T, ByPosition(ClaimRowsOf(T, id))) = e.claims
  <2> DEFINE sorted == ByPosition(ClaimRowsOf(T, id))
  <2>1. DOMAIN sorted = 1 .. n /\ \A i \in 1 .. n : sorted[i] = rows[i]
    BY <1>4
  <2>2. e.claims = [i \in 1 .. n |-> e.claims[i]]
    BY <1>2 DEF IsEvidence, IsList
  <2> HIDE DEF sorted, rows
  <2>3. HydrateClaims(T, sorted) = [i \in 1 .. n |-> e.claims[i]]
    BY <2>1, <1>5 DEF HydrateClaims
  <2> QED
    BY <2>2, <2>3 DEF sorted
<1>7. /\ EvidenceRow(id, e).schema_version = e.schema_version
      /\ EvidenceRow(id, e).builder_id = e.builder_id
      /\ EvidenceRow(id, e).package_repository = e.package.repository
      /\ EvidenceRow(id, e).package_name = e.package.name
  BY DEF EvidenceRow
<1>8. Hydrate(T, id) =
        [schema_version |-> e.schema_version, builder_id |-> e.builder_id,
         package |-> [repository |-> e.package.repository, name |-> e.package.name],
         claims |-> e.claims]
  BY <1>1, <1>6, <1>7 DEF Hydrate
<1> QED
  BY <1>8 DEF IsEvidence

-----------------------------------------------------------------------------
(* Rows of another evidence are added.                                     *)

NewId(T) == Cardinality(T.evidences) + 1
Base(T) == Cardinality(T.claims)

NewClaims(T, e) == {ClaimRow(NewId(T), Base(T), e, i) : i \in DOMAIN e.claims}
NewBuilds(T, e) == {BuildClaimRow(Base(T), e, i) : i \in BuildClaims(e)}
NewOutputs(T, e) ==
    UNION {{BuildOutputRow(Base(T), e, i, k) : k \in DOMAIN e.claims[i].outputs} :
             i \in BuildClaims(e)}
NewLogs(T, e) == {LogClaimRow(Base(T), e, i) : i \in DOMAIN e.claims \ BuildClaims(e)}

LEMMA InsertFields ==
    ASSUME NEW T, NEW e
    PROVE  /\ WithRowsOf(T, e).evidences = T.evidences \cup {EvidenceRow(NewId(T), e)}
           /\ WithRowsOf(T, e).claims = T.claims \cup NewClaims(T, e)
           /\ WithRowsOf(T, e).build_claims = T.build_claims \cup NewBuilds(T, e)
           /\ WithRowsOf(T, e).build_outputs = T.build_outputs \cup NewOutputs(T, e)
           /\ WithRowsOf(T, e).log_claims = T.log_claims \cup NewLogs(T, e)
BY DEF WithRowsOf, NewId, Base, NewClaims, NewBuilds, NewOutputs, NewLogs

(* The keys of what is added. *)
LEMMA NewKeys ==
    ASSUME NEW T, NEW e
    PROVE  /\ EvidenceRow(NewId(T), e).id = NewId(T)
           /\ \A row \in NewClaims(T, e) : \E i \in DOMAIN e.claims :
                /\ row = ClaimRow(NewId(T), Base(T), e, i)
                /\ row.id = Base(T) + i /\ row.evidence_id = NewId(T)
           /\ \A row \in NewBuilds(T, e) : \E i \in BuildClaims(e) :
                row = BuildClaimRow(Base(T), e, i) /\ row.claim_id = Base(T) + i
           /\ \A row \in NewOutputs(T, e) :
                \E i \in BuildClaims(e) : \E k \in DOMAIN e.claims[i].outputs :
                  row = BuildOutputRow(Base(T), e, i, k) /\ row.claim_id = Base(T) + i
           /\ \A row \in NewLogs(T, e) : \E i \in DOMAIN e.claims \ BuildClaims(e) :
                row = LogClaimRow(Base(T), e, i) /\ row.claim_id = Base(T) + i
BY DEF EvidenceRow, NewClaims, NewBuilds, NewOutputs, NewLogs, ClaimRow, BuildClaimRow,
       BuildOutputRow, LogClaimRow

LEMMA KeysOf ==
    ASSUME NEW T, NEW e, NEW i
    PROVE  /\ ClaimRow(NewId(T), Base(T), e, i).id = Base(T) + i
           /\ ClaimRow(NewId(T), Base(T), e, i).evidence_id = NewId(T)
           /\ BuildClaimRow(Base(T), e, i).claim_id = Base(T) + i
           /\ \A k : BuildOutputRow(Base(T), e, i, k).claim_id = Base(T) + i
           /\ LogClaimRow(Base(T), e, i).claim_id = Base(T) + i
BY DEF ClaimRow, BuildClaimRow, BuildOutputRow, LogClaimRow

LEMMA InsertCounts ==
    ASSUME NEW T, TablesOK(T), NEW e, NEW n \in Nat, DOMAIN e.claims = 1 .. n
    PROVE  /\ Base(T) \in Nat /\ NewId(T) \in Nat /\ NewId(T) = Cardinality(T.evidences) + 1
           /\ Cardinality(T.evidences) \in Nat
           /\ IsFiniteSet(WithRowsOf(T, e).evidences)
           /\ Cardinality(WithRowsOf(T, e).evidences) = NewId(T)
           /\ IsFiniteSet(WithRowsOf(T, e).claims)
           /\ Cardinality(WithRowsOf(T, e).claims) = Base(T) + n
<1>1. /\ IsFiniteSet(T.evidences) /\ IsFiniteSet(T.claims)
      /\ Cardinality(T.evidences) \in Nat /\ Cardinality(T.claims) \in Nat
  BY FS_CardinalityType DEF TablesOK
<1>2. /\ Base(T) \in Nat /\ NewId(T) \in Nat /\ NewId(T) = Cardinality(T.evidences) + 1
      /\ Base(T) = Cardinality(T.claims)
  BY <1>1 DEF Base, NewId
<1>3. EvidenceRow(NewId(T), e) \notin T.evidences
  BY <1>1, <1>2, NewKeys DEF TablesOK
<1>4. /\ IsFiniteSet(WithRowsOf(T, e).evidences)
      /\ Cardinality(WithRowsOf(T, e).evidences) = NewId(T)
  BY <1>1, <1>2, <1>3, FS_AddElement, InsertFields
<1>5. IsFiniteSet(NewClaims(T, e)) /\ Cardinality(NewClaims(T, e)) = n
  <2> DEFINE row == [i \in 1 .. n |-> ClaimRow(NewId(T), Base(T), e, i)]
  <2>1. \A i \in 1 .. n : row[i].id = Base(T) + i
    BY KeysOf
  <2>2. NewClaims(T, e) = {row[i] : i \in 1 .. n}
    BY DEF NewClaims
  <2> HIDE DEF row
  <2>3. \A i, j \in 1 .. n : row[i] = row[j] => i = j
    BY <1>2, <2>1
  <2>4. /\ IsFiniteSet({row[i] : i \in 1 .. n})
        /\ Cardinality({row[i] : i \in 1 .. n}) = n
    BY <2>3, DistinctRows, SMTT(30)
  <2> QED
    BY <2>2, <2>4
<1>6. T.claims \cap NewClaims(T, e) = {}
  <2> SUFFICES ASSUME NEW row \in T.claims, row \in NewClaims(T, e) PROVE FALSE
    OBVIOUS
  <2>1. row.id \in 1 .. Base(T)
    BY <1>2 DEF TablesOK
  <2>2. PICK i \in 1 .. n : row.id = Base(T) + i
    BY NewKeys
  <2> QED
    BY <1>2, <2>1, <2>2
<1>7. /\ IsFiniteSet(T.claims \cup NewClaims(T, e))
      /\ Cardinality(T.claims \cup NewClaims(T, e)) =
           Cardinality(T.claims) + Cardinality(NewClaims(T, e))
             - Cardinality(T.claims \cap NewClaims(T, e))
  BY <1>1, <1>5, FS_Union
<1>8. Cardinality(T.claims \cap NewClaims(T, e)) = 0
  BY <1>6, FS_EmptySet
<1>9. Cardinality(T.claims \cup NewClaims(T, e)) = Base(T) + n
  BY <1>2, <1>5, <1>7, <1>8
<1> QED
  BY <1>1, <1>2, <1>4, <1>7, <1>9, InsertFields

LEMMA InsertTablesOK ==
    ASSUME NEW T, TablesOK(T), NEW e, IsEvidence(e)
    PROVE  TablesOK(WithRowsOf(T, e))
<1> DEFINE T2 == WithRowsOf(T, e)
<1>1. PICK n \in Nat : DOMAIN e.claims = 1 .. n
  BY ListLength DEF IsEvidence
<1>2. /\ Base(T) \in Nat /\ NewId(T) \in Nat /\ NewId(T) = Cardinality(T.evidences) + 1
      /\ Cardinality(T.evidences) \in Nat /\ Base(T) = Cardinality(T.claims)
      /\ IsFiniteSet(T2.evidences) /\ Cardinality(T2.evidences) = NewId(T)
      /\ IsFiniteSet(T2.claims) /\ Cardinality(T2.claims) = Base(T) + n
  BY <1>1, InsertCounts DEF Base
<1>3. BuildClaims(e) \subseteq 1 .. n
  BY <1>1 DEF BuildClaims
<1> HIDE DEF T2
<1>4. \A i \in 1 .. n : Base(T) + i \in 1 .. Cardinality(T2.claims)
  BY <1>2
<1>5. 1 .. Cardinality(T.claims) \subseteq 1 .. Cardinality(T2.claims)
  BY <1>2
<1>6. \A row \in T2.evidences : row.id \in 1 .. Cardinality(T2.evidences)
  BY <1>2, InsertFields, NewKeys DEF TablesOK, T2
<1>7. \A row \in T2.claims : /\ row.id \in 1 .. Cardinality(T2.claims)
                             /\ row.evidence_id \in 1 .. Cardinality(T2.evidences)
  <2> SUFFICES ASSUME NEW row \in T2.claims
               PROVE  /\ row.id \in 1 .. Cardinality(T2.claims)
                      /\ row.evidence_id \in 1 .. Cardinality(T2.evidences)
    OBVIOUS
  <2>1. row \in T.claims \/ row \in NewClaims(T, e)
    BY InsertFields DEF T2
  <2>2. CASE row \in T.claims
    BY <1>2, <1>5, <2>2 DEF TablesOK
  <2>3. CASE row \in NewClaims(T, e)
    BY <1>1, <1>2, <1>4, <2>3, NewKeys
  <2> QED
    BY <2>1, <2>2, <2>3
<1>8. \A row \in T2.build_claims : row.claim_id \in 1 .. Cardinality(T2.claims)
  <2> SUFFICES ASSUME NEW row \in T2.build_claims PROVE row.claim_id \in 1 .. Cardinality(T2.claims)
    OBVIOUS
  <2>1. row \in T.build_claims \/ row \in NewBuilds(T, e)
    BY InsertFields DEF T2
  <2>2. CASE row \in T.build_claims
    BY <1>5, <2>2 DEF TablesOK
  <2>3. CASE row \in NewBuilds(T, e)
    BY <1>3, <1>4, <2>3, NewKeys
  <2> QED
    BY <2>1, <2>2, <2>3
<1>9. \A row \in T2.build_outputs : row.claim_id \in 1 .. Cardinality(T2.claims)
  <2> SUFFICES ASSUME NEW row \in T2.build_outputs PROVE row.claim_id \in 1 .. Cardinality(T2.claims)
    OBVIOUS
  <2>1. row \in T.build_outputs \/ row \in NewOutputs(T, e)
    BY InsertFields DEF T2
  <2>2. CASE row \in T.build_outputs
    BY <1>5, <2>2 DEF TablesOK
  <2>3. CASE row \in NewOutputs(T, e)
    BY <1>3, <1>4, <2>3, NewKeys
  <2> QED
    BY <2>1, <2>2, <2>3
<1>10. \A row \in T2.log_claims : row.claim_id \in 1 .. Cardinality(T2.claims)
  <2> SUFFICES ASSUME NEW row \in T2.log_claims PROVE row.claim_id \in 1 .. Cardinality(T2.claims)
    OBVIOUS
  <2>1. row \in T.log_claims \/ row \in NewLogs(T, e)
    BY InsertFields DEF T2
  <2>2. CASE row \in T.log_claims
    BY <1>5, <2>2 DEF TablesOK
  <2>3. CASE row \in NewLogs(T, e)
    BY <1>1, <1>4, <2>3, NewKeys
  <2> QED
    BY <2>1, <2>2, <2>3
<1> QED
  BY <1>2, <1>6, <1>7, <1>8, <1>9, <1>10 DEF TablesOK, T2

LEMMA InsertNewClaim ==
    ASSUME NEW T, TablesOK(T), NEW e, IsEvidence(e), NEW i \in DOMAIN e.claims
    PROVE  ClaimStored(WithRowsOf(T, e), NewId(T), Base(T), e, i)
<1> DEFINE T2 == WithRowsOf(T, e)
           key == Base(T) + i
<1>1. PICK n \in Nat : DOMAIN e.claims = 1 .. n
  BY ListLength DEF IsEvidence
<1>2. /\ Base(T) \in Nat /\ Base(T) = Cardinality(T.claims)
      /\ Cardinality(T2.claims) = Base(T) + n
  BY <1>1, InsertCounts DEF Base
<1>3. BuildClaims(e) \subseteq 1 .. n
  BY <1>1 DEF BuildClaims
<1>4. key \in Nat /\ key \notin 1 .. Cardinality(T.claims)
  BY <1>1, <1>2
<1>5. \A j \in 1 .. n : Base(T) + j = key => j = i
  BY <1>1, <1>2
<1>6. key \in 1 .. Cardinality(T2.claims)
  BY <1>1, <1>2
<1>7. {row \in T2.claims : row.id = key} = {ClaimRow(NewId(T), Base(T), e, i)}
  <2>1. ASSUME NEW row \in T2.claims, row.id = key
        PROVE  row = ClaimRow(NewId(T), Base(T), e, i)
    <3>1. row \in NewClaims(T, e)
      BY <1>4, <2>1, InsertFields DEF TablesOK
    <3> QED
      BY <1>1, <1>5, <2>1, <3>1, NewKeys
  <2>2. ClaimRow(NewId(T), Base(T), e, i) \in T2.claims
    BY InsertFields DEF NewClaims
  <2> HIDE DEF T2
  <2> QED
    BY <2>1, <2>2, KeysOf
<1>8. {row \in T2.build_claims : row.claim_id = key} =
        IF i \in BuildClaims(e) THEN {BuildClaimRow(Base(T), e, i)} ELSE {}
  <2>1. ASSUME NEW row \in T2.build_claims, row.claim_id = key
        PROVE  i \in BuildClaims(e) /\ row = BuildClaimRow(Base(T), e, i)
    <3>1. row \in NewBuilds(T, e)
      BY <1>4, <2>1, InsertFields DEF TablesOK
    <3> QED
      BY <1>3, <1>5, <2>1, <3>1, NewKeys
  <2>2. i \in BuildClaims(e) => BuildClaimRow(Base(T), e, i) \in T2.build_claims
    BY InsertFields DEF NewBuilds
  <2> HIDE DEF T2
  <2> QED
    BY <2>1, <2>2, KeysOf
<1>9. ASSUME i \in BuildClaims(e)
      PROVE  {row \in T2.build_outputs : row.claim_id = key} =
               {BuildOutputRow(Base(T), e, i, k) : k \in DOMAIN e.claims[i].outputs}
  <2>1. ASSUME NEW row \in T2.build_outputs, row.claim_id = key
        PROVE  row \in {BuildOutputRow(Base(T), e, i, k) : k \in DOMAIN e.claims[i].outputs}
    <3>1. row \in NewOutputs(T, e)
      BY <1>4, <2>1, InsertFields DEF TablesOK
    <3>2. PICK j \in BuildClaims(e) : \E k \in DOMAIN e.claims[j].outputs :
            row = BuildOutputRow(Base(T), e, j, k) /\ row.claim_id = Base(T) + j
      BY <3>1, NewKeys
    <3>3. j = i
      BY <1>3, <1>5, <2>1, <3>2
    <3> QED
      BY <3>2, <3>3
  <2>2. ASSUME NEW row \in {BuildOutputRow(Base(T), e, i, k) : k \in DOMAIN e.claims[i].outputs}
        PROVE  row \in T2.build_outputs /\ row.claim_id = key
    <3>1. PICK k \in DOMAIN e.claims[i].outputs : row = BuildOutputRow(Base(T), e, i, k)
      OBVIOUS
    <3>2. row \in NewOutputs(T, e)
      BY <1>9, <3>1 DEF NewOutputs
    <3>3. row \in T2.build_outputs
      BY <3>2, InsertFields
    <3>4. BuildOutputRow(Base(T), e, i, k).claim_id = key
      BY KeysOf
    <3> HIDE DEF T2, key
    <3> QED
      BY <3>1, <3>3, <3>4
  <2> HIDE DEF T2, key
  <2> QED
    BY <2>1, <2>2
<1>10. ASSUME i \notin BuildClaims(e)
       PROVE  {row \in T2.log_claims : row.claim_id = key} = {LogClaimRow(Base(T), e, i)}
  <2>1. ASSUME NEW row \in T2.log_claims, row.claim_id = key
        PROVE  row = LogClaimRow(Base(T), e, i)
    <3>1. row \in NewLogs(T, e)
      BY <1>4, <2>1, InsertFields DEF TablesOK
    <3> QED
      BY <1>1, <1>5, <2>1, <3>1, NewKeys
  <2>2. LogClaimRow(Base(T), e, i) \in T2.log_claims
    BY <1>10, InsertFields DEF NewLogs
  <2> HIDE DEF T2
  <2> QED
    BY <2>1, <2>2, KeysOf
<1> QED
  BY <1>6, <1>7, <1>8, <1>9, <1>10 DEF ClaimStored

LEMMA InsertNew ==
    ASSUME NEW T, TablesOK(T), NEW e, IsEvidence(e)
    PROVE  Stored(WithRowsOf(T, e), NewId(T), e)
<1> DEFINE T2 == WithRowsOf(T, e)
<1>1. PICK n \in Nat : DOMAIN e.claims = 1 .. n
  BY ListLength DEF IsEvidence
<1>2. /\ Base(T) \in Nat /\ NewId(T) \in Nat /\ NewId(T) = Cardinality(T.evidences) + 1
      /\ Cardinality(T.evidences) \in Nat
      /\ Cardinality(T2.evidences) = NewId(T) /\ Cardinality(T2.claims) = Base(T) + n
  BY <1>1, InsertCounts
<1>3. NewId(T) \in 1 .. Cardinality(T2.evidences) /\ Base(T) \in 0 .. Cardinality(T2.claims)
  BY <1>2
<1>4. NewId(T) \notin 1 .. Cardinality(T.evidences)
  BY <1>2
<1>5. {row \in T2.evidences : row.id = NewId(T)} = {EvidenceRow(NewId(T), e)}
  BY <1>4, InsertFields, NewKeys DEF TablesOK
<1>6. {row \in T2.claims : row.evidence_id = NewId(T)} = NewClaims(T, e)
  BY <1>4, InsertFields, NewKeys DEF TablesOK
<1>7. \A i \in DOMAIN e.claims : ClaimStored(T2, NewId(T), Base(T), e, i)
  BY InsertNewClaim
<1> HIDE DEF T2
<1>8. StoredAt(T2, NewId(T), Base(T), e)
  BY <1>3, <1>5, <1>6, <1>7 DEF StoredAt, NewClaims
<1> QED
  BY <1>3, <1>8 DEF Stored, T2

(* What was stored stays as it is. *)
LEMMA InsertKeeps ==
    ASSUME NEW T, TablesOK(T), NEW e, IsEvidence(e), NEW id, NEW f, Stored(T, id, f)
    PROVE  Stored(WithRowsOf(T, e), id, f)
<1> DEFINE T2 == WithRowsOf(T, e)
<1>1. PICK n \in Nat : DOMAIN e.claims = 1 .. n
  BY ListLength DEF IsEvidence
<1>2. /\ Base(T) \in Nat /\ NewId(T) \in Nat /\ NewId(T) = Cardinality(T.evidences) + 1
      /\ Cardinality(T.evidences) \in Nat /\ Base(T) = Cardinality(T.claims)
      /\ Cardinality(T2.evidences) = NewId(T) /\ Cardinality(T2.claims) = Base(T) + n
  BY <1>1, InsertCounts DEF Base
<1>3. BuildClaims(e) \subseteq 1 .. n
  BY <1>1 DEF BuildClaims
<1>4. PICK base \in 0 .. Cardinality(T.claims) : StoredAt(T, id, base, f)
  BY DEF Stored
<1>5. /\ id \in 1 .. Cardinality(T2.evidences) /\ base \in 0 .. Cardinality(T2.claims)
      /\ id # NewId(T)
  BY <1>2, <1>4 DEF StoredAt
<1>6. {row \in T2.evidences : row.id = id} = {EvidenceRow(id, f)}
  <2>1. {row \in T.evidences : row.id = id} = {EvidenceRow(id, f)}
    BY <1>4 DEF StoredAt
  <2>2. T2.evidences = T.evidences \cup {EvidenceRow(NewId(T), e)}
    BY InsertFields
  <2> HIDE DEF T2
  <2> QED
    BY <1>5, <2>1, <2>2, NewKeys
<1>7. {row \in T2.claims : row.evidence_id = id} = {ClaimRow(id, base, f, i) : i \in DOMAIN f.claims}
  <2>1. {row \in T.claims : row.evidence_id = id} = {ClaimRow(id, base, f, i) : i \in DOMAIN f.claims}
    BY <1>4 DEF StoredAt
  <2>2. T2.claims = T.claims \cup NewClaims(T, e)
    BY InsertFields
  <2>3. {row \in T2.claims : row.evidence_id = id} = {row \in T.claims : row.evidence_id = id}
    <3> HIDE DEF T2
    <3> QED
      BY <1>5, <2>2, NewKeys
  <2> QED
    BY <2>1, <2>3
<1>8. ASSUME NEW i \in DOMAIN f.claims PROVE ClaimStored(T2, id, base, f, i)
  <2> DEFINE key == base + i
  <2>1. ClaimStored(T, id, base, f, i)
    BY <1>4 DEF StoredAt
  <2>2. key \in 1 .. Cardinality(T.claims)
    BY <2>1 DEF ClaimStored
  <2>3. key \in 1 .. Cardinality(T2.claims)
    BY <1>2, <2>2
  <2>4. \A j \in 1 .. n : Base(T) + j # key
    BY <1>2, <2>2
  <2> HIDE DEF T2, key
  <2>5. {row \in T2.claims : row.id = key} = {row \in T.claims : row.id = key}
    <3>1. T2.claims = T.claims \cup NewClaims(T, e)
      BY InsertFields DEF T2
    <3>2. \A row \in NewClaims(T, e) : row.id # key
      BY <1>1, <2>4, NewKeys
    <3> QED
      BY <3>1, <3>2
  <2>6. {row \in T2.build_claims : row.claim_id = key} = {row \in T.build_claims : row.claim_id = key}
    <3>1. T2.build_claims = T.build_claims \cup NewBuilds(T, e)
      BY InsertFields DEF T2
    <3>2. \A row \in NewBuilds(T, e) : row.claim_id # key
      BY <1>3, <2>4, NewKeys
    <3> QED
      BY <3>1, <3>2
  <2>7. {row \in T2.build_outputs : row.claim_id = key} = {row \in T.build_outputs : row.claim_id = key}
    <3>1. T2.build_outputs = T.build_outputs \cup NewOutputs(T, e)
      BY InsertFields DEF T2
    <3>2. \A row \in NewOutputs(T, e) : row.claim_id # key
      BY <1>3, <2>4, NewKeys
    <3> QED
      BY <3>1, <3>2
  <2>8. {row \in T2.log_claims : row.claim_id = key} = {row \in T.log_claims : row.claim_id = key}
    <3>1. T2.log_claims = T.log_claims \cup NewLogs(T, e)
      BY InsertFields DEF T2
    <3>2. \A row \in NewLogs(T, e) : row.claim_id # key
      BY <1>1, <2>4, NewKeys
    <3> QED
      BY <3>1, <3>2
  <2> QED
    BY <2>1, <2>3, <2>5, <2>6, <2>7, <2>8 DEF ClaimStored, key
<1> HIDE DEF T2
<1>9. StoredAt(T2, id, base, f)
  BY <1>5, <1>6, <1>7, <1>8 DEF StoredAt
<1> QED
  BY <1>5, <1>9 DEF Stored, T2

(* An evidence that is valid has one build claim, and outputs in it. *)
LEMMA OnlyBuild ==
    ASSUME NEW e, IsEvidence(e), Cardinality(BuildClaims(e)) = 1
    PROVE  \E i \in DOMAIN e.claims : BuildClaims(e) = {i} /\ BuildClaim(e) = e.claims[i]
<1>1. IsFiniteSet(BuildClaims(e))
  BY FS_Subset DEF BuildClaims, IsEvidence, IsList
<1>2. PICK i : BuildClaims(e) = {i}
  BY <1>1, FS_Singleton
<1>3. i \in DOMAIN e.claims
  BY <1>2 DEF BuildClaims
<1>4. BuildClaim(e) = e.claims[i]
  <2>1. i <= i
    BY <1>3, ListLength DEF IsEvidence
  <2>2. (CHOOSE j \in BuildClaims(e) : \A k \in BuildClaims(e) : j <= k) = i
    BY <1>2, <2>1
  <2> QED
    BY <2>2 DEF BuildClaim
<1> QED
  BY <1>2, <1>3, <1>4

LEMMA OneBuild ==
    ASSUME NEW e, IsEvidence(e), Valid(e)
    PROVE  \E i \in DOMAIN e.claims : /\ BuildClaims(e) = {i}
                                      /\ BuildClaim(e) = e.claims[i]
                                      /\ DOMAIN e.claims[i].outputs # {}
<1>1. PICK i \in DOMAIN e.claims : BuildClaims(e) = {i} /\ BuildClaim(e) = e.claims[i]
  BY OnlyBuild DEF Valid
<1>2. IsBuild(e.claims[i])
  BY <1>1 DEF BuildClaims
<1>3. DOMAIN e.claims[i].outputs # {}
  <2>1. e.claims[i].outputs # <<>>
    BY <1>2 DEF Valid, ValidClaim, ValidOutputs
  <2>2. IsList(e.claims[i].outputs)
    BY <1>1 DEF IsEvidence
  <2> DEFINE outputs == e.claims[i].outputs
  <2>3. outputs = [k \in DOMAIN outputs |-> outputs[k]]
    BY <2>2 DEF IsList
  <2> HIDE DEF outputs
  <2>4. DOMAIN outputs = {} => outputs = <<>>
    BY <2>3
  <2> QED
    BY <2>1, <2>4 DEF outputs
<1> QED
  BY <1>1, <1>3

LEMMA InsertWhole ==
    ASSUME NEW T, TablesOK(T), NEW ids, RowsBelongTo(T, ids),
           NEW e, IsEvidence(e), Valid(e)
    PROVE  RowsBelongTo(WithRowsOf(T, e), ids \cup {NewId(T)})
<1> DEFINE T2 == WithRowsOf(T, e)
           B == BuildClaims(e)
<1>1. PICK b \in DOMAIN e.claims : B = {b} /\ DOMAIN e.claims[b].outputs # {}
  BY OneBuild
<1>2. {row.id : row \in T2.evidences} = ids \cup {NewId(T)}
  <2>1. {row.id : row \in T.evidences} = ids
    BY DEF RowsBelongTo
  <2>2. T2.evidences = T.evidences \cup {EvidenceRow(NewId(T), e)}
    BY InsertFields
  <2>3. EvidenceRow(NewId(T), e).id = NewId(T)
    BY NewKeys
  <2> HIDE DEF T2
  <2> QED
    BY <2>1, <2>2, <2>3
<1>3. {row.evidence_id : row \in T2.claims} = ids \cup {NewId(T)}
  <2>1. {row.evidence_id : row \in T.claims} = ids
    BY DEF RowsBelongTo
  <2>2. T2.claims = T.claims \cup NewClaims(T, e)
    BY InsertFields
  <2>3. {row.evidence_id : row \in NewClaims(T, e)} = {NewId(T)}
    <3>1. ClaimRow(NewId(T), Base(T), e, b) \in NewClaims(T, e)
      BY DEF NewClaims
    <3>2. ClaimRow(NewId(T), Base(T), e, b).evidence_id = NewId(T)
      BY KeysOf
    <3>3. \A row \in NewClaims(T, e) : row.evidence_id = NewId(T)
      BY NewKeys
    <3> QED
      BY <3>1, <3>2, <3>3
  <2> HIDE DEF T2
  <2> QED
    BY <2>1, <2>2, <2>3
<1>4. {row.id : row \in T2.claims} = {row.claim_id : row \in T2.build_claims \cup T2.log_claims}
  <2>1. {row.id : row \in T.claims} = {row.claim_id : row \in T.build_claims \cup T.log_claims}
    BY DEF RowsBelongTo
  <2>2. /\ T2.claims = T.claims \cup NewClaims(T, e)
        /\ T2.build_claims = T.build_claims \cup NewBuilds(T, e)
        /\ T2.log_claims = T.log_claims \cup NewLogs(T, e)
    BY InsertFields
  <2>3. {row.id : row \in NewClaims(T, e)} = {row.claim_id : row \in NewBuilds(T, e) \cup NewLogs(T, e)}
    <3>1. ASSUME NEW row \in NewClaims(T, e)
          PROVE  \E other \in NewBuilds(T, e) \cup NewLogs(T, e) : other.claim_id = row.id
      <4>1. PICK i \in DOMAIN e.claims : row.id = Base(T) + i
        BY NewKeys
      <4>2. CASE i \in B
        BY <4>1, <4>2, KeysOf DEF NewBuilds
      <4>3. CASE i \notin B
        BY <4>1, <4>3, KeysOf DEF NewLogs
      <4> QED
        BY <4>2, <4>3
    <3>2. ASSUME NEW other \in NewBuilds(T, e) \cup NewLogs(T, e)
          PROVE  \E row \in NewClaims(T, e) : row.id = other.claim_id
      <4>1. PICK i \in DOMAIN e.claims : other.claim_id = Base(T) + i
        BY NewKeys DEF BuildClaims
      <4>2. ClaimRow(NewId(T), Base(T), e, i) \in NewClaims(T, e)
        BY DEF NewClaims
      <4> QED
        BY <4>1, <4>2, KeysOf
    <3> QED
      BY <3>1, <3>2
  <2> HIDE DEF T2
  <2>4. {row.id : row \in T2.claims} =
          {row.id : row \in T.claims} \cup {row.id : row \in NewClaims(T, e)}
    BY <2>2
  <2>5. {row.claim_id : row \in T2.build_claims \cup T2.log_claims} =
          {row.claim_id : row \in T.build_claims \cup T.log_claims}
            \cup {row.claim_id : row \in NewBuilds(T, e) \cup NewLogs(T, e)}
    BY <2>2
  <2> QED
    BY <2>1, <2>3, <2>4, <2>5
<1>5. {row.claim_id : row \in T2.build_outputs} = {row.claim_id : row \in T2.build_claims}
  <2>1. {row.claim_id : row \in T.build_outputs} = {row.claim_id : row \in T.build_claims}
    BY DEF RowsBelongTo
  <2>2. /\ T2.build_claims = T.build_claims \cup NewBuilds(T, e)
        /\ T2.build_outputs = T.build_outputs \cup NewOutputs(T, e)
    BY InsertFields
  <2>3. {row.claim_id : row \in NewOutputs(T, e)} = {row.claim_id : row \in NewBuilds(T, e)}
    <3>1. ASSUME NEW row \in NewOutputs(T, e)
          PROVE  \E other \in NewBuilds(T, e) : other.claim_id = row.claim_id
      <4>1. PICK i \in B : row.claim_id = Base(T) + i
        BY NewKeys
      <4>2. BuildClaimRow(Base(T), e, i) \in NewBuilds(T, e)
        BY DEF NewBuilds
      <4> QED
        BY <4>1, <4>2, KeysOf
    <3>2. ASSUME NEW other \in NewBuilds(T, e)
          PROVE  \E row \in NewOutputs(T, e) : row.claim_id = other.claim_id
      <4>1. PICK i \in B : other.claim_id = Base(T) + i
        BY NewKeys
      <4>2. PICK k \in DOMAIN e.claims[i].outputs : TRUE
        BY <1>1
      <4>3. BuildOutputRow(Base(T), e, i, k) \in NewOutputs(T, e)
        BY <4>1 DEF NewOutputs
      <4> QED
        BY <4>1, <4>3, KeysOf
    <3> QED
      BY <3>1, <3>2
  <2> HIDE DEF T2
  <2>4. {row.claim_id : row \in T2.build_outputs} =
          {row.claim_id : row \in T.build_outputs} \cup {row.claim_id : row \in NewOutputs(T, e)}
    BY <2>2
  <2>5. {row.claim_id : row \in T2.build_claims} =
          {row.claim_id : row \in T.build_claims} \cup {row.claim_id : row \in NewBuilds(T, e)}
    BY <2>2
  <2> QED
    BY <2>1, <2>3, <2>4, <2>5
<1> QED
  BY <1>2, <1>3, <1>4, <1>5 DEF RowsBelongTo

-----------------------------------------------------------------------------
(* The evidence that is composed. *)

LEMMA ListMade ==
    ASSUME NEW n \in Nat, NEW s, s = [i \in 1 .. n |-> s[i]]
    PROVE  IsList(s)
<1>1. DOMAIN s = 1 .. n
  OBVIOUS
<1>2. IsFiniteSet(1 .. n) /\ Cardinality(1 .. n) = n
  BY UpTo
<1> QED
  BY <1>1, <1>2 DEF IsList

LEMMA InfosAreListed ==
    ASSUME NEW outputs, IsFiniteSet(DOMAIN outputs), NEW entries,
           CollectOutputInfo(outputs, entries) # None
    PROVE  IsList(CollectOutputInfo(outputs, entries))
<1> DEFINE names == InOrder(outputs)
           n == Cardinality(DOMAIN outputs)
           infos == [i \in DOMAIN names |-> OutputInfo(names[i], outputs[names[i]], entries[outputs[names[i]]])]
<1>1. n \in Nat
  BY FS_CardinalityType
<1>2. DOMAIN names = 1 .. n
  BY DEF InOrder, SortedBy
<1>3. CollectOutputInfo(outputs, entries) = infos
  BY DEF CollectOutputInfo
<1>4. infos = [i \in 1 .. n |-> infos[i]]
  BY <1>2
<1> HIDE DEF infos, n
<1> QED
  BY <1>1, <1>3, <1>4, ListMade

LEMMA ComposedShape ==
    ASSUME NEW package, package = [repository |-> package.repository, name |-> package.name],
           NEW b, NEW source, NEW path, NEW infos, IsList(infos), NEW run, NEW requested
    PROVE  LET e == ComposeEvidence(package, b, source, path, infos, run, WithRequiredBuild(requested))
           IN  IsEvidence(e) /\ e.builder_id = b
<1> DEFINE kinds == WithRequiredBuild(requested)
           build == ComposeBuild(source, path, infos, run)
           claims == [i \in DOMAIN kinds |-> IF kinds[i] = "build" THEN build ELSE LogClaim(run)]
           e == ComposeEvidence(package, b, source, path, infos, run, kinds)
<1>1. PICK n \in Nat : DOMAIN kinds = 1 .. n
  <2>1. kinds = <<"build", "log">> \/ kinds = <<"build">>
    BY DEF WithRequiredBuild
  <2>2. DOMAIN <<"build", "log">> = 1 .. 2 /\ DOMAIN <<"build">> = 1 .. 1
    OBVIOUS
  <2> HIDE DEF kinds
  <2> QED
    BY <2>1, <2>2
<1>2. IsList(claims)
  <2>1. claims = [i \in 1 .. n |-> claims[i]]
    BY <1>1
  <2> HIDE DEF claims
  <2> QED
    BY <2>1, ListMade
<1>3. IsList(build.outputs)
  <2> DEFINE outputs == [i \in DOMAIN infos |-> BuildOutput(infos[i])]
  <2>1. PICK m \in Nat : DOMAIN infos = 1 .. m
    BY ListLength
  <2>2. outputs = [i \in 1 .. m |-> outputs[i]]
    BY <2>1
  <2>3. build.outputs = outputs
    BY DEF ComposeBuild
  <2> HIDE DEF outputs, build
  <2> QED
    BY <2>2, <2>3, ListMade
<1>4. build = [kind |-> "build", source |-> build.source,
               derivation_path |-> build.derivation_path, outputs |-> build.outputs,
               build_log_digest |-> build.build_log_digest, built_at |-> build.built_at]
  BY DEF ComposeBuild
<1>5. LogClaim(run).kind = "log"
  BY DEF LogClaim
<1> HIDE DEF kinds, build
<1>6. e = [schema_version |-> SchemaVersion, builder_id |-> b, package |-> package,
           claims |-> claims]
  BY DEF ComposeEvidence, build
<1> HIDE DEF claims, e
<1>7. /\ e.claims = claims /\ e.package = package /\ e.builder_id = b
      /\ e = [schema_version |-> e.schema_version, builder_id |-> e.builder_id,
              package |-> e.package, claims |-> e.claims]
  BY <1>6
<1>8. e = [schema_version |-> e.schema_version, builder_id |-> e.builder_id,
           package |-> [repository |-> e.package.repository, name |-> e.package.name],
           claims |-> e.claims]
  BY <1>7
<1>9. \A i \in BuildClaims(e) : e.claims[i] = build
  BY <1>5, <1>7 DEF BuildClaims, IsBuild, claims
<1>10. IsEvidence(e)
  BY <1>2, <1>3, <1>4, <1>7, <1>8, <1>9 DEF IsEvidence
<1> QED
  BY <1>7, <1>10 DEF e, kinds

-----------------------------------------------------------------------------
(* Steps of the builder. *)

LEMMA BuilderStep ==
    ASSUME PInv, UNCHANGED <<tables, commitments>>, pc' # "reveal", WorkOK'
    PROVE  PInv'
<1>1. TablesOK(tables)' /\ RowsWhole'
  BY ZenonT(60) DEF PInv, TablesOK, RowsWhole, EvidenceIds, RowsBelongTo
<1>2. CommitmentsOK'
  BY DEF PInv, CommitmentsOK
<1> QED
  BY <1>1, <1>2 DEF PInv

LEMMA FailedWork ==
    ASSUME WorkOK, pc' = "failed", UNCHANGED work
    PROVE  WorkOK'
BY DEF WorkOK, Stages

LEMMA AcceptCommandKeeps ==
    ASSUME PInv, AcceptCommand
    PROVE  PInv'
<1>1. PICK command \in Commands, b \in BuilderIds :
        LET package == ParseReference(command.package_ref) IN
        IF package = None \/ b = Blank
        THEN pc' = "failed" /\ UNCHANGED work
        ELSE /\ pc' = "source"
             /\ work' = [work EXCEPT !.command = command, !.builder_id = b, !.package = package]
  BY DEF AcceptCommand
<1> DEFINE package == ParseReference(command.package_ref)
<1>2. CASE pc' = "failed" /\ UNCHANGED work
  BY <1>2, FailedWork, BuilderStep DEF PInv, AcceptCommand
<1>3. CASE /\ package # None /\ pc' = "source"
           /\ work' = [work EXCEPT !.command = command, !.builder_id = b, !.package = package]
  <2>1. DOMAIN work = DOMAIN NoWork
    BY DEF PInv, WorkOK
  <2>2. DOMAIN work' = DOMAIN NoWork /\ work'.package = package
    BY <1>3, <2>1 DEF NoWork
  <2>3. package = [repository |-> package.repository, name |-> package.name]
    BY <1>3 DEF ParseReference
  <2> HIDE DEF package
  <2>4. WorkOK'
    BY <1>3, <2>2, <2>3 DEF WorkOK, Stages
  <2> QED
    BY <1>3, <2>4, BuilderStep DEF AcceptCommand
<1> QED
  BY <1>1, <1>2, <1>3

(* A step that yields a result: what has to be known of it. *)
LEMMA YieldsKeeps ==
    ASSUME PInv, NEW stage, NEW field \in DOMAIN NoWork, NEW result, NEW next,
           Yields(stage, field, result, next),
           stage \notin {"command", "failed"},
           next \in Stages \ {"command", "reveal", "failed"},
           field \notin {"package", "builder_id"},
           result # None =>
             /\ next = "info" => field = "run" /\ IsFiniteSet(DOMAIN result.outputs)
             /\ next = "compose" => field = "infos" /\ IsList(result)
             /\ next = "commit" => /\ field = "evidence" /\ IsEvidence(result)
                                   /\ result.builder_id = work.builder_id
    PROVE  PInv'
<1>1. CASE result = None
  BY <1>1, FailedWork, BuilderStep DEF PInv, Yields
<1>2. CASE result # None
  <2>1. /\ pc = stage /\ pc' = next /\ work' = [work EXCEPT ![field] = result]
        /\ UNCHANGED <<tables, commitments>>
    BY <1>2 DEF Yields
  <2>2. /\ DOMAIN work = DOMAIN NoWork
        /\ work.package = [repository |-> work.package.repository, name |-> work.package.name]
    BY <2>1 DEF PInv, WorkOK
  <2>3. /\ DOMAIN work' = DOMAIN NoWork /\ work'[field] = result
        /\ work'.package = work.package /\ work'.builder_id = work.builder_id
    <3>1. \A f \in DOMAIN work : work'[f] = IF f = field THEN result ELSE work[f]
      BY <2>1, <2>2
    <3>2. "package" \in DOMAIN NoWork /\ "builder_id" \in DOMAIN NoWork
      BY DEF NoWork
    <3> QED
      BY <2>1, <2>2, <3>1, <3>2
  <2>4. pc' \in Stages /\ pc' # "reveal" /\ pc' # "command"
    BY <2>1
  <2>5. /\ pc' = "info" => IsFiniteSet(DOMAIN work'.run.outputs)
        /\ pc' = "compose" => IsList(work'.infos)
        /\ pc' = "commit" => IsEvidence(work'.evidence) /\ work'.evidence.builder_id = work'.builder_id
    BY <1>2, <2>1, <2>3
  <2>6. WorkOK'
    BY <2>2, <2>3, <2>4, <2>5 DEF WorkOK
  <2> QED
    BY <2>1, <2>4, <2>6, BuilderStep
<1> QED
  BY <1>1, <1>2

LEMMA ResultsAreFinite ==
    ASSUME NEW results \in BuildResults, NEW log, NEW started, NEW finished,
           BuildRun(results, log, started, finished) # None
    PROVE  IsFiniteSet(DOMAIN BuildRun(results, log, started, finished).outputs)
<1>1. ParseBuildOutputs(results) # None
  BY DEF BuildRun
<1>2. Len(results) = 1 /\ ParseBuildOutputs(results) = results[1]
  BY <1>1 DEF ParseBuildOutputs
<1>3. BuildRun(results, log, started, finished).outputs = results[1]
  BY <1>1, <1>2 DEF BuildRun
<1> QED
  BY <1>2, <1>3, AnswersAssumption

LEMMA BuilderKeeps ==
    ASSUME PInv, \/ ResolveTheSource \/ FindDerivation \/ InitialBuild \/ Rebuild
                 \/ QueryOutputs \/ NixFails \/ Compose \/ ScoreFacts
    PROVE  PInv'
<1> USE DEF Stages
<1>1. CASE ResolveTheSource
  <2>1. PICK metadata \in Metadata :
          Yields("source", "source", ResolveSource(work.package.repository, metadata), "derivation")
    BY <1>1 DEF ResolveTheSource
  <2> QED
    BY <2>1, YieldsKeeps DEF NoWork
<1>2. CASE FindDerivation
  <2>1. PICK entries \in DerivationSets :
          Yields("derivation", "derivation_path", TakeOnlyEntry(entries), "initial")
    BY <1>2 DEF FindDerivation
  <2> QED
    BY <2>1, YieldsKeeps DEF NoWork
<1>3. CASE InitialBuild
  <2>1. /\ pc = "initial" /\ pc' \in {"failed", "rebuild"}
        /\ UNCHANGED <<work, tables, commitments>>
    BY <1>3 DEF InitialBuild
  <2>2. WorkOK'
    BY <2>1 DEF PInv, WorkOK
  <2> QED
    BY <2>1, <2>2, BuilderStep
<1>4. CASE Rebuild
  <2>1. PICK results \in BuildResults, log \in Logs, started \in Moments, finished \in Moments :
          Yields("rebuild", "run", BuildRun(results, log, started, finished), "info")
    BY <1>4 DEF Rebuild
  <2>2. BuildRun(results, log, started, finished) # None =>
          IsFiniteSet(DOMAIN BuildRun(results, log, started, finished).outputs)
    BY ResultsAreFinite
  <2> QED
    BY <2>1, <2>2, YieldsKeeps DEF NoWork
<1>5. CASE QueryOutputs
  <2>1. PICK entries \in PathInfos :
          Yields("info", "infos", CollectOutputInfo(work.run.outputs, entries), "compose")
    BY <1>5 DEF QueryOutputs
  <2>2. IsFiniteSet(DOMAIN work.run.outputs)
    BY <2>1 DEF PInv, WorkOK, Yields
  <2>3. CollectOutputInfo(work.run.outputs, entries) # None =>
          IsList(CollectOutputInfo(work.run.outputs, entries))
    BY <2>2, InfosAreListed
  <2> QED
    BY <2>1, <2>3, YieldsKeeps DEF NoWork
<1>6. CASE NixFails
  BY <1>6, FailedWork, BuilderStep DEF PInv, NixFails
<1>7. CASE Compose
  <2> DEFINE e == ComposeEvidence(work.package, work.builder_id, work.source,
                                  work.derivation_path, work.infos, work.run,
                                  WithRequiredBuild(work.command.claims))
  <2>1. Yields("compose", "evidence", e, "commit")
    BY <1>7 DEF Compose
  <2>2. /\ work.package = [repository |-> work.package.repository, name |-> work.package.name]
        /\ IsList(work.infos)
    BY <2>1 DEF PInv, WorkOK, Yields
  <2>3. IsEvidence(e) /\ e.builder_id = work.builder_id
    BY <2>2, ComposedShape
  <2> HIDE DEF e
  <2> QED
    BY <2>1, <2>3, YieldsKeeps DEF NoWork
<1>8. CASE ScoreFacts
  BY <1>8, YieldsKeeps DEF NoWork, ScoreFacts
<1> QED
  BY <1>1, <1>2, <1>3, <1>4, <1>5, <1>6, <1>7, <1>8

-----------------------------------------------------------------------------
(* Steps of the registry. *)

LEMMA EntriesOfSeq ==
    ASSUME NEW S, NEW s \in Seq(S)
    PROVE  s \in Seq({s[i] : i \in DOMAIN s})
<1> DEFINE R == {s[i] : i \in DOMAIN s}
<1>1. Len(s) \in Nat /\ DOMAIN s = 1 .. Len(s) /\ s = [i \in 1 .. Len(s) |-> s[i]]
  OBVIOUS
<1>2. \A i \in 1 .. Len(s) : s[i] \in R
  BY <1>1
<1> HIDE DEF R
<1>3. s \in [1 .. Len(s) -> R]
  BY <1>1, <1>2
<1>4. s \in Seq(R)
  BY <1>1, <1>3
<1> QED
  BY <1>4 DEF R

LEMMA EntryAppended ==
    ASSUME NEW S, NEW s \in Seq(S), NEW x
    PROVE  /\ Append(s, x) \in Seq({Append(s, x)[i] : i \in DOMAIN Append(s, x)})
           /\ DOMAIN Append(s, x) = DOMAIN s \cup {Len(s) + 1}
           /\ Len(s) + 1 \notin DOMAIN s
           /\ \A i \in DOMAIN s : Append(s, x)[i] = s[i]
           /\ Append(s, x)[Len(s) + 1] = x
<1> DEFINE S2 == S \cup {x}
<1>1. s \in Seq(S2) /\ x \in S2
  OBVIOUS
<1> HIDE DEF S2
<1>2. Append(s, x) \in Seq(S2)
  BY <1>1
<1>3. /\ DOMAIN Append(s, x) = DOMAIN s \cup {Len(s) + 1}
      /\ Len(s) + 1 \notin DOMAIN s
      /\ \A i \in DOMAIN s : Append(s, x)[i] = s[i]
      /\ Append(s, x)[Len(s) + 1] = x
  BY <1>1
<1> QED
  BY <1>2, <1>3, EntriesOfSeq

LEMMA EntryReplaced ==
    ASSUME NEW S, NEW s \in Seq(S), NEW i \in DOMAIN s, NEW x
    PROVE  [s EXCEPT ![i] = x] \in Seq(S \cup {x})
<1> DEFINE S2 == S \cup {x}
           t == [s EXCEPT ![i] = x]
<1>1. /\ Len(s) \in Nat /\ DOMAIN s = 1 .. Len(s) /\ s = [j \in 1 .. Len(s) |-> s[j]]
      /\ \A j \in 1 .. Len(s) : s[j] \in S
  OBVIOUS
<1>2. t = [j \in 1 .. Len(s) |-> t[j]] /\ \A j \in 1 .. Len(s) : t[j] \in S2
  BY <1>1
<1> HIDE DEF S2, t
<1>3. t \in [1 .. Len(s) -> S2]
  BY <1>2
<1>4. t \in Seq(S2)
  BY <1>1, <1>3
<1> QED
  BY <1>4 DEF t, S2

(* What becomes of the tables at a reveal. *)
Added(T, T2, e, id) ==
    \/ T2 = T /\ id = None
    \/ Valid(e) /\ T2 = WithRowsOf(T, e) /\ id = NewId(T)

LEMMA RevealAdds ==
    ASSUME NEW e, NEW locations, Stores(e, locations, Verdict(e, locations))
    PROVE  Added(tables, tables', e, Revealed(Verdict(e, locations)))
<1> DEFINE verdict == Verdict(e, locations)
<1>1. CASE verdict = "created"
  <2>1. Valid(e) /\ Storable(e)
    BY <1>1 DEF Verdict
  <2>2. tables' = WithRowsOf(tables, e) /\ Revealed(verdict) = NewId(tables)
    BY <1>1, <2>1 DEF Stores, InsertEvidence, Revealed, NewId
  <2> QED
    BY <2>1, <2>2 DEF Added
<1>2. CASE verdict = "internal"
  <2>1. ~Storable(e)
    BY <1>2 DEF Verdict
  <2>2. tables' = tables /\ Revealed(verdict) = None
    BY <1>2, <2>1 DEF Stores, InsertEvidence, Revealed
  <2> QED
    BY <2>2 DEF Added
<1>3. CASE verdict = "bad_request"
  BY <1>3 DEF Stores, Revealed, Added
<1>4. verdict \in {"created", "internal", "bad_request"}
  BY DEF Verdict
<1> QED
  BY <1>1, <1>2, <1>3, <1>4

LEMMA AddedKeeps ==
    ASSUME NEW T, NEW T2, NEW e, IsEvidence(e), NEW id, Added(T, T2, e, id), TablesOK(T)
    PROVE  /\ TablesOK(T2)
           /\ \A c : CommitmentOK(T, c) => CommitmentOK(T2, c)
           /\ CommitmentOK(T2, Commitment(e, id))
           /\ \A ids : RowsBelongTo(T, ids) => RowsBelongTo(T2, ids \cup ({id} \ {None}))
<1>1. CASE T2 = T /\ id = None
  <2>1. Commitment(e, None) = [builder_id |-> e.builder_id, digest |-> e, evidence_id |-> None]
    BY DEF Commitment
  <2>2. CommitmentOK(T2, Commitment(e, id))
    BY <1>1, <2>1 DEF CommitmentOK
  <2>3. \A ids : ids \cup ({id} \ {None}) = ids
    BY <1>1
  <2> QED
    BY <1>1, <2>2, <2>3
<1>2. CASE Valid(e) /\ T2 = WithRowsOf(T, e) /\ id = NewId(T)
  <2>1. TablesOK(T2)
    BY <1>2, InsertTablesOK
  <2>2. ASSUME NEW c, CommitmentOK(T, c) PROVE CommitmentOK(T2, c)
    BY <1>2, <2>2, InsertKeeps DEF CommitmentOK
  <2>3. CommitmentOK(T2, Commitment(e, id))
    <3>1. Stored(T2, id, e)
      BY <1>2, InsertNew
    <3>2. /\ Commitment(e, id).digest = e /\ Commitment(e, id).evidence_id = id
      BY DEF Commitment
    <3> QED
      BY <1>2, <3>1, <3>2 DEF CommitmentOK
  <2>4. id # None
    <3>1. NewId(T) \in Nat
      BY FS_CardinalityType DEF TablesOK, NewId
    <3> QED
      BY <1>2, <3>1, AnswersAssumption
  <2>5. ASSUME NEW ids, RowsBelongTo(T, ids) PROVE RowsBelongTo(T2, ids \cup ({id} \ {None}))
    <3>1. {id} \ {None} = {NewId(T)}
      BY <1>2, <2>4
    <3> QED
      BY <1>2, <2>5, <3>1, InsertWhole
  <2> QED
    BY <2>1, <2>2, <2>3, <2>5
<1> QED
  BY <1>1, <1>2 DEF Added

(* Another commitment is added, with or without its evidence. *)
LEMMA CommitmentAdded ==
    ASSUME PInv, NEW e, IsEvidence(e), NEW id, Added(tables, tables', e, id),
           commitments' = Append(commitments, Commitment(e, id))
    PROVE  /\ TablesOK(tables)' /\ RowsWhole'
           /\ EvidenceIds' = EvidenceIds \cup ({id} \ {None})
           /\ commitments' \in Seq({commitments'[i] : i \in DOMAIN commitments'})
           /\ \A i \in DOMAIN commitments' : CommitmentOK(tables', commitments'[i])
           /\ DOMAIN commitments \subseteq DOMAIN commitments'
           /\ \A i \in DOMAIN commitments' :
                \/ i \in DOMAIN commitments /\ commitments'[i] = commitments[i]
                \/ i \notin DOMAIN commitments /\ commitments'[i] = Commitment(e, id)
<1> DEFINE k == Len(commitments) + 1
<1>1. TablesOK(tables) /\ RowsBelongTo(tables, EvidenceIds) /\ CommitmentsOK
  BY DEF PInv, RowsWhole
<1>2. commitments \in Seq({commitments[i] : i \in DOMAIN commitments})
  BY <1>1 DEF CommitmentsOK
<1>3. /\ commitments' \in Seq({commitments'[i] : i \in DOMAIN commitments'})
      /\ DOMAIN commitments' = DOMAIN commitments \cup {k}
      /\ k \notin DOMAIN commitments
      /\ \A i \in DOMAIN commitments : commitments'[i] = commitments[i]
      /\ commitments'[k] = Commitment(e, id)
  <2> DEFINE S == {commitments[i] : i \in DOMAIN commitments}
  <2>1. commitments \in Seq(S)
    BY <1>2
  <2> HIDE DEF S
  <2> QED
    BY <2>1, EntryAppended
<1> HIDE DEF k
<1>4. /\ TablesOK(tables')
      /\ \A c : CommitmentOK(tables, c) => CommitmentOK(tables', c)
      /\ CommitmentOK(tables', Commitment(e, id))
      /\ RowsBelongTo(tables', EvidenceIds \cup ({id} \ {None}))
  BY <1>1, AddedKeeps
<1>5. EvidenceIds' = EvidenceIds \cup ({id} \ {None})
  <2>1. Commitment(e, id).evidence_id = id
    BY DEF Commitment
  <2>2. {commitments'[i].evidence_id : i \in DOMAIN commitments'} =
          {commitments[i].evidence_id : i \in DOMAIN commitments} \cup {id}
    BY <1>3, <2>1
  <2> QED
    BY <2>2 DEF EvidenceIds
<1>6. RowsWhole'
  BY <1>4, <1>5 DEF RowsWhole
<1>7. \A i \in DOMAIN commitments' : CommitmentOK(tables', commitments'[i])
  BY <1>1, <1>3, <1>4 DEF CommitmentsOK
<1>8. TablesOK(tables)'
  BY <1>4 DEF TablesOK
<1>9. ASSUME NEW i \in DOMAIN commitments'
      PROVE  \/ i \in DOMAIN commitments /\ commitments'[i] = commitments[i]
             \/ i \notin DOMAIN commitments /\ commitments'[i] = Commitment(e, id)
  BY <1>3
<1>10. commitments' \in Seq({commitments'[i] : i \in DOMAIN commitments'})
  BY <1>3
<1>11. DOMAIN commitments \subseteq DOMAIN commitments'
  BY <1>3
<1> QED
  BY <1>5, <1>6, <1>7, <1>8, <1>9, <1>10, <1>11

LEMMA CommitKeeps ==
    ASSUME PInv, CommitEvidence
    PROVE  PInv'
<1>1. /\ pc = "commit" /\ work' = work /\ tables' = tables
      /\ IsEvidence(work.evidence) /\ work.evidence.builder_id = work.builder_id
  BY DEF CommitEvidence, PInv, WorkOK
<1>2. CASE pc' = "failed" /\ UNCHANGED commitments
  BY <1>1, <1>2, FailedWork, BuilderStep DEF PInv
<1>3. CASE /\ CommittedBy(work.builder_id) = {} /\ pc' = "reveal"
           /\ commitments' = Append(commitments, Commitment(work.evidence, None))
  <2>1. Added(tables, tables', work.evidence, None)
    BY <1>1 DEF Added
  <2>2. /\ TablesOK(tables)' /\ RowsWhole'
        /\ commitments' \in Seq({commitments'[i] : i \in DOMAIN commitments'})
        /\ \A i \in DOMAIN commitments' : CommitmentOK(tables', commitments'[i])
        /\ \A i \in DOMAIN commitments' :
             \/ i \in DOMAIN commitments /\ commitments'[i] = commitments[i]
             \/ i \notin DOMAIN commitments /\ commitments'[i] = Commitment(work.evidence, None)
    BY <1>1, <1>3, <2>1, CommitmentAdded
  <2>3. \A i \in CommittedBy(work.builder_id)' : commitments'[i] = Commitment(work.evidence, None)
    BY <1>1, <1>3, <2>2 DEF CommittedBy
  <2>4. CommittedBy(work.builder_id)' # {}
    <3>1. Commitment(work.evidence, None).builder_id = work.builder_id
      BY <1>1 DEF Commitment
    <3>2. \E i \in DOMAIN commitments' : commitments'[i] = Commitment(work.evidence, None)
      <4> DEFINE S == {commitments[i] : i \in DOMAIN commitments}
      <4>1. commitments \in Seq(S)
        BY DEF PInv, CommitmentsOK
      <4> HIDE DEF S
      <4> QED
        BY <1>3, <4>1, EntryAppended
    <3> QED
      BY <1>1, <3>1, <3>2 DEF CommittedBy
  <2>6. CommitmentsOK'
    BY <1>1, <2>2, <2>3, <2>4 DEF CommitmentsOK
  <2>5. WorkOK'
    BY <1>1, <1>3 DEF PInv, WorkOK, Stages
  <2> QED
    BY <2>2, <2>5, <2>6 DEF PInv
<1> QED
  BY <1>2, <1>3 DEF CommitEvidence

LEMMA OthersKeep ==
    ASSUME PInv, OthersReveal
    PROVE  PInv'
<1>1. PICK e \in OtherEvidences :
        LET locations == CHOOSE list \in LocationLists : AllNormalize(list)
            verdict == Verdict(e, locations) IN
        /\ CommittedBy(e.builder_id) = {}
        /\ Stores(e, locations, verdict)
        /\ commitments' = Append(commitments, Commitment(e, Revealed(verdict)))
        /\ UNCHANGED <<pc, work, reply>>
  BY DEF OthersReveal
<1> DEFINE locations == CHOOSE list \in LocationLists : AllNormalize(list)
           id == Revealed(Verdict(e, locations))
<1>2. IsEvidence(e)
  BY AnswersAssumption
<1>3. Added(tables, tables', e, id)
  BY <1>1, RevealAdds
<1> HIDE DEF locations, id
<1>4. /\ CommittedBy(e.builder_id) = {} /\ UNCHANGED <<pc, work>>
      /\ commitments' = Append(commitments, Commitment(e, id))
  BY <1>1 DEF locations, id
<1>5. /\ TablesOK(tables)' /\ RowsWhole'
      /\ commitments' \in Seq({commitments'[i] : i \in DOMAIN commitments'})
      /\ \A i \in DOMAIN commitments' : CommitmentOK(tables', commitments'[i])
      /\ \A i \in DOMAIN commitments' :
           \/ i \in DOMAIN commitments /\ commitments'[i] = commitments[i]
           \/ i \notin DOMAIN commitments /\ commitments'[i] = Commitment(e, id)
  BY <1>2, <1>3, <1>4, CommitmentAdded
<1>6. WorkOK'
  BY <1>4 DEF PInv, WorkOK
<1>7. ASSUME pc' = "reveal"
      PROVE  /\ CommittedBy(work.builder_id)' # {}
             /\ \A i \in CommittedBy(work.builder_id)' :
                  commitments'[i] = Commitment(work'.evidence, None)
  <2>1. /\ CommittedBy(work.builder_id) # {}
        /\ \A i \in CommittedBy(work.builder_id) : commitments[i] = Commitment(work.evidence, None)
    BY <1>4, <1>7 DEF PInv, CommitmentsOK
  <2>2. Commitment(e, id).builder_id # work.builder_id
    BY <1>4, <2>1 DEF Commitment
  <2>3. DOMAIN commitments \subseteq DOMAIN commitments'
    <3> DEFINE S == {commitments[i] : i \in DOMAIN commitments}
    <3>1. commitments \in Seq(S)
      BY DEF PInv, CommitmentsOK
    <3> HIDE DEF S
    <3> QED
      BY <1>4, <3>1, EntryAppended
  <2>4. CommittedBy(work.builder_id)' = CommittedBy(work.builder_id)
    BY <1>4, <1>5, <2>2, <2>3 DEF CommittedBy
  <2>5. \A i \in CommittedBy(work.builder_id) : commitments'[i] = commitments[i]
    BY <1>5, <2>3 DEF CommittedBy
  <2> QED
    BY <1>4, <2>1, <2>4, <2>5
<1>8. CommitmentsOK'
  BY <1>5, <1>7 DEF CommitmentsOK
<1> QED
  BY <1>5, <1>6, <1>8 DEF PInv

(* A commitment of the builder gets its evidence. *)
LEMMA CommitmentRevealed ==
    ASSUME PInv, pc = "reveal", NEW k \in CommittedBy(work.builder_id), NEW id,
           commitments' = [commitments EXCEPT ![k].evidence_id = id]
    PROVE  /\ commitments' = [commitments EXCEPT ![k] = Commitment(work.evidence, id)]
           /\ k \in DOMAIN commitments /\ DOMAIN commitments' = DOMAIN commitments
           /\ commitments'[k] = Commitment(work.evidence, id)
           /\ \A i \in DOMAIN commitments \ {k} : commitments'[i] = commitments[i]
           /\ EvidenceIds' = EvidenceIds \cup ({id} \ {None})
<1> DEFINE e == work.evidence
<1>1. commitments[k] = Commitment(e, None) /\ k \in DOMAIN commitments
  BY DEF PInv, CommitmentsOK, CommittedBy
<1> HIDE DEF e
<1>2. commitments' = [commitments EXCEPT ![k] = Commitment(e, id)]
  <2>1. [Commitment(e, None) EXCEPT !.evidence_id = id] = Commitment(e, id)
    BY DEF Commitment
  <2>2. commitments' = [commitments EXCEPT ![k] = [commitments[k] EXCEPT !.evidence_id = id]]
    OBVIOUS
  <2> QED
    BY <1>1, <2>1, <2>2
<1>3. /\ DOMAIN commitments' = DOMAIN commitments /\ commitments'[k] = Commitment(e, id)
      /\ \A i \in DOMAIN commitments \ {k} : commitments'[i] = commitments[i]
  BY <1>1, <1>2
<1>4. EvidenceIds' = EvidenceIds \cup ({id} \ {None})
  <2>1. Commitment(e, id).evidence_id = id /\ commitments[k].evidence_id = None
    BY <1>1 DEF Commitment
  <2> DEFINE Old == {commitments[i].evidence_id : i \in DOMAIN commitments}
             New == {commitments'[i].evidence_id : i \in DOMAIN commitments'}
             Rest == {commitments[i].evidence_id : i \in DOMAIN commitments \ {k}}
  <2>2. Old = Rest \cup {None}
    BY <1>1, <2>1
  <2>3. New = Rest \cup {id}
    BY <1>1, <1>3, <2>1
  <2>4. New \ {None} = (Old \ {None}) \cup ({id} \ {None})
    <3> HIDE DEF Old, New, Rest
    <3> QED
      BY <2>2, <2>3
  <2> QED
    BY <2>4 DEF EvidenceIds
<1> QED
  BY <1>1, <1>2, <1>3, <1>4 DEF e

LEMMA RevealKeeps ==
    ASSUME PInv, RevealEvidence
    PROVE  PInv'
<1>1. PICK locations \in LocationLists, k \in CommittedBy(work.builder_id) :
        LET verdict == Verdict(work.evidence, locations) IN
        /\ Stores(work.evidence, locations, verdict)
        /\ commitments' = [commitments EXCEPT ![k].evidence_id = Revealed(verdict)]
        /\ pc' = IF verdict = "created" THEN "facts" ELSE "failed"
  BY DEF RevealEvidence
<1> DEFINE e == work.evidence
           id == Revealed(Verdict(e, locations))
<1>2. pc = "reveal" /\ work' = work /\ IsEvidence(e)
  BY DEF RevealEvidence, PInv, WorkOK
<1>3. Added(tables, tables', e, id)
  BY <1>1, RevealAdds
<1>4. commitments' = [commitments EXCEPT ![k].evidence_id = id] /\ pc' \in {"facts", "failed"}
  BY <1>1
<1> HIDE DEF id
<1>5. /\ commitments' = [commitments EXCEPT ![k] = Commitment(e, id)]
      /\ k \in DOMAIN commitments /\ DOMAIN commitments' = DOMAIN commitments
      /\ commitments'[k] = Commitment(e, id)
      /\ \A i \in DOMAIN commitments \ {k} : commitments'[i] = commitments[i]
      /\ EvidenceIds' = EvidenceIds \cup ({id} \ {None})
  BY <1>2, <1>4, CommitmentRevealed
<1> HIDE DEF e
<1>6. TablesOK(tables) /\ RowsBelongTo(tables, EvidenceIds) /\ CommitmentsOK
  BY DEF PInv, RowsWhole
<1>7. commitments' \in Seq({commitments'[i] : i \in DOMAIN commitments'})
  <2> DEFINE S == {commitments[i] : i \in DOMAIN commitments}
  <2>1. commitments \in Seq(S)
    BY <1>6 DEF CommitmentsOK
  <2> HIDE DEF S
  <2>2. commitments' \in Seq(S \cup {Commitment(e, id)})
    BY <1>5, <2>1, EntryReplaced
  <2> QED
    BY <2>2, EntriesOfSeq
<1>8. /\ TablesOK(tables')
      /\ \A c : CommitmentOK(tables, c) => CommitmentOK(tables', c)
      /\ CommitmentOK(tables', Commitment(e, id))
      /\ RowsBelongTo(tables', EvidenceIds \cup ({id} \ {None}))
  BY <1>2, <1>3, <1>6, AddedKeeps
<1>9. TablesOK(tables)' /\ RowsWhole'
  BY <1>5, <1>8 DEF TablesOK, RowsWhole
<1>10. CommitmentsOK'
  <2>1. \A i \in DOMAIN commitments' : CommitmentOK(tables', commitments'[i])
    BY <1>5, <1>6, <1>8 DEF CommitmentsOK
  <2> QED
    BY <1>4, <1>7, <2>1 DEF CommitmentsOK
<1>11. WorkOK'
  BY <1>2, <1>4 DEF PInv, WorkOK, Stages
<1> QED
  BY <1>9, <1>10, <1>11 DEF PInv

-----------------------------------------------------------------------------
(* The theorems. *)

LEMMA InitialPipeline ==
    ASSUME PipelineInit
    PROVE  PInv
<1>1. IsFiniteSet({}) /\ Cardinality({}) = 0
  BY FS_EmptySet
<1>2. tables = [evidences |-> {}, claims |-> {}, build_claims |-> {}, build_outputs |-> {},
                log_claims |-> {}] /\ commitments = <<>> /\ pc = "command" /\ work = NoWork
  BY DEF PipelineInit, NoRows
<1>3. TablesOK(tables)
  BY <1>1, <1>2 DEF TablesOK
<1>4. EvidenceIds = {}
  BY <1>2 DEF EvidenceIds
<1>5. RowsWhole
  BY <1>2, <1>4 DEF RowsWhole, RowsBelongTo
<1>6. WorkOK
  BY <1>2 DEF WorkOK, Stages
<1>7. commitments \in Seq({commitments[i] : i \in DOMAIN commitments})
  BY <1>2
<1>8. CommitmentsOK
  BY <1>2, <1>7 DEF CommitmentsOK
<1> QED
  BY <1>3, <1>5, <1>6, <1>8 DEF PInv

LEMMA PipelineStep ==
    ASSUME PInv, [PipelineNext]_pipeline
    PROVE  PInv'
<1>1. CASE UNCHANGED pipeline
  BY <1>1, ZenonT(60) DEF pipeline, PInv, TablesOK, RowsWhole, EvidenceIds, RowsBelongTo, WorkOK,
              CommitmentsOK, CommittedBy
<1>2. CASE AcceptCommand
  BY <1>2, AcceptCommandKeeps
<1>3. CASE \/ ResolveTheSource \/ FindDerivation \/ InitialBuild \/ Rebuild
           \/ QueryOutputs \/ NixFails \/ Compose \/ ScoreFacts
  BY <1>3, BuilderKeeps
<1>4. CASE CommitEvidence
  BY <1>4, CommitKeeps
<1>5. CASE RevealEvidence
  BY <1>5, RevealKeeps
<1>6. CASE OthersReveal
  BY <1>6, OthersKeep
<1> QED
  BY <1>1, <1>2, <1>3, <1>4, <1>5, <1>6 DEF PipelineNext

(* The inductive invariant of a build. *)
THEOREM PipelineInvariance == PipelineSpec => []PInv
<1>1. PipelineInit => PInv
  BY InitialPipeline
<1>2. PInv /\ [PipelineNext]_pipeline => PInv'
  BY PipelineStep
<1> QED
  BY <1>1, <1>2, PTL DEF PipelineSpec

(* list and list_round. *)

LEMMA ContainsMember ==
    ASSUME NEW n \in Nat, NEW s, DOMAIN s = 1 .. n, s = [i \in 1 .. n |-> s[i]], NEW x
    PROVE  Contains(s, x) <=> \E i \in 1 .. n : s[i] = x
<1> DEFINE S == {s[i] : i \in 1 .. n}
<1>1. \A i \in 1 .. n : s[i] \in S
  OBVIOUS
<1> HIDE DEF S
<1>2. s \in [1 .. n -> S]
  BY <1>1
<1>3. s \in Seq(S)
  BY <1>2
<1>4. 1 .. Len(s) = 1 .. n
  BY <1>3
<1> QED
  BY <1>4 DEF Contains

LEMMA HydrateAllMembers ==
    ASSUME NEW T, NEW ids \in SUBSET Nat, IsFiniteSet(ids)
    PROVE  LET facts == HydrateAll(T, ids) IN
           /\ \A i \in DOMAIN facts : \E id \in ids : facts[i] = Hydrate(T, id)
           /\ \A x : Contains(facts, x) <=> \E id \in ids : Hydrate(T, id) = x
<1> DEFINE order == SortedBy(ids, LAMBDA id : id)
           n == Cardinality(ids)
           facts == HydrateAll(T, ids)
<1>1. /\ n \in Nat /\ DOMAIN order = 1 .. n
      /\ \A i \in 1 .. n : order[i] \in ids
      /\ \A id \in ids : \E i \in 1 .. n : order[i] = id
  BY SortedMembers, FS_CardinalityType
<1>2. facts = [i \in DOMAIN order |-> Hydrate(T, order[i])]
  BY DEF HydrateAll
<1> HIDE DEF order, facts, n
<1>3. DOMAIN facts = 1 .. n /\ \A i \in 1 .. n : facts[i] = Hydrate(T, order[i])
  BY <1>1, <1>2
<1>4. facts = [i \in 1 .. n |-> facts[i]]
  BY <1>1, <1>2
<1>5. \A x : Contains(facts, x) <=> \E i \in 1 .. n : facts[i] = x
  BY <1>1, <1>3, <1>4, ContainsMember
<1>6. ASSUME NEW x
      PROVE  Contains(facts, x) <=> \E id \in ids : Hydrate(T, id) = x
  <2>1. ASSUME NEW i \in 1 .. n, facts[i] = x
        PROVE  \E id \in ids : Hydrate(T, id) = x
    BY <1>1, <1>3, <2>1
  <2>2. ASSUME NEW id \in ids, Hydrate(T, id) = x
        PROVE  \E i \in 1 .. n : facts[i] = x
    BY <1>1, <1>3, <2>2
  <2> QED
    BY <1>5, <2>1, <2>2
<1>7. \A i \in DOMAIN facts : \E id \in ids : facts[i] = Hydrate(T, id)
  BY <1>1, <1>3
<1> QED
  BY <1>6, <1>7 DEF facts

LEMMA RevealedAreStored ==
    ASSUME PInv
    PROVE  /\ EvidenceIds \in SUBSET Nat /\ IsFiniteSet(EvidenceIds)
           /\ \A id \in EvidenceIds : \E e : /\ IsEvidence(e) /\ Valid(e)
                                             /\ Stored(tables, id, e) /\ Hydrate(tables, id) = e
<1>1. ASSUME NEW id \in EvidenceIds
      PROVE  \E e : /\ IsEvidence(e) /\ Valid(e)
                    /\ Stored(tables, id, e) /\ Hydrate(tables, id) = e
  <2>1. PICK i \in DOMAIN commitments : commitments[i].evidence_id = id /\ id # None
    BY DEF EvidenceIds
  <2> DEFINE e == commitments[i].digest
  <2>2. IsEvidence(e) /\ Valid(e) /\ Stored(tables, id, e)
    BY <2>1 DEF PInv, CommitmentsOK, CommitmentOK
  <2>3. Hydrate(tables, id) = e
    BY <2>2, HydrateStored DEF Stored
  <2> QED
    BY <2>2, <2>3
<1>2. EvidenceIds \subseteq 1 .. Cardinality(tables.evidences)
  BY <1>1 DEF Stored, StoredAt
<1>3. Cardinality(tables.evidences) \in Nat
  BY FS_CardinalityType DEF PInv, TablesOK
<1>4. IsFiniteSet(EvidenceIds)
  BY <1>2, <1>3, UpTo, FS_Subset
<1> QED
  BY <1>1, <1>2, <1>4

-----------------------------------------------------------------------------
(* The rows of cache locations. *)

LocationsOf(rows, id) == {row \in rows : row.evidence_id = id}

LocationsBelong == \A row \in cache_locations : row.evidence_id \in EvidenceIds

LocInv == /\ LocationsBelong
          /\ reply # None => pc \in {"facts", "done", "failed"}
          /\ reply # None /\ reply.status = "created" =>
               \E i \in CommittedBy(work.builder_id) :
                 /\ commitments[i].evidence_id # None
                 /\ HasLocations(commitments[i].evidence_id, reply.locations)

(* The rows of a reveal have a key of their own. *)
LEMMA LocationsAdded ==
    ASSUME PInv, LocationsBelong, NEW e, NEW locations, NEW verdict, NEW id,
           id = Revealed(verdict), Stores(e, locations, verdict),
           EvidenceIds' = EvidenceIds \cup ({id} \ {None})
    PROVE  /\ LocationsBelong'
           /\ \A old \in EvidenceIds : LocationsOf(cache_locations', old) = LocationsOf(cache_locations, old)
           /\ verdict = "created" =>
                /\ id # None
                /\ LocationsOf(cache_locations', id) = CacheLocationRows(id, Normalized(locations))
<1> DEFINE uris == Normalized(locations)
<1>1. cache_locations' = cache_locations \cup LocationRowsAt(verdict, locations)
  BY DEF Stores
<1>2. CASE verdict # "created"
  BY <1>1, <1>2 DEF LocationRowsAt, Revealed, LocationsBelong, LocationsOf
<1>3. CASE verdict = "created"
  <2>1. id \in Nat /\ id \notin EvidenceIds
    <3>1. id = Cardinality(tables.evidences) + 1
      BY <1>3 DEF Revealed
    <3>2. Cardinality(tables.evidences) \in Nat
      BY FS_CardinalityType DEF PInv, TablesOK
    <3>3. \A old \in EvidenceIds : old \in 1 .. Cardinality(tables.evidences)
      BY RevealedAreStored DEF Stored, StoredAt
    <3> QED
      BY <3>1, <3>2, <3>3
  <2>2. id # None
    BY <2>1, AnswersAssumption
  <2>3. LocationRowsAt(verdict, locations) = CacheLocationRows(id, uris)
    BY <1>3 DEF LocationRowsAt
  <2>4. \A row \in CacheLocationRows(id, uris) : row.evidence_id = id
    BY DEF CacheLocationRows
  <2> HIDE DEF uris
  <2>5. LocationsBelong'
    BY <1>1, <2>2, <2>3, <2>4 DEF LocationsBelong
  <2>6. \A old \in EvidenceIds : LocationsOf(cache_locations', old) = LocationsOf(cache_locations, old)
    BY <1>1, <2>1, <2>3, <2>4 DEF LocationsOf
  <2>7. LocationsOf(cache_locations', id) = CacheLocationRows(id, uris)
    BY <1>1, <2>1, <2>3, <2>4 DEF LocationsBelong, LocationsOf
  <2> QED
    BY <2>2, <2>5, <2>6, <2>7 DEF uris
<1> QED
  BY <1>2, <1>3

LEMMA InitialLocations ==
    ASSUME PipelineInit
    PROVE  LocInv
BY DEF PipelineInit, LocInv, LocationsBelong

(* The builder's own steps, before the reply and after it. *)
LEMMA BuilderLocations ==
    ASSUME PInv, LocInv, UNCHANGED <<tables, cache_locations, commitments, reply>>,
           reply # None => work'.builder_id = work.builder_id /\ pc' \in {"facts", "done", "failed"}
    PROVE  LocInv'
<1>1. EvidenceIds' = EvidenceIds
  BY DEF EvidenceIds
<1>2. LocationsBelong'
  BY <1>1 DEF LocInv, LocationsBelong
<1> QED
  BY <1>2 DEF LocInv, CommittedBy, HasLocations

LEMMA RevealLocations ==
    ASSUME PInv, LocInv, RevealEvidence
    PROVE  LocInv'
<1>1. PICK locations \in LocationLists, k \in CommittedBy(work.builder_id) :
        LET verdict == Verdict(work.evidence, locations) IN
        /\ reply' = [status |-> verdict, locations |-> locations]
        /\ Stores(work.evidence, locations, verdict)
        /\ commitments' = [commitments EXCEPT ![k].evidence_id = Revealed(verdict)]
        /\ pc' = IF verdict = "created" THEN "facts" ELSE "failed"
  BY DEF RevealEvidence
<1> DEFINE verdict == Verdict(work.evidence, locations)
           id == Revealed(verdict)
<1>2. /\ pc = "reveal" /\ UNCHANGED work /\ Stores(work.evidence, locations, verdict)
      /\ commitments' = [commitments EXCEPT ![k].evidence_id = id]
      /\ reply' = [status |-> verdict, locations |-> locations]
      /\ pc' \in {"facts", "failed"}
  BY <1>1 DEF RevealEvidence
<1>3. id = Revealed(verdict)
  OBVIOUS
<1> HIDE DEF verdict, id
<1>4. /\ DOMAIN commitments' = DOMAIN commitments /\ k \in DOMAIN commitments
      /\ commitments'[k] = Commitment(work.evidence, id)
      /\ EvidenceIds' = EvidenceIds \cup ({id} \ {None})
  BY <1>2, CommitmentRevealed
<1>5. /\ LocationsBelong'
      /\ verdict = "created" =>
           /\ id # None
           /\ LocationsOf(cache_locations', id) = CacheLocationRows(id, Normalized(locations))
  BY <1>2, <1>3, <1>4, LocationsAdded DEF LocInv
<1>6. ASSUME verdict = "created"
      PROVE  \E i \in CommittedBy(work.builder_id)' :
               /\ commitments'[i].evidence_id # None
               /\ LocationsOf(cache_locations', commitments'[i].evidence_id)
                    = CacheLocationRows(commitments'[i].evidence_id, Normalized(locations))
  <2>1. work.evidence.builder_id = work.builder_id
    BY <1>2 DEF PInv, WorkOK
  <2>2. commitments'[k].builder_id = work.builder_id /\ commitments'[k].evidence_id = id
    BY <1>4, <2>1 DEF Commitment
  <2>3. k \in CommittedBy(work.builder_id)'
    BY <1>2, <1>4, <2>2 DEF CommittedBy
  <2> QED
    BY <1>5, <1>6, <2>2, <2>3
<1>7. reply'.status = verdict /\ reply'.locations = locations
  BY <1>2
<1> QED
  BY <1>2, <1>5, <1>6, <1>7 DEF LocInv, HasLocations, LocationsOf

LEMMA OthersLocations ==
    ASSUME PInv, LocInv, OthersReveal
    PROVE  LocInv'
<1>1. PICK e \in OtherEvidences :
        LET locations == CHOOSE list \in LocationLists : AllNormalize(list)
            verdict == Verdict(e, locations) IN
        /\ CommittedBy(e.builder_id) = {}
        /\ Stores(e, locations, verdict)
        /\ commitments' = Append(commitments, Commitment(e, Revealed(verdict)))
        /\ UNCHANGED <<pc, work, reply>>
  BY DEF OthersReveal
<1> DEFINE locations == CHOOSE list \in LocationLists : AllNormalize(list)
           verdict == Verdict(e, locations)
           id == Revealed(verdict)
<1>2. Added(tables, tables', e, id) /\ IsEvidence(e)
  BY <1>1, RevealAdds, AnswersAssumption
<1>3. /\ Stores(e, locations, verdict) /\ UNCHANGED <<pc, work, reply>>
      /\ commitments' = Append(commitments, Commitment(e, id))
      /\ id = Revealed(verdict)
  BY <1>1
<1> HIDE DEF locations, verdict, id
<1>4. /\ EvidenceIds' = EvidenceIds \cup ({id} \ {None})
      /\ DOMAIN commitments \subseteq DOMAIN commitments'
      /\ \A i \in DOMAIN commitments : commitments'[i] = commitments[i]
  BY <1>2, <1>3, CommitmentAdded
<1>5. /\ LocationsBelong'
      /\ \A old \in EvidenceIds : LocationsOf(cache_locations', old) = LocationsOf(cache_locations, old)
  BY <1>3, <1>4, LocationsAdded DEF LocInv
<1>6. ASSUME reply # None /\ reply.status = "created"
      PROVE  \E i \in CommittedBy(work.builder_id)' :
               /\ commitments'[i].evidence_id # None
               /\ LocationsOf(cache_locations', commitments'[i].evidence_id)
                    = CacheLocationRows(commitments'[i].evidence_id, Normalized(reply.locations))
  <2>1. PICK i \in CommittedBy(work.builder_id) :
          /\ commitments[i].evidence_id # None
          /\ HasLocations(commitments[i].evidence_id, reply.locations)
    BY <1>6 DEF LocInv
  <2>2. i \in DOMAIN commitments /\ commitments[i].evidence_id \in EvidenceIds
    BY <2>1 DEF CommittedBy, EvidenceIds
  <2>3. i \in CommittedBy(work.builder_id)' /\ commitments'[i] = commitments[i]
    BY <1>3, <1>4, <2>1, <2>2 DEF CommittedBy
  <2>4. LocationsOf(cache_locations', commitments[i].evidence_id)
          = CacheLocationRows(commitments[i].evidence_id, Normalized(reply.locations))
    BY <1>5, <2>1, <2>2 DEF HasLocations, LocationsOf
  <2> QED
    BY <2>1, <2>3, <2>4
<1> QED
  BY <1>3, <1>5, <1>6 DEF LocInv, HasLocations, LocationsOf

LEMMA LocationsStep ==
    ASSUME PInv, LocInv, [PipelineNext]_pipeline
    PROVE  LocInv'
<1>1. CASE UNCHANGED pipeline
  BY <1>1, BuilderLocations DEF pipeline, LocInv
<1>2. CASE \/ AcceptCommand \/ ResolveTheSource \/ FindDerivation \/ InitialBuild \/ Rebuild
           \/ QueryOutputs \/ NixFails \/ Compose \/ CommitEvidence
  <2>1. reply = None
    BY <1>2 DEF LocInv, AcceptCommand, ResolveTheSource, FindDerivation, InitialBuild, Rebuild,
                QueryOutputs, NixFails, Compose, CommitEvidence, Yields
  <2>2. CASE CommitEvidence
    <3>1. UNCHANGED <<work, tables, cache_locations, reply>>
      BY <2>2 DEF CommitEvidence
    <3>2. EvidenceIds' = EvidenceIds
      <4>1. CASE UNCHANGED commitments
        BY <4>1 DEF EvidenceIds
      <4>2. CASE commitments' = Append(commitments, Commitment(work.evidence, None))
        <5>1. IsEvidence(work.evidence)
          BY <2>2 DEF CommitEvidence, PInv, WorkOK
        <5>2. Added(tables, tables', work.evidence, None)
          BY <3>1 DEF Added
        <5>3. EvidenceIds' = EvidenceIds \cup ({None} \ {None})
          BY <4>2, <5>1, <5>2, CommitmentAdded
        <5> QED
          BY <5>3
      <4> QED
        BY <2>2, <4>1, <4>2 DEF CommitEvidence
    <3> QED
      BY <2>1, <3>1, <3>2 DEF LocInv, LocationsBelong
  <2>3. CASE ~CommitEvidence
    <3>1. UNCHANGED <<tables, cache_locations, commitments, reply>>
      BY <1>2, <2>3 DEF AcceptCommand, ResolveTheSource, FindDerivation, InitialBuild, Rebuild,
                QueryOutputs, NixFails, Compose, Yields
    <3> QED
      BY <2>1, <3>1, BuilderLocations
  <2> QED
    BY <2>2, <2>3
<1>3. CASE RevealEvidence
  BY <1>3, RevealLocations
<1>4. CASE OthersReveal
  BY <1>4, OthersLocations
<1>5. CASE ScoreFacts
  <2>1. /\ UNCHANGED <<tables, cache_locations, commitments, reply>> /\ pc' \in {"done", "failed"}
        /\ work' = work \/ \E result : work' = [work EXCEPT !.trust = result]
    BY <1>5 DEF ScoreFacts, Yields
  <2>2. work'.builder_id = work.builder_id
    BY <2>1 DEF PInv, WorkOK, NoWork
  <2> QED
    BY <2>1, <2>2, BuilderLocations
<1> QED
  BY <1>1, <1>2, <1>3, <1>4, <1>5 DEF PipelineNext

(* insert_evidence and reveal: the tables hold all rows of the evidences   *)
(* that are revealed, with the cache locations, and no others, whatever    *)
(* fails.                                                                  *)
THEOREM WholeEvidences == PipelineSpec => []StoredWhole
<1>1. PipelineInit => LocInv
  BY InitialLocations
<1>2. PInv /\ LocInv /\ [PipelineNext]_pipeline => LocInv'
  BY LocationsStep
<1>3. PInv /\ LocInv => StoredWhole
  BY DEF PInv, RowsWhole, LocInv, LocationsBelong, StoredWhole
<1> QED
  BY <1>1, <1>2, <1>3, PipelineInvariance, PTL DEF PipelineSpec

-----------------------------------------------------------------------------
(* list. *)

ListIds(path) == {RowById(tables.claims, row.claim_id).evidence_id :
                    row \in {b \in tables.build_claims : b.derivation_path = path}}

LEMMA ListedByDerivation ==
    ASSUME PInv, NEW path
    PROVE  ListIds(path) = {id \in EvidenceIds :
                              BuildClaim(Hydrate(tables, id)).derivation_path = path}
<1>1. RowsBelongTo(tables, EvidenceIds)
  BY DEF PInv, RowsWhole
<1>2. ASSUME NEW id \in ListIds(path)
      PROVE  id \in EvidenceIds /\ BuildClaim(Hydrate(tables, id)).derivation_path = path
  <2>1. PICK b \in tables.build_claims :
          b.derivation_path = path /\ id = RowById(tables.claims, b.claim_id).evidence_id
    BY DEF ListIds
  <2> DEFINE row == RowById(tables.claims, b.claim_id)
  <2>2. row \in tables.claims /\ row.id = b.claim_id
    <3>1. b.claim_id \in {r.id : r \in tables.claims}
      BY <1>1 DEF RowsBelongTo
    <3>2. \E r \in tables.claims : r.id = b.claim_id
      BY <3>1
    <3> QED
      BY <3>2 DEF RowById
  <2> HIDE DEF row
  <2>3. id = row.evidence_id
    BY <2>1 DEF row
  <2>4. id \in EvidenceIds
    BY <1>1, <2>2, <2>3 DEF RowsBelongTo
  <2>5. PICK e : /\ IsEvidence(e) /\ Valid(e)
                 /\ Stored(tables, id, e) /\ Hydrate(tables, id) = e
    BY <2>4, RevealedAreStored
  <2>6. PICK base \in 0 .. Cardinality(tables.claims) : StoredAt(tables, id, base, e)
    BY <2>5 DEF Stored
  <2>7. PICK i \in DOMAIN e.claims : row = ClaimRow(id, base, e, i)
    BY <2>2, <2>3, <2>6 DEF StoredAt
  <2>8. b.claim_id = base + i
    BY <2>2, <2>7 DEF ClaimRow
  <2>9. {r \in tables.build_claims : r.claim_id = base + i} =
          IF i \in BuildClaims(e) THEN {BuildClaimRow(base, e, i)} ELSE {}
    BY <2>6 DEF StoredAt, ClaimStored
  <2>10. i \in BuildClaims(e) /\ b = BuildClaimRow(base, e, i)
    BY <2>8, <2>9
  <2>11. e.claims[i].derivation_path = path
    BY <2>1, <2>10 DEF BuildClaimRow
  <2>12. BuildClaim(e) = e.claims[i]
    BY <2>5, <2>10, OneBuild
  <2> QED
    BY <2>4, <2>5, <2>11, <2>12
<1>3. ASSUME NEW id \in EvidenceIds, BuildClaim(Hydrate(tables, id)).derivation_path = path
      PROVE  id \in ListIds(path)
  <2>1. PICK e : /\ IsEvidence(e) /\ Valid(e)
                 /\ Stored(tables, id, e) /\ Hydrate(tables, id) = e
    BY RevealedAreStored
  <2>2. PICK base \in 0 .. Cardinality(tables.claims) : StoredAt(tables, id, base, e)
    BY <2>1 DEF Stored
  <2>3. PICK i \in DOMAIN e.claims : BuildClaims(e) = {i} /\ BuildClaim(e) = e.claims[i]
    BY <2>1, OneBuild
  <2>4. {row \in tables.claims : row.id = base + i} = {ClaimRow(id, base, e, i)}
    BY <2>2, <2>3 DEF StoredAt, ClaimStored
  <2> DEFINE b == BuildClaimRow(base, e, i)
  <2>5. b \in tables.build_claims
    <3>1. {row \in tables.build_claims : row.claim_id = base + i} = {b}
      BY <2>2, <2>3 DEF StoredAt, ClaimStored
    <3> QED
      BY <3>1
  <2>6. b.claim_id = base + i /\ b.derivation_path = path
    BY <1>3, <2>1, <2>3 DEF BuildClaimRow
  <2>7. RowById(tables.claims, base + i) = ClaimRow(id, base, e, i)
    BY <2>4, RowByIdFound
  <2>8. ClaimRow(id, base, e, i).evidence_id = id
    BY DEF ClaimRow
  <2> HIDE DEF b
  <2> QED
    BY <2>5, <2>6, <2>7, <2>8 DEF ListIds
<1> QED
  BY <1>2, <1>3

LEMMA ReadBack ==
    ASSUME PInv
    PROVE  ReadBackOpensDigest
<1>1. ASSUME NEW i \in DOMAIN commitments, commitments[i].evidence_id # None
      PROVE  Hydrate(tables, commitments[i].evidence_id) = commitments[i].digest
  <2>1. /\ IsEvidence(commitments[i].digest)
        /\ Stored(tables, commitments[i].evidence_id, commitments[i].digest)
    BY <1>1 DEF PInv, CommitmentsOK, CommitmentOK
  <2> QED
    BY <2>1, HydrateStored DEF Stored
<1>2. ASSUME NEW path, NEW i \in DOMAIN RoundFacts
      PROVE  BuildClaim(RoundFacts[i]).derivation_path = path
               <=> Contains(ListOf(tables, path), RoundFacts[i])
  <2>1. /\ EvidenceIds \in SUBSET Nat /\ IsFiniteSet(EvidenceIds)
        /\ RoundFacts = HydrateAll(tables, EvidenceIds)
    BY RevealedAreStored DEF RoundFacts, EvidenceIds
  <2>2. PICK id \in EvidenceIds : RoundFacts[i] = Hydrate(tables, id)
    BY <2>1, HydrateAllMembers
  <2>3. ListIds(path) \in SUBSET Nat /\ IsFiniteSet(ListIds(path))
    BY <2>1, ListedByDerivation, FS_Subset, ZenonT(60)
  <2>4. ListOf(tables, path) = HydrateAll(tables, ListIds(path))
    BY DEF ListOf, ListIds
  <2>5. Contains(ListOf(tables, path), RoundFacts[i])
          <=> \E other \in ListIds(path) : Hydrate(tables, other) = RoundFacts[i]
    BY <2>3, <2>4, HydrateAllMembers
  <2>6. \A other \in EvidenceIds :
          other \in ListIds(path) <=> BuildClaim(Hydrate(tables, other)).derivation_path = path
    BY ListedByDerivation
  <2>7. ListIds(path) \subseteq EvidenceIds
    BY ListedByDerivation
  <2> QED
    BY <2>2, <2>5, <2>6, <2>7
<1> QED
  BY <1>1, <1>2 DEF ReadBackOpensDigest

(* hydrate, list, list_round: what is read back is what was committed to,  *)
(* and both lists agree.                                                   *)
THEOREM ReadBackIsDigest == PipelineSpec => []ReadBackOpensDigest
<1>1. PInv => ReadBackOpensDigest
  BY ReadBack
<1> QED
  BY <1>1, PipelineInvariance, PTL

-----------------------------------------------------------------------------
(* What a builder commits to is accepted: what is known of the parts of an *)
(* evidence before they are put together.                                  *)

OutputsFit(outputs) ==
    /\ DOMAIN outputs # {} /\ IsFiniteSet(DOMAIN outputs) /\ DOMAIN outputs \subseteq Nat
    /\ \A name \in DOMAIN outputs : ValidText(name) /\ ValidText(outputs[name])

InfosFit(infos) ==
    /\ IsList(infos) /\ DOMAIN infos # {}
    /\ \A i \in DOMAIN infos : ValidOutput(BuildOutput(infos[i]))
    /\ \A i, j \in DOMAIN infos : i # j =>
         infos[i].output_name # infos[j].output_name /\ infos[i].output_path # infos[j].output_path

RunFits(run) == /\ ValidText(DigestBuildLog(LogClaim(run)))
                /\ run.started_at \in Nat /\ run.finished_at \in Nat

(* All that Evidence::validate asks for, but for the texts that commit asks *)
(* for and the times.                                                      *)
EvidenceFits(e) ==
    /\ e.schema_version = SchemaVersion
    /\ ValidText(e.package.repository) /\ ValidText(e.package.name)
    /\ Cardinality(BuildClaims(e)) = 1
    /\ \A i \in DOMAIN e.claims :
         LET claim == e.claims[i] IN
         IF IsBuild(claim)
         THEN ValidSource(claim.source) /\ ValidOutputs(claim.outputs) /\ ValidOptional(claim.build_log_digest)
         ELSE claim.started_at \in Nat /\ claim.finished_at \in Nat

WorkFits ==
    /\ pc \notin {"command", "failed"} =>
         ValidText(work.package.repository) /\ ValidText(work.package.name)
    /\ pc \in {"derivation", "initial", "rebuild", "info", "compose"} => ValidSource(work.source)
    /\ pc = "info" => OutputsFit(work.run.outputs)
    /\ pc \in {"info", "compose"} => RunFits(work.run)
    /\ pc = "compose" => InfosFit(work.infos)
    /\ pc \in {"commit", "reveal"} => EvidenceFits(work.evidence)
    /\ pc = "reveal" => Commits(work.evidence)

FitInv == /\ WorkFits /\ CommittedIsAccepted
          /\ reply # None => pc \in {"facts", "done", "failed"}

LEMMA SourceFits ==
    ASSUME AnswersFit, NEW metadata \in Metadata, NEW repository, ValidText(repository)
    PROVE  ValidSource(ResolveSource(repository, metadata))
BY DEF AnswersFit, ResolveSource, ValidSource, ValidOptional

LEMMA BuildRunFits ==
    ASSUME AnswersFit, NEW results \in BuildResults, NEW log \in Logs,
           NEW started \in Moments, NEW finished \in Moments,
           BuildRun(results, log, started, finished) # None
    PROVE  LET run == BuildRun(results, log, started, finished)
           IN  OutputsFit(run.outputs) /\ RunFits(run)
<1> DEFINE run == BuildRun(results, log, started, finished)
<1>1. ParseBuildOutputs(results) # None
  BY DEF BuildRun
<1>2. Len(results) = 1 /\ DOMAIN results[1] # {} /\ ParseBuildOutputs(results) = results[1]
  BY <1>1 DEF ParseBuildOutputs
<1>3. run = [outputs |-> results[1], stdout |-> log.stdout, stderr |-> log.stderr,
             started_at |-> started, finished_at |-> finished]
  BY <1>1, <1>2 DEF BuildRun
<1> HIDE DEF run
<1>4. OutputsFit(run.outputs)
  BY <1>2, <1>3, AnswersAssumption DEF OutputsFit, AnswersFit
<1>5. DigestBuildLog(LogClaim(run)) = DigestBuildLog(log)
  BY <1>3 DEF DigestBuildLog, LogClaim
<1>6. RunFits(run)
  BY <1>3, <1>5, AnswersAssumption DEF RunFits
<1> QED
  BY <1>4, <1>6 DEF run

LEMMA CollectedFit ==
    ASSUME AnswersFit, NEW outputs, OutputsFit(outputs), NEW entries \in PathInfos,
           CollectOutputInfo(outputs, entries) # None
    PROVE  InfosFit(CollectOutputInfo(outputs, entries))
<1> DEFINE names == InOrder(outputs)
           D == DOMAIN outputs
           info(i) == OutputInfo(names[i], outputs[names[i]], entries[outputs[names[i]]])
           infos == CollectOutputInfo(outputs, entries)
<1>1. /\ {outputs[n] : n \in D} = DOMAIN entries
      /\ \A m, n \in D : outputs[m] = outputs[n] => m = n
      /\ infos = [i \in DOMAIN names |-> info(i)]
  BY DEF CollectOutputInfo
<1>2. /\ DOMAIN names = 1 .. Cardinality(D)
      /\ \A i \in DOMAIN names : names[i] \in D
      /\ \A a \in D : \E i \in DOMAIN names : names[i] = a
      /\ \A i, j \in DOMAIN names : names[i] = names[j] => i = j
  BY SortedMembers DEF OutputsFit, InOrder
<1>3. IsList(infos)
  BY InfosAreListed DEF OutputsFit
<1> HIDE DEF names, D, infos
<1>4. DOMAIN infos = DOMAIN names /\ \A i \in DOMAIN names : infos[i] = info(i)
  BY <1>1
<1>5. DOMAIN infos # {}
  BY <1>2, <1>4 DEF OutputsFit, D
<1>6. ASSUME NEW i \in DOMAIN infos
      PROVE  /\ infos[i].output_name = names[i] /\ infos[i].output_path = outputs[names[i]]
             /\ ValidOutput(BuildOutput(infos[i]))
  <2> DEFINE name == names[i]
             path == outputs[name]
             entry == entries[path]
  <2>1. name \in D /\ path \in DOMAIN entries
    BY <1>1, <1>2, <1>4
  <2>2. ValidText(name) /\ ValidText(path)
    BY <2>1 DEF OutputsFit, D
  <2>3. /\ ValidText(entry.nar_hash) /\ ValidOptional(entry.ca)
        /\ \A k \in DOMAIN entry.references : ValidText(entry.references[k])
    BY <2>1 DEF AnswersFit
  <2>4. infos[i] = OutputInfo(name, path, entry)
    BY <1>4
  <2> HIDE DEF name, path, entry
  <2>5. /\ infos[i].output_name = name /\ infos[i].output_path = path
        /\ infos[i].nar_hash = entry.nar_hash /\ infos[i].content_addressed = entry.ca
        /\ infos[i].references = entry.references
    BY <2>4 DEF OutputInfo
  <2>6. ValidOutput(BuildOutput(infos[i]))
    BY <2>2, <2>3, <2>5 DEF ValidOutput, BuildOutput
  <2> QED
    BY <2>5, <2>6 DEF name, path
<1>7. \A i, j \in DOMAIN infos : i # j =>
        infos[i].output_name # infos[j].output_name /\ infos[i].output_path # infos[j].output_path
  BY <1>1, <1>2, <1>4, <1>6
<1> QED
  BY <1>3, <1>5, <1>6, <1>7 DEF InfosFit, infos

LEMMA OutputsAreValid ==
    ASSUME NEW infos, InfosFit(infos)
    PROVE  ValidOutputs([i \in DOMAIN infos |-> BuildOutput(infos[i])])
<1> DEFINE outputs == [i \in DOMAIN infos |-> BuildOutput(infos[i])]
<1>1. /\ DOMAIN outputs # {}
      /\ \A i \in DOMAIN outputs : ValidOutput(outputs[i])
  BY DEF InfosFit
<1>2. \A i \in DOMAIN infos : /\ outputs[i].output_name = infos[i].output_name
                              /\ outputs[i].output_store_path = infos[i].output_path
  BY DEF BuildOutput
<1>3. DOMAIN outputs = DOMAIN infos
  OBVIOUS
<1> HIDE DEF outputs
<1>4. outputs # <<>>
  BY <1>1
<1>5. \A i, j \in DOMAIN outputs : i # j =>
         /\ outputs[i].output_name # outputs[j].output_name
         /\ outputs[i].output_store_path # outputs[j].output_store_path
  BY <1>2, <1>3 DEF InfosFit
<1> QED
  BY <1>1, <1>4, <1>5 DEF ValidOutputs, outputs

LEMMA ComposedFits ==
    ASSUME NEW package, ValidText(package.repository), ValidText(package.name),
           NEW b, NEW source, ValidSource(source), NEW path, NEW infos, InfosFit(infos),
           NEW run, RunFits(run), NEW requested
    PROVE  EvidenceFits(ComposeEvidence(package, b, source, path, infos, run,
                                        WithRequiredBuild(requested)))
<1> DEFINE kinds == WithRequiredBuild(requested)
           build == ComposeBuild(source, path, infos, run)
           claims == [i \in DOMAIN kinds |-> IF kinds[i] = "build" THEN build ELSE LogClaim(run)]
           e == ComposeEvidence(package, b, source, path, infos, run, kinds)
<1>1. \A i \in DOMAIN kinds : kinds[i] = "build" <=> i = 1
  BY DEF WithRequiredBuild
<1>2. 1 \in DOMAIN kinds
  BY DEF WithRequiredBuild
<1>3. /\ build.kind = "build" /\ ValidSource(build.source) /\ ValidOutputs(build.outputs)
      /\ ValidOptional(build.build_log_digest)
  BY OutputsAreValid DEF ComposeBuild, RunFits, ValidOptional
<1>4. /\ LogClaim(run).kind = "log" /\ LogClaim(run).started_at \in Nat
      /\ LogClaim(run).finished_at \in Nat
  BY DEF LogClaim, RunFits
<1> HIDE DEF kinds, build
<1>5. e = [schema_version |-> SchemaVersion, builder_id |-> b, package |-> package,
           claims |-> claims]
  BY DEF ComposeEvidence, build
<1> HIDE DEF e
<1>6. /\ e.schema_version = SchemaVersion /\ e.package = package
      /\ DOMAIN e.claims = DOMAIN kinds
      /\ \A i \in DOMAIN kinds : e.claims[i] = IF i = 1 THEN build ELSE LogClaim(run)
  BY <1>1, <1>5
<1>7. BuildClaims(e) = {1}
  BY <1>2, <1>3, <1>4, <1>6 DEF BuildClaims, IsBuild
<1>8. Cardinality(BuildClaims(e)) = 1
  BY <1>7, FS_Singleton
<1>9. \A i \in DOMAIN e.claims :
        LET claim == e.claims[i] IN
        IF IsBuild(claim)
        THEN ValidSource(claim.source) /\ ValidOutputs(claim.outputs) /\ ValidOptional(claim.build_log_digest)
        ELSE claim.started_at \in Nat /\ claim.finished_at \in Nat
  BY <1>3, <1>4, <1>6 DEF IsBuild
<1>10. EvidenceFits(e)
  BY <1>6, <1>8, <1>9 DEF EvidenceFits
<1> QED
  BY <1>10 DEF e, kinds

(* Only a clock that was set back is in the way of what fits. *)
LEMMA FitsIsValid ==
    ASSUME NEW e, IsEvidence(e), EvidenceFits(e), Commits(e), ~Valid(e)
    PROVE  \E i \in DOMAIN e.claims : /\ ~IsBuild(e.claims[i])
                                      /\ e.claims[i].finished_at < e.claims[i].started_at
<1>1. PICK b \in DOMAIN e.claims : BuildClaims(e) = {b} /\ BuildClaim(e) = e.claims[b]
  BY OnlyBuild DEF EvidenceFits
<1>2. PICK i \in DOMAIN e.claims : ~ValidClaim(e.claims[i])
  BY DEF Valid, EvidenceFits, Commits
<1>3. CASE IsBuild(e.claims[i])
  <2>1. i = b
    BY <1>1, <1>3 DEF BuildClaims
  <2>2. ValidText(e.claims[i].derivation_path)
    BY <1>1, <2>1 DEF Commits
  <2> QED
    BY <1>2, <1>3, <2>2 DEF ValidClaim, EvidenceFits
<1>4. CASE ~IsBuild(e.claims[i])
  <2>1. e.claims[i].started_at \in Nat /\ e.claims[i].finished_at \in Nat
    BY <1>4 DEF EvidenceFits
  <2>2. ~(e.claims[i].finished_at >= e.claims[i].started_at)
    BY <1>2, <1>4 DEF ValidClaim
  <2> QED
    BY <1>4, <2>1, <2>2
<1> QED
  BY <1>3, <1>4

LEMMA StillAnswered ==
    ASSUME WorkOK, FitInv, UNCHANGED reply, DOMAIN work' = DOMAIN work,
           work'.evidence = work.evidence \/ reply = None,
           reply # None => pc' \in {"facts", "done", "failed"}
    PROVE  CommittedIsAccepted' /\ (reply' # None => pc' \in {"facts", "done", "failed"})
BY DEF FitInv, CommittedIsAccepted, ClockSetBack

LEMMA FailedFits ==
    ASSUME WorkOK, FitInv, pc' = "failed", UNCHANGED <<work, reply>>
    PROVE  FitInv'
<1>1. WorkFits'
  BY DEF WorkFits
<1> QED
  BY <1>1, StillAnswered DEF FitInv

(* A step that yields a result before the reveal. *)
LEMMA YieldsFits ==
    ASSUME WorkOK, FitInv, NEW stage, NEW field \in DOMAIN NoWork, NEW result, NEW next,
           Yields(stage, field, result, next),
           stage \notin {"command", "reveal", "facts", "done", "failed"},
           next \in {"derivation", "initial", "info", "compose", "commit"},
           field # "package",
           result # None =>
             /\ next \in {"derivation", "initial", "info", "compose"} =>
                  IF field = "source" THEN ValidSource(result) ELSE ValidSource(work.source)
             /\ next = "info" => /\ field = "run"
                                 /\ OutputsFit(result.outputs) /\ RunFits(result)
             /\ next = "compose" => field = "infos" /\ RunFits(work.run) /\ InfosFit(result)
             /\ next = "commit" => field = "evidence" /\ EvidenceFits(result)
    PROVE  FitInv'
<1>1. CASE result = None
  BY <1>1, FailedFits DEF Yields
<1>2. CASE result # None
  <2>1. /\ pc = stage /\ pc' = next /\ work' = [work EXCEPT ![field] = result]
        /\ UNCHANGED reply
    BY <1>2 DEF Yields
  <2>2. DOMAIN work = DOMAIN NoWork
    BY DEF WorkOK
  <2>3. \A f \in DOMAIN NoWork : work'[f] = IF f = field THEN result ELSE work[f]
    BY <2>1, <2>2
  <2>4. /\ "package" \in DOMAIN NoWork /\ "source" \in DOMAIN NoWork /\ "run" \in DOMAIN NoWork
        /\ "infos" \in DOMAIN NoWork /\ "evidence" \in DOMAIN NoWork
    BY DEF NoWork
  <2>5. /\ work'.package = work.package
        /\ work'.source = IF field = "source" THEN result ELSE work.source
        /\ work'.run = IF field = "run" THEN result ELSE work.run
        /\ work'.infos = IF field = "infos" THEN result ELSE work.infos
        /\ work'.evidence = IF field = "evidence" THEN result ELSE work.evidence
    BY <2>3, <2>4
  <2>6. ValidText(work.package.repository) /\ ValidText(work.package.name)
    BY <2>1 DEF FitInv, WorkFits
  <2>7. WorkFits'
    BY <1>2, <2>1, <2>5, <2>6 DEF WorkFits
  <2>8. reply = None
    BY <2>1 DEF FitInv
  <2>9. DOMAIN work' = DOMAIN work
    BY <2>1
  <2> QED
    BY <2>1, <2>7, <2>8, <2>9, StillAnswered DEF FitInv
<1> QED
  BY <1>1, <1>2

LEMMA AcceptedFits ==
    ASSUME WorkOK, FitInv, AcceptCommand
    PROVE  FitInv'
<1>1. PICK command \in Commands, b \in BuilderIds :
        LET package == ParseReference(command.package_ref) IN
        IF package = None \/ b = Blank
        THEN pc' = "failed" /\ UNCHANGED work
        ELSE /\ pc' = "source"
             /\ work' = [work EXCEPT !.command = command, !.builder_id = b, !.package = package]
  BY DEF AcceptCommand
<1> DEFINE package == ParseReference(command.package_ref)
<1>2. pc = "command" /\ UNCHANGED reply
  BY DEF AcceptCommand
<1>3. CASE pc' = "failed" /\ UNCHANGED work
  BY <1>2, <1>3, FailedFits
<1>4. CASE /\ package # None /\ pc' = "source"
           /\ work' = [work EXCEPT !.command = command, !.builder_id = b, !.package = package]
  <2>1. DOMAIN work = DOMAIN NoWork
    BY DEF WorkOK
  <2>2. DOMAIN work' = DOMAIN work /\ work'.package = package
    BY <1>4, <2>1 DEF NoWork
  <2>3. ValidText(package.repository) /\ ValidText(package.name)
    BY <1>4 DEF ParseReference, ValidText
  <2> HIDE DEF package
  <2>4. WorkFits'
    BY <1>4, <2>2, <2>3 DEF WorkFits
  <2>5. reply = None
    BY <1>2 DEF FitInv
  <2> QED
    BY <1>2, <2>2, <2>4, <2>5, StillAnswered DEF FitInv
<1> QED
  BY <1>1, <1>3, <1>4

LEMMA BuilderFits ==
    ASSUME AnswersFit, WorkOK, FitInv,
           \/ ResolveTheSource \/ FindDerivation \/ InitialBuild \/ Rebuild
           \/ QueryOutputs \/ NixFails \/ Compose
    PROVE  FitInv'
<1>1. CASE ResolveTheSource
  <2>1. PICK metadata \in Metadata :
          Yields("source", "source", ResolveSource(work.package.repository, metadata), "derivation")
    BY <1>1 DEF ResolveTheSource
  <2>2. ValidText(work.package.repository)
    BY <2>1 DEF FitInv, WorkFits, Yields
  <2>3. ValidSource(ResolveSource(work.package.repository, metadata))
    BY <2>2, SourceFits
  <2> QED
    BY <2>1, <2>3, YieldsFits DEF NoWork
<1>2. CASE FindDerivation
  <2>1. PICK entries \in DerivationSets :
          Yields("derivation", "derivation_path", TakeOnlyEntry(entries), "initial")
    BY <1>2 DEF FindDerivation
  <2>2. ValidSource(work.source)
    BY <2>1 DEF FitInv, WorkFits, Yields
  <2> QED
    BY <2>1, <2>2, YieldsFits DEF NoWork
<1>3. CASE InitialBuild
  <2>1. /\ pc = "initial" /\ pc' \in {"failed", "rebuild"} /\ UNCHANGED <<work, reply>>
    BY <1>3 DEF InitialBuild
  <2>2. WorkFits' /\ reply = None
    BY <2>1 DEF FitInv, WorkFits
  <2> QED
    BY <2>1, <2>2, StillAnswered DEF FitInv
<1>4. CASE Rebuild
  <2>1. PICK results \in BuildResults, log \in Logs, started \in Moments, finished \in Moments :
          Yields("rebuild", "run", BuildRun(results, log, started, finished), "info")
    BY <1>4 DEF Rebuild
  <2> DEFINE run == BuildRun(results, log, started, finished)
  <2>2. run # None => OutputsFit(run.outputs) /\ RunFits(run)
    BY BuildRunFits
  <2>3. ValidSource(work.source)
    BY <2>1 DEF FitInv, WorkFits, Yields
  <2> HIDE DEF run
  <2> QED
    BY <2>1, <2>2, <2>3, YieldsFits DEF NoWork, run
<1>5. CASE QueryOutputs
  <2>1. PICK entries \in PathInfos :
          Yields("info", "infos", CollectOutputInfo(work.run.outputs, entries), "compose")
    BY <1>5 DEF QueryOutputs
  <2>2. OutputsFit(work.run.outputs) /\ RunFits(work.run) /\ ValidSource(work.source)
    BY <2>1 DEF FitInv, WorkFits, Yields
  <2>3. CollectOutputInfo(work.run.outputs, entries) # None =>
          InfosFit(CollectOutputInfo(work.run.outputs, entries))
    BY <2>2, CollectedFit
  <2> QED
    BY <2>1, <2>2, <2>3, YieldsFits DEF NoWork
<1>6. CASE NixFails
  BY <1>6, FailedFits DEF NixFails
<1>7. CASE Compose
  <2> DEFINE e == ComposeEvidence(work.package, work.builder_id, work.source,
                                  work.derivation_path, work.infos, work.run,
                                  WithRequiredBuild(work.command.claims))
  <2>1. Yields("compose", "evidence", e, "commit")
    BY <1>7 DEF Compose
  <2>2. /\ ValidText(work.package.repository) /\ ValidText(work.package.name)
        /\ ValidSource(work.source) /\ InfosFit(work.infos) /\ RunFits(work.run)
    BY <2>1 DEF FitInv, WorkFits, Yields
  <2>3. EvidenceFits(e)
    BY <2>2, ComposedFits
  <2> HIDE DEF e
  <2> QED
    BY <2>1, <2>3, YieldsFits DEF NoWork
<1> QED
  BY <1>1, <1>2, <1>3, <1>4, <1>5, <1>6, <1>7

LEMMA RegistryFits ==
    ASSUME PInv, FitInv, CommitEvidence \/ RevealEvidence \/ ScoreFacts \/ OthersReveal
    PROVE  FitInv'
<1>0. WorkOK
  BY DEF PInv
<1>1. CASE CommitEvidence
  <2>1. pc = "commit" /\ UNCHANGED <<work, reply>> /\ reply = None
    BY <1>1 DEF CommitEvidence, FitInv
  <2>2. WorkFits'
    BY <1>1, <2>1 DEF CommitEvidence, FitInv, WorkFits
  <2> QED
    BY <1>0, <2>1, <2>2, StillAnswered DEF FitInv
<1>2. CASE RevealEvidence
  <2>1. PICK locations \in LocationLists :
          /\ reply' = [status |-> Verdict(work.evidence, locations), locations |-> locations]
          /\ pc' = IF Verdict(work.evidence, locations) = "created" THEN "facts" ELSE "failed"
    BY <1>2 DEF RevealEvidence
  <2>2. /\ pc = "reveal" /\ UNCHANGED work /\ IsEvidence(work.evidence)
        /\ EvidenceFits(work.evidence) /\ Commits(work.evidence)
    BY <1>2 DEF RevealEvidence, PInv, WorkOK, FitInv, WorkFits
  <2>3. WorkFits'
    BY <2>1, <2>2 DEF FitInv, WorkFits
  <2>4. ASSUME Verdict(work.evidence, locations) = "bad_request"
        PROVE  ClockSetBack \/ ~AllNormalize(locations)
    <3>1. ~Valid(work.evidence) \/ ~AllNormalize(locations)
      BY <2>4 DEF Verdict
    <3> QED
      BY <2>2, <3>1, FitsIsValid DEF ClockSetBack
  <2>5. /\ Verdict(work.evidence, locations) = "internal" => ~Storable(work.evidence)
        /\ Verdict(work.evidence, locations) \in {"created", "bad_request", "internal"}
    BY DEF Verdict
  <2>6. ClockSetBack' = ClockSetBack
    BY <2>2 DEF ClockSetBack
  <2>7. CommittedIsAccepted'
    BY <2>1, <2>2, <2>4, <2>5, <2>6 DEF CommittedIsAccepted
  <2> QED
    BY <2>1, <2>3, <2>7 DEF FitInv
<1>3. CASE ScoreFacts
  <2>1. /\ pc = "facts" /\ pc' \in {"done", "failed"} /\ UNCHANGED reply
        /\ work' = work \/ \E result : work' = [work EXCEPT !.trust = result]
    BY <1>3 DEF ScoreFacts, Yields
  <2>2. /\ DOMAIN work' = DOMAIN work /\ work'.evidence = work.evidence
        /\ work'.package = work.package
    BY <1>0, <2>1 DEF WorkOK, NoWork
  <2>3. WorkFits'
    BY <2>1, <2>2 DEF FitInv, WorkFits
  <2> QED
    BY <1>0, <2>1, <2>2, <2>3, StillAnswered DEF FitInv
<1>4. CASE OthersReveal
  <2>1. UNCHANGED <<pc, work, reply>>
    BY <1>4 DEF OthersReveal
  <2>2. WorkFits'
    BY <2>1 DEF FitInv, WorkFits
  <2> QED
    BY <1>0, <2>1, <2>2, StillAnswered DEF FitInv
<1> QED
  BY <1>1, <1>2, <1>3, <1>4

(* Evidence::validate refuses nothing that execute_build has composed of   *)
(* texts that fit, but for the reasons that the property names.            *)
THEOREM CommittedAccepted == AnswersFit => (PipelineSpec => []CommittedIsAccepted)
<1> SUFFICES ASSUME AnswersFit PROVE PipelineSpec => []CommittedIsAccepted
  OBVIOUS
<1>1. PipelineInit => FitInv
  BY DEF PipelineInit, FitInv, WorkFits, CommittedIsAccepted
<1>2. PInv /\ FitInv /\ [PipelineNext]_pipeline => FitInv'
  <2> SUFFICES ASSUME PInv, FitInv, [PipelineNext]_pipeline PROVE FitInv'
    OBVIOUS
  <2>0. WorkOK
    BY DEF PInv
  <2>1. CASE UNCHANGED pipeline
    <3>1. UNCHANGED <<pc, work, reply>>
      BY <2>1 DEF pipeline
    <3>2. WorkFits'
      BY <3>1 DEF FitInv, WorkFits
    <3> QED
      BY <2>0, <3>1, <3>2, StillAnswered DEF FitInv
  <2>2. CASE AcceptCommand
    BY <2>0, <2>2, AcceptedFits
  <2>3. CASE \/ ResolveTheSource \/ FindDerivation \/ InitialBuild \/ Rebuild
             \/ QueryOutputs \/ NixFails \/ Compose
    BY <2>0, <2>3, BuilderFits
  <2>4. CASE CommitEvidence \/ RevealEvidence \/ ScoreFacts \/ OthersReveal
    BY <2>4, RegistryFits
  <2> QED
    BY <2>1, <2>2, <2>3, <2>4 DEF PipelineNext
<1>3. FitInv => CommittedIsAccepted
  BY DEF FitInv
<1> QED
  BY <1>1, <1>2, <1>3, PipelineInvariance, PTL DEF PipelineSpec

-----------------------------------------------------------------------------
(* The score: how it moves with one vote.                                  *)

LEMMA Quotient ==
    ASSUME NEW a \in Nat, NEW d \in Nat \ {0}
    PROVE  /\ a \div d \in Nat
           /\ d * (a \div d) <= a /\ a < d * (a \div d) + d
OBVIOUS

LEMMA QuotientAtLeast ==
    ASSUME NEW a \in Nat, NEW d \in Nat \ {0}, NEW q \in Nat, d * q <= a
    PROVE  q <= a \div d
<1> DEFINE p == a \div d
<1>1. p \in Nat /\ a < d * p + d
  BY Quotient
<1> HIDE DEF p
<1>2. SUFFICES ASSUME p < q PROVE FALSE
  BY <1>1 DEF p
<1>3. q >= p + 1
  BY <1>1, <1>2
<1>4. d * (p + 1) <= d * q
  BY <1>1, <1>3
<1>5. d * (p + 1) = d * p + d
  BY <1>1
<1> QED
  BY <1>1, <1>4, <1>5

Weight(m) == 100 * m * (IF m < 3 THEN m ELSE 3)

LEMMA ScoreBounds ==
    ASSUME NEW m \in Nat, NEW t \in Nat, m >= 1, m <= t
    PROVE  LET d == 3 * t
               score == RoundedScore(m, t)
           IN  /\ score \in Nat /\ score <= 100
               /\ d \in Nat \ {0} /\ Weight(m) + d \div 2 \in Nat
               /\ score = (Weight(m) + d \div 2) \div d
               /\ d * score <= Weight(m) + d \div 2
<1> DEFINE d == 3 * t
           a == Weight(m) + d \div 2
           score == a \div d
<1>1. d \in Nat \ {0} /\ d \div 2 \in Nat /\ d \div 2 < d
  OBVIOUS
<1>2. Weight(m) \in Nat /\ Weight(m) <= 100 * d
  <2>1. CASE m < 3
    <3>1. m = 1 \/ m = 2
      BY <2>1
    <3> QED
      BY <3>1 DEF Weight
  <2>2. CASE ~(m < 3)
    BY <2>2 DEF Weight
  <2> QED
    BY <2>1, <2>2
<1>3. RoundedScore(m, t) = score
  BY DEF RoundedScore, Weight
<1>4. a \in Nat
  BY <1>1, <1>2
<1>5. score \in Nat /\ d * score <= a
  BY <1>1, <1>4, Quotient
<1>6. score <= 100
  <2> HIDE DEF score, d
  <2>1. d * score < 101 * d
    BY <1>1, <1>2, <1>5
  <2>2. SUFFICES ASSUME score >= 101 PROVE FALSE
    BY <1>5
  <2>3. d * score >= d * 101
    BY <1>1, <1>5, <2>2
  <2> QED
    BY <1>1, <1>5, <2>1, <2>3
<1> QED
  BY <1>1, <1>3, <1>4, <1>5, <1>6

LEMMA ScoreRises ==
    ASSUME NEW m \in Nat, NEW t \in Nat, m >= 1, m <= t
    PROVE  RoundedScore(m + 1, t + 1) >= RoundedScore(m, t)
<1> DEFINE q == RoundedScore(m, t)
           d == 3 * t
           d2 == 3 * (t + 1)
           a2 == Weight(m + 1) + d2 \div 2
<1>1. q \in Nat /\ q <= 100 /\ d * q <= Weight(m) + d \div 2
  BY ScoreBounds
<1>2. d2 \in Nat \ {0} /\ a2 \in Nat /\ RoundedScore(m + 1, t + 1) = a2 \div d2
  <2>1. m + 1 \in Nat /\ t + 1 \in Nat /\ m + 1 >= 1 /\ m + 1 <= t + 1
    OBVIOUS
  <2> QED
    BY <2>1, ScoreBounds
<1>3. Weight(m + 1) >= Weight(m) + 300 /\ Weight(m) \in Nat /\ Weight(m + 1) \in Nat
  <2>1. m = 1 \/ m = 2 \/ m >= 3
    OBVIOUS
  <2> QED
    BY <2>1 DEF Weight
<1>4. d \div 2 \in Nat /\ d2 \div 2 \in Nat /\ d2 \div 2 >= d \div 2
  OBVIOUS
<1>5. d2 * q <= d * q + 300
  <2>1. d2 * q = d * q + 3 * q
    BY <1>1
  <2> QED
    BY <1>1, <2>1, SMTT(30)
<1>6. d \in Nat
  OBVIOUS
<1> HIDE DEF q, d, d2
<1>7. d2 * q <= a2
  <2>1. d2 * q \in Nat /\ d * q \in Nat
    BY <1>1, <1>2, <1>6
  <2> QED
    BY <1>1, <1>3, <1>4, <1>5, <2>1
<1>8. q <= a2 \div d2
  BY <1>1, <1>2, <1>7, QuotientAtLeast
<1>9. a2 \div d2 \in Nat
  BY <1>2, Quotient
<1> HIDE DEF a2
<1> QED
  BY <1>1, <1>2, <1>8, <1>9 DEF q

LEMMA ScoreFalls ==
    ASSUME NEW m \in Nat, NEW t \in Nat, m >= 1, m <= t
    PROVE  RoundedScore(m, t + 1) <= RoundedScore(m, t)
<1> DEFINE q == RoundedScore(m, t + 1)
           d == 3 * t
           d2 == 3 * (t + 1)
           a == Weight(m) + d \div 2
<1>1. q \in Nat /\ d2 * q <= Weight(m) + d2 \div 2
  <2>1. t + 1 \in Nat /\ m <= t + 1
    OBVIOUS
  <2> QED
    BY <2>1, ScoreBounds
<1>2. d \in Nat \ {0} /\ a \in Nat /\ RoundedScore(m, t) = a \div d
  BY ScoreBounds
<1>3. a \div d \in Nat
  BY <1>2, Quotient
<1>4. CASE q = 0
  <2> HIDE DEF a, d
  <2> QED
    BY <1>2, <1>3, <1>4
<1>5. CASE q >= 1
  <2>1. d \div 2 \in Nat /\ d2 \div 2 \in Nat /\ d2 \div 2 <= d \div 2 + 2
    OBVIOUS
  <2>2. d2 * q = d * q + 3 * q
    BY <1>1
  <2>3. Weight(m) \in Nat
    BY DEF Weight
  <2>4. d * q <= a
    <3>1. d * q \in Nat
      BY <1>1
    <3> HIDE DEF d, d2, q
    <3> QED
      BY <1>1, <1>5, <2>1, <2>2, <2>3, <3>1
  <2>5. q <= a \div d
    <3> HIDE DEF d, a, q
    <3> QED
      BY <1>1, <1>2, <2>4, QuotientAtLeast
  <2> HIDE DEF a, d
  <2> QED
    BY <1>2, <2>5
<1> QED
  <2> HIDE DEF q
  <2>1. q = 0 \/ q >= 1
    BY <1>1
  <2> QED
    BY <1>4, <1>5, <2>1

(* The votes with another one, of a builder that had none. *)

LEMMA CountsOf ==
    ASSUME NEW V, IsFiniteSet(V), NEW x
    PROVE  /\ IsFiniteSet({vote.builder : vote \in V}) /\ IsFiniteSet(BuildersOf(V, x))
           /\ Count(V, x) \in Nat
           /\ Count(V, x) <= Cardinality({vote.builder : vote \in V})
           /\ Cardinality({vote.builder : vote \in V}) \in Nat
           /\ Count(V, x) = 0 <=> x \notin OutputSets(V)
<1> DEFINE B == {vote.builder : vote \in V}
<1>1. IsFiniteSet(B)
  <2> DEFINE f == [vote \in V |-> vote.builder]
  <2>1. f \in Surjection(V, B)
    BY DEF Surjection
  <2> HIDE DEF f, B
  <2> QED
    BY <2>1, FS_Surjection
<1>2. BuildersOf(V, x) \subseteq B
  BY DEF BuildersOf
<1> HIDE DEF B
<1>3. /\ IsFiniteSet(BuildersOf(V, x)) /\ Cardinality(B) \in Nat
      /\ Count(V, x) \in Nat /\ Count(V, x) <= Cardinality(B)
  BY <1>1, <1>2, FS_Subset, FS_CardinalityType DEF Count
<1>4. Count(V, x) = 0 <=> BuildersOf(V, x) = {}
  BY <1>3, FS_EmptySet DEF Count
<1>5. BuildersOf(V, x) = {} <=> x \notin OutputSets(V)
  BY DEF BuildersOf, OutputSets
<1> QED
  BY <1>1, <1>3, <1>4, <1>5 DEF B

LEMMA VoteAdded ==
    ASSUME NEW V, IsFiniteSet(V), NEW w, w.builder \notin {vote.builder : vote \in V}
    PROVE  LET U == V \cup {w} IN
           /\ IsFiniteSet(U)
           /\ OutputSets(U) = OutputSets(V) \cup {w.outputs}
           /\ Count(U, w.outputs) = Count(V, w.outputs) + 1
           /\ \A x : x # w.outputs => Count(U, x) = Count(V, x)
           /\ Cardinality({vote.builder : vote \in U}) = Cardinality({vote.builder : vote \in V}) + 1
<1> DEFINE U == V \cup {w}
           B == {vote.builder : vote \in V}
<1>1. IsFiniteSet(U)
  BY FS_AddElement
<1>2. OutputSets(U) = OutputSets(V) \cup {w.outputs}
  BY DEF OutputSets
<1>3. Count(U, w.outputs) = Count(V, w.outputs) + 1
  <2>1. BuildersOf(U, w.outputs) = BuildersOf(V, w.outputs) \cup {w.builder}
    BY DEF BuildersOf
  <2>2. w.builder \notin BuildersOf(V, w.outputs)
    BY DEF BuildersOf
  <2>3. IsFiniteSet(BuildersOf(V, w.outputs))
    BY CountsOf
  <2> QED
    BY <2>1, <2>2, <2>3, FS_AddElement DEF Count
<1>4. ASSUME NEW x, x # w.outputs PROVE Count(U, x) = Count(V, x)
  <2>1. BuildersOf(U, x) = BuildersOf(V, x)
    BY <1>4 DEF BuildersOf
  <2> QED
    BY <2>1 DEF Count
<1>5. Cardinality({vote.builder : vote \in U}) = Cardinality(B) + 1
  <2>1. {vote.builder : vote \in U} = B \cup {w.builder}
    OBVIOUS
  <2>2. IsFiniteSet(B)
    BY CountsOf
  <2>3. w.builder \notin B
    OBVIOUS
  <2> HIDE DEF B, U
  <2> QED
    BY <2>1, <2>2, <2>3, FS_AddElement
<1> QED
  BY <1>1, <1>2, <1>3, <1>4, <1>5

(* An only leader is the consensus, with its count. *)
LEMMA LeaderIsConsensus ==
    ASSUME NEW V, NEW t, NEW v, LeadingSets(V) = {v}, V # {}
    PROVE  Score(V, t) = Consensus(v, Count(V, v), t)
<1>1. Cardinality({v}) = 1
  BY FS_Singleton
<1>2. (CHOOSE w \in {v} : TRUE) = v
  OBVIOUS
<1> QED
  BY <1>1, <1>2 DEF Score

LEMMA ConsensusLeads ==
    ASSUME NEW V, IsFiniteSet(V), NEW t, Score(V, t).consensus # None
    PROVE  \E v : /\ V # {} /\ LeadingSets(V) = {v} /\ v \in OutputSets(V)
                  /\ \A x \in OutputSets(V) \ {v} : Count(V, x) < Count(V, v)
<1>1. V # {} /\ Cardinality(LeadingSets(V)) = 1
  BY DEF Score, NoConsensus
<1>2. IsFiniteSet(LeadingSets(V))
  <2> DEFINE f == [vote \in V |-> vote.outputs]
  <2>1. f \in Surjection(V, OutputSets(V))
    BY DEF Surjection, OutputSets
  <2> HIDE DEF f
  <2>2. IsFiniteSet(OutputSets(V))
    BY <2>1, FS_Surjection
  <2>3. LeadingSets(V) \subseteq OutputSets(V)
    BY DEF LeadingSets
  <2> QED
    BY <2>2, <2>3, FS_Subset
<1>3. PICK v : LeadingSets(V) = {v}
  BY <1>1, <1>2, FS_Singleton
<1>4. v \in OutputSets(V) /\ \A x \in OutputSets(V) : Count(V, x) <= Count(V, v)
  BY <1>3 DEF LeadingSets
<1>5. ASSUME NEW x \in OutputSets(V) \ {v} PROVE Count(V, x) < Count(V, v)
  <2>1. PICK y \in OutputSets(V) : ~(Count(V, y) <= Count(V, x))
    BY <1>3 DEF LeadingSets
  <2>2. Count(V, x) \in Nat /\ Count(V, y) \in Nat /\ Count(V, v) \in Nat
    BY CountsOf
  <2>3. Count(V, y) <= Count(V, v)
    BY <1>4
  <2> QED
    BY <2>1, <2>2, <2>3
<1> QED
  BY <1>1, <1>3, <1>4, <1>5

Total(V) == Cardinality({vote.builder : vote \in V})

LEMMA ScoreFollowsVote ==
    ASSUME NEW V, IsFiniteSet(V), NEW w, w.builder \notin {vote.builder : vote \in V},
           Score(V, Total(V)).consensus # None
    PROVE  LET others == Score(V, Total(V))
               all == Score(V \cup {w}, Total(V \cup {w}))
           IN  IF w.outputs = others.consensus
               THEN all.consensus = others.consensus /\ all.score >= others.score
               ELSE all.consensus \in {others.consensus, None} /\ all.score <= others.score
<1> DEFINE U == V \cup {w}
           others == Score(V, Total(V))
           all == Score(U, Total(U))
<1>1. PICK v : /\ V # {} /\ LeadingSets(V) = {v} /\ v \in OutputSets(V)
               /\ \A x \in OutputSets(V) \ {v} : Count(V, x) < Count(V, v)
  BY ConsensusLeads
<1> DEFINE m == Count(V, v)
           t == Total(V)
<1>2. /\ m \in Nat /\ t \in Nat /\ m >= 1 /\ m <= t
      /\ \A x : /\ Count(V, x) \in Nat
                /\ Count(V, x) = 0 <=> x \notin OutputSets(V)
  <2>1. /\ m \in Nat /\ t \in Nat /\ m <= t
        /\ \A x : /\ Count(V, x) \in Nat
                  /\ Count(V, x) = 0 <=> x \notin OutputSets(V)
    BY CountsOf DEF Total
  <2>2. m # 0
    BY <1>1, <2>1
  <2> QED
    BY <2>1, <2>2
<1>3. /\ OutputSets(U) = OutputSets(V) \cup {w.outputs}
      /\ Count(U, w.outputs) = Count(V, w.outputs) + 1
      /\ \A x : x # w.outputs => Count(U, x) = Count(V, x)
      /\ Total(U) = t + 1
  BY VoteAdded DEF Total
<1>4. others = Consensus(v, m, t)
  BY <1>1, LeaderIsConsensus
<1>5. others.consensus = v /\ others.score = RoundedScore(m, t)
  BY <1>4 DEF Consensus
<1>6. U # {}
  OBVIOUS
<1> HIDE DEF U, m, t, others
<1>7. CASE w.outputs = v
  <2>1. /\ OutputSets(U) = OutputSets(V) /\ Count(U, v) = m + 1
        /\ \A x \in OutputSets(U) \ {v} : Count(U, x) < m + 1
    BY <1>1, <1>2, <1>3, <1>7 DEF m
  <2>2. LeadingSets(U) = {v}
    <3>1. v \in LeadingSets(U)
      <4>1. \A x \in OutputSets(U) : Count(U, x) <= Count(U, v)
        <5> SUFFICES ASSUME NEW x \in OutputSets(U) PROVE Count(U, x) <= Count(U, v)
          OBVIOUS
        <5>1. CASE x = v
          BY <1>2, <2>1, <5>1
        <5>2. CASE x # v
          BY <1>2, <1>3, <1>7, <2>1, <5>2
        <5> QED
          BY <5>1, <5>2
      <4> QED
        BY <1>1, <2>1, <4>1 DEF LeadingSets
    <3>2. ASSUME NEW x \in LeadingSets(U), x # v PROVE FALSE
      <4>1. x \in OutputSets(U) /\ Count(U, v) <= Count(U, x)
        BY <1>1, <2>1 DEF LeadingSets
      <4>2. Count(U, x) < m + 1 /\ Count(U, x) = Count(V, x)
        BY <1>3, <1>7, <2>1, <3>2, <4>1
      <4> QED
        BY <1>2, <2>1, <4>1, <4>2
    <3> QED
      BY <3>1, <3>2
  <2>3. all = Consensus(v, m + 1, t + 1)
    BY <1>3, <1>6, <2>1, <2>2, LeaderIsConsensus
  <2>4. all.consensus = v /\ all.score = RoundedScore(m + 1, t + 1)
    BY <2>3 DEF Consensus
  <2>5. RoundedScore(m + 1, t + 1) >= RoundedScore(m, t)
    BY <1>2, ScoreRises
  <2> HIDE DEF all
  <2> QED
    BY <1>5, <1>7, <2>4, <2>5 DEF all, others, U
<1>8. CASE w.outputs # v
  <2>1. Count(U, v) = m
    BY <1>3, <1>8 DEF m
  <2>2. \A x \in OutputSets(U) : Count(U, x) <= m
    <3> SUFFICES ASSUME NEW x \in OutputSets(U) PROVE Count(U, x) <= m
      OBVIOUS
    <3>1. CASE x = v
      BY <1>2, <2>1, <3>1
    <3>2. CASE x = w.outputs
      <4>1. Count(V, x) < m
        <5>1. CASE x \in OutputSets(V)
          BY <1>1, <1>8, <3>2, <5>1 DEF m
        <5>2. CASE x \notin OutputSets(V)
          BY <1>2, <5>2
        <5> QED
          BY <5>1, <5>2
      <4> QED
        BY <1>2, <1>3, <3>2, <4>1
    <3>3. CASE x # v /\ x # w.outputs
      <4>1. x \in OutputSets(V) /\ Count(U, x) = Count(V, x)
        BY <1>3, <3>3
      <4>2. Count(V, x) < m
        BY <1>1, <3>3, <4>1 DEF m
      <4> QED
        BY <1>2, <4>1, <4>2
    <3> QED
      BY <3>1, <3>2, <3>3
  <2>3. v \in LeadingSets(U)
    BY <1>1, <1>3, <2>1, <2>2 DEF LeadingSets
  <2>4. CASE Cardinality(LeadingSets(U)) # 1
    <3>1. all = NoConsensus("no_unique_consensus", Total(U))
      BY <1>6, <2>4 DEF Score
    <3>2. all.consensus = None /\ all.score = 0
      BY <3>1 DEF NoConsensus
    <3>3. RoundedScore(m, t) \in Nat
      BY <1>2, ScoreBounds
    <3> HIDE DEF all
    <3> QED
      BY <1>5, <1>8, <3>2, <3>3 DEF all, others, U
  <2>5. CASE LeadingSets(U) = {v}
    <3>1. all = Consensus(v, m, t + 1)
      BY <1>3, <1>6, <2>1, <2>5, LeaderIsConsensus
    <3>2. all.consensus = v /\ all.score = RoundedScore(m, t + 1)
      BY <3>1 DEF Consensus
    <3>3. RoundedScore(m, t + 1) <= RoundedScore(m, t)
      BY <1>2, ScoreFalls
    <3> HIDE DEF all
    <3> QED
      BY <1>5, <1>8, <3>2, <3>3 DEF all, others, U
  <2>6. Cardinality(LeadingSets(U)) = 1 => LeadingSets(U) = {v}
    <3>1. IsFiniteSet(U)
      BY VoteAdded DEF U
    <3>2. IsFiniteSet(OutputSets(U))
      <4> DEFINE f == [vote \in U |-> vote.outputs]
      <4>1. f \in Surjection(U, OutputSets(U))
        BY DEF Surjection, OutputSets
      <4> HIDE DEF f
      <4> QED
        BY <3>1, <4>1, FS_Surjection
    <3>3. IsFiniteSet(LeadingSets(U))
      BY <3>2, FS_Subset DEF LeadingSets
    <3> QED
      BY <2>3, <3>3, FS_Singleton
  <2> QED
    BY <2>4, <2>5, <2>6
<1> QED
  BY <1>7, <1>8

LEMMA RemoveAtEntries ==
    ASSUME NEW S, NEW s \in Seq(S), NEW i \in DOMAIN s
    PROVE  LET t == RemoveAt(s, i) IN
           /\ \A j \in DOMAIN t : \E k \in DOMAIN s \ {i} : t[j] = s[k]
           /\ \A k \in DOMAIN s \ {i} : \E j \in DOMAIN t : t[j] = s[k]
<1> DEFINE n == Len(s)
           a == SubSeq(s, 1, i - 1)
           b == SubSeq(s, i + 1, n)
           t == RemoveAt(s, i)
<1>1. n \in Nat /\ DOMAIN s = 1 .. n /\ i \in 1 .. n
  OBVIOUS
<1>2. a \in Seq(S) /\ Len(a) = i - 1 /\ \A j \in 1 .. i - 1 : a[j] = s[j]
  BY <1>1
<1>3. b \in Seq(S) /\ Len(b) = n - i /\ \A j \in 1 .. n - i : b[j] = s[i + j]
  BY <1>1
<1>4. t = a \o b
  BY DEF RemoveAt
<1> HIDE DEF a, b, t, n
<1>5. /\ DOMAIN t = 1 .. n - 1
      /\ \A j \in 1 .. n - 1 : t[j] = IF j < i THEN s[j] ELSE s[j + 1]
  BY <1>1, <1>2, <1>3, <1>4, SMTT(30)
<1>6. ASSUME NEW j \in DOMAIN t PROVE \E k \in DOMAIN s \ {i} : t[j] = s[k]
  <2>1. CASE j < i
    BY <1>1, <1>5, <2>1
  <2>2. CASE ~(j < i)
    <3>1. j + 1 \in DOMAIN s \ {i} /\ t[j] = s[j + 1]
      BY <1>1, <1>5, <2>2
    <3> QED
      BY <3>1
  <2> QED
    BY <2>1, <2>2
<1>7. ASSUME NEW k \in DOMAIN s \ {i} PROVE \E j \in DOMAIN t : t[j] = s[k]
  <2>1. CASE k < i
    BY <1>1, <1>5, <2>1
  <2>2. CASE ~(k < i)
    <3>1. k - 1 \in DOMAIN t /\ t[k - 1] = s[k]
      BY <1>1, <1>5, <2>2
    <3> QED
      BY <3>1
  <2> QED
    BY <2>1, <2>2
<1> QED
  BY <1>6, <1>7 DEF t

(* The commitments of a round are of different builders (see commit). *)
BuildersDiffer == \A i, j \in DOMAIN commitments :
                    i # j => commitments[i].builder_id # commitments[j].builder_id

LEMMA BuildersStillDiffer ==
    ASSUME PInv, BuildersDiffer, [PipelineNext]_pipeline
    PROVE  BuildersDiffer'
<1>1. CASE UNCHANGED commitments
  BY <1>1 DEF BuildersDiffer
<1>2. CASE CommitEvidence \/ OthersReveal
  <2>1. \/ UNCHANGED commitments
        \/ \E e, id : /\ CommittedBy(e.builder_id) = {}
                      /\ commitments' = Append(commitments, Commitment(e, id))
    <3>1. CASE CommitEvidence
      BY <3>1 DEF CommitEvidence, PInv, WorkOK
    <3>2. CASE OthersReveal
      BY <3>2 DEF OthersReveal
    <3> QED
      BY <1>2, <3>1, <3>2
  <2>2. CASE \E e, id : /\ CommittedBy(e.builder_id) = {}
                        /\ commitments' = Append(commitments, Commitment(e, id))
    <3>1. PICK e, id : /\ CommittedBy(e.builder_id) = {}
                       /\ commitments' = Append(commitments, Commitment(e, id))
      BY <2>2
    <3> DEFINE S == {commitments[i] : i \in DOMAIN commitments}
               k == Len(commitments) + 1
    <3>2. commitments \in Seq(S)
      BY DEF PInv, CommitmentsOK
    <3> HIDE DEF S
    <3>3. /\ DOMAIN commitments' = DOMAIN commitments \cup {k}
          /\ k \notin DOMAIN commitments
          /\ \A i \in DOMAIN commitments : commitments'[i] = commitments[i]
          /\ commitments'[k] = Commitment(e, id)
      BY <3>1, <3>2, EntryAppended
    <3>4. Commitment(e, id).builder_id = e.builder_id
      BY DEF Commitment
    <3>5. \A i \in DOMAIN commitments : commitments[i].builder_id # e.builder_id
      BY <3>1 DEF CommittedBy
    <3> HIDE DEF k
    <3> QED
      BY <3>3, <3>4, <3>5 DEF BuildersDiffer
  <2> QED
    BY <1>1, <2>1, <2>2
<1>3. CASE RevealEvidence
  <2>1. PICK k \in DOMAIN commitments :
          \E id : commitments' = [commitments EXCEPT ![k].evidence_id = id]
    BY <1>3 DEF RevealEvidence, CommittedBy
  <2>2. PICK id : commitments' = [commitments EXCEPT ![k].evidence_id = id]
    BY <2>1
  <2>3. commitments[k] = Commitment(commitments[k].digest, commitments[k].evidence_id)
    BY DEF PInv, CommitmentsOK, CommitmentOK
  <2>4. [commitments[k] EXCEPT !.evidence_id = id].builder_id = commitments[k].builder_id
    BY <2>3 DEF Commitment
  <2>5. /\ DOMAIN commitments' = DOMAIN commitments
        /\ \A i \in DOMAIN commitments : commitments'[i].builder_id = commitments[i].builder_id
    BY <2>2, <2>4
  <2> QED
    BY <2>5 DEF BuildersDiffer
<1> QED
  BY <1>1, <1>2, <1>3
     DEF PipelineNext, pipeline, AcceptCommand, ResolveTheSource, FindDerivation, InitialBuild,
         Rebuild, QueryOutputs, NixFails, Compose, ScoreFacts, Yields

(* The facts of the round: each of another builder, and valid. *)
LEMMA FactsOfBuilders ==
    ASSUME PInv, BuildersDiffer
    PROVE  \E n \in Nat :
             /\ DOMAIN RoundFacts = 1 .. n /\ RoundFacts = [i \in 1 .. n |-> RoundFacts[i]]
             /\ \A i \in 1 .. n : BuildClaims(RoundFacts[i]) # {}
             /\ \A i, j \in 1 .. n : i # j => RoundFacts[i].builder_id # RoundFacts[j].builder_id
<1> DEFINE order == SortedBy(EvidenceIds, LAMBDA id : id)
           n == Cardinality(EvidenceIds)
<1>1. EvidenceIds \in SUBSET Nat /\ IsFiniteSet(EvidenceIds)
  BY RevealedAreStored
<1>2. /\ n \in Nat /\ DOMAIN order = 1 .. n
      /\ \A i \in 1 .. n : order[i] \in EvidenceIds
      /\ \A i, j \in 1 .. n : order[i] = order[j] => i = j
  BY <1>1, SortedMembers, FS_CardinalityType
<1>3. RoundFacts = [i \in DOMAIN order |-> Hydrate(tables, order[i])]
  BY DEF RoundFacts, HydrateAll, EvidenceIds
<1> HIDE DEF order, n
<1>4. /\ DOMAIN RoundFacts = 1 .. n /\ RoundFacts = [i \in 1 .. n |-> RoundFacts[i]]
      /\ \A i \in 1 .. n : RoundFacts[i] = Hydrate(tables, order[i])
  BY <1>2, <1>3
<1>5. ASSUME NEW id \in EvidenceIds
      PROVE  \E k \in DOMAIN commitments :
               /\ commitments[k].evidence_id = id
               /\ commitments[k].builder_id = Hydrate(tables, id).builder_id
               /\ BuildClaims(Hydrate(tables, id)) # {}
  <2>1. PICK k \in DOMAIN commitments : commitments[k].evidence_id = id /\ id # None
    BY DEF EvidenceIds
  <2> DEFINE c == commitments[k]
  <2>2. /\ c = Commitment(c.digest, id) /\ IsEvidence(c.digest) /\ Valid(c.digest)
        /\ Stored(tables, id, c.digest)
    BY <2>1 DEF PInv, CommitmentsOK, CommitmentOK
  <2>3. Hydrate(tables, id) = c.digest
    BY <2>2, HydrateStored DEF Stored
  <2>4. BuildClaims(c.digest) # {}
    BY <2>2, OneBuild
  <2>5. c.builder_id = c.digest.builder_id
    BY <2>2 DEF Commitment
  <2> HIDE DEF c
  <2> QED
    BY <2>1, <2>3, <2>4, <2>5 DEF c
<1>6. ASSUME NEW i \in 1 .. n PROVE BuildClaims(RoundFacts[i]) # {}
  BY <1>2, <1>4, <1>5
<1>7. ASSUME NEW i \in 1 .. n, NEW j \in 1 .. n, i # j
      PROVE  RoundFacts[i].builder_id # RoundFacts[j].builder_id
  <2>1. order[i] # order[j] /\ order[i] \in EvidenceIds /\ order[j] \in EvidenceIds
    BY <1>2, <1>7
  <2>2. PICK k \in DOMAIN commitments : /\ commitments[k].evidence_id = order[i]
                                        /\ commitments[k].builder_id = RoundFacts[i].builder_id
    BY <1>4, <1>5, <2>1
  <2>3. PICK l \in DOMAIN commitments : /\ commitments[l].evidence_id = order[j]
                                        /\ commitments[l].builder_id = RoundFacts[j].builder_id
    BY <1>4, <1>5, <2>1
  <2> QED
    BY <2>1, <2>2, <2>3 DEF BuildersDiffer
<1> QED
  BY <1>2, <1>4, <1>6, <1>7

VoteOf(fact) == [outputs |-> OutputSet(fact), builder |-> fact.builder_id]

LEMMA TrustFollows ==
    ASSUME PInv, BuildersDiffer
    PROVE  TrustFollowsEvidence
<1> DEFINE facts == RoundFacts
<1>1. PICK n \in Nat :
        /\ DOMAIN facts = 1 .. n /\ facts = [i \in 1 .. n |-> facts[i]]
        /\ \A i \in 1 .. n : BuildClaims(facts[i]) # {}
        /\ \A i, j \in 1 .. n : i # j => facts[i].builder_id # facts[j].builder_id
  BY FactsOfBuilders
<1> HIDE DEF facts
<1>2. ASSUME NEW i \in DOMAIN facts, CalculateTrust(RemoveAt(facts, i)).consensus # None
      PROVE  LET all == CalculateTrust(facts)
                 others == CalculateTrust(RemoveAt(facts, i))
             IN  IF OutputSet(facts[i]) = others.consensus
                 THEN all.consensus = others.consensus /\ all.score >= others.score
                 ELSE all.consensus \in {others.consensus, None} /\ all.score <= others.score
  <2> DEFINE V == {VoteOf(facts[k]) : k \in 1 .. n \ {i}}
             w == VoteOf(facts[i])
             rest == RemoveAt(facts, i)
  <2>1. /\ \A j \in DOMAIN rest : \E k \in 1 .. n \ {i} : rest[j] = facts[k]
        /\ \A k \in 1 .. n \ {i} : \E j \in DOMAIN rest : rest[j] = facts[k]
    <3> DEFINE S == {facts[k] : k \in 1 .. n}
    <3>1. \A k \in 1 .. n : facts[k] \in S
      OBVIOUS
    <3> HIDE DEF S
    <3>2. facts \in [1 .. n -> S]
      BY <1>1, <3>1
    <3>3. facts \in Seq(S)
      BY <3>2
    <3>4. DOMAIN facts = 1 .. n
      BY <1>1
    <3>5. /\ \A j \in DOMAIN rest : \E k \in DOMAIN facts \ {i} : rest[j] = facts[k]
          /\ \A k \in DOMAIN facts \ {i} : \E j \in DOMAIN rest : rest[j] = facts[k]
      BY <3>3, RemoveAtEntries
    <3> HIDE DEF rest
    <3> QED
      BY <3>4, <3>5
  <2> HIDE DEF rest
  <2>2. Votes(rest) = V
    <3>1. \A j \in DOMAIN rest : BuildClaims(rest[j]) # {}
      BY <1>1, <2>1
    <3>2. Votes(rest) = {VoteOf(rest[j]) : j \in DOMAIN rest}
      BY <3>1 DEF Votes, VoteOf
    <3> QED
      BY <2>1, <3>2
  <2>3. Votes(facts) = V \cup {w}
    <3>1. Votes(facts) = {VoteOf(facts[k]) : k \in 1 .. n}
      BY <1>1 DEF Votes, VoteOf
    <3>2. i \in 1 .. n
      BY <1>1
    <3> QED
      BY <3>1, <3>2
  <2>4. IsFiniteSet(V)
    <3> DEFINE D == 1 .. n \ {i}
               f == [k \in D |-> VoteOf(facts[k])]
    <3>1. IsFiniteSet(D)
      BY UpTo, FS_Subset
    <3>2. f \in Surjection(D, V)
      BY DEF Surjection
    <3> HIDE DEF D, f, V
    <3> QED
      BY <3>1, <3>2, FS_Surjection
  <2>5. w.builder \notin {vote.builder : vote \in V}
    <3>1. \A k \in 1 .. n : VoteOf(facts[k]).builder = facts[k].builder_id
      BY DEF VoteOf
    <3> QED
      BY <1>1, <3>1
  <2>6. w.outputs = OutputSet(facts[i])
    BY DEF VoteOf
  <2> HIDE DEF V, w
  <2>7. /\ CalculateTrust(rest) = Score(V, Total(V))
        /\ CalculateTrust(facts) = Score(V \cup {w}, Total(V \cup {w}))
    BY <2>2, <2>3 DEF CalculateTrust, Total
  <2>8. Score(V, Total(V)).consensus # None
    BY <1>2, <2>7 DEF rest
  <2>9. LET others == Score(V, Total(V))
            all == Score(V \cup {w}, Total(V \cup {w}))
        IN  IF w.outputs = others.consensus
            THEN all.consensus = others.consensus /\ all.score >= others.score
            ELSE all.consensus \in {others.consensus, None} /\ all.score <= others.score
    BY <2>4, <2>5, <2>8, ScoreFollowsVote
  <2> QED
    BY <2>6, <2>7, <2>9 DEF rest
<1> QED
  BY <1>2 DEF TrustFollowsEvidence, facts

(* calculate_trust: one more evidence of the round moves the score the way *)
(* it agrees or disagrees with the consensus of the others.                *)
THEOREM TrustFollowsFacts == PipelineSpec => []TrustFollowsEvidence
<1>1. PipelineInit => BuildersDiffer
  BY DEF PipelineInit, BuildersDiffer
<1>2. PInv /\ BuildersDiffer /\ [PipelineNext]_pipeline => BuildersDiffer'
  BY BuildersStillDiffer
<1>3. PInv /\ BuildersDiffer => TrustFollowsEvidence
  BY TrustFollows
<1> QED
  BY <1>1, <1>2, <1>3, PipelineInvariance, PTL DEF PipelineSpec

=============================================================================
