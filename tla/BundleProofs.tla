---------------------------- MODULE BundleProofs ----------------------------
(***************************************************************************)
(* Theorems about the bundle verifiers and builders, for every choice of   *)
(* traces, datasets, callers and lists, and any amount of damage.          *)
(*                                                                         *)
(* The agreement of the verifiers is a fact about documents, not about how *)
(* they came to be: it is proved for every document first.  What a builder *)
(* promises needs the invariant Once, which relates the two builders, the  *)
(* bundle and the values they were derived from.                           *)
(***************************************************************************)
EXTENDS BundleBuilder, SetFacts

Entries == {"uuid", "compact", "text", "number", "null"}
DocumentFields == {"vrl_version", "bundle_id", "missing", "null", "sparse", "ai_identity",
                   "computation", "proof", "data_commitments", "timestamp_authority",
                   "depends_on"}
BuilderFields == DocumentFields \ {"missing", "null", "sparse"}
ProofFields == {"proof_system", "content", "proof_hash"}
IdentityFields == {"ai_id", "execution_environment", "provider_signature"}

\* A record with these fields.
HasFields(r, F) == r = [f \in F |-> r[f]]

\* The commitments of a document: either SDK's, or with another hash, or without
\* one of their keys.
Named == Datasets \cup {NoDataset}
CommitmentHashes == {compute_commitment_hash(y) : y \in Named} \cup
                    {computeCommitmentHash(y) : y \in Datasets} \cup {Missing}
Commitments == {[dataset_id |-> x, commitment_hash |-> h] : x \in Named, h \in CommitmentHashes}

ComputationOK(c) == HasFields(c, ComputationFields) /\ \A f \in ComputationFields : c[f] # None
ProofOK(p) == HasFields(p, ProofFields) /\ p.proof_system \in ValidSystems \cup {"unknown"}
OptionalOK(d) ==
    /\ d.data_commitments \in Seq(Commitments) /\ Len(d.data_commitments) <= MaxCommitments
    /\ d.timestamp_authority \in TsaKinds \cup {"absent"}
    /\ d.depends_on \in Seq(Entries)

DocumentOK(d) ==
    /\ HasFields(d, DocumentFields)
    /\ d.vrl_version \in {"1.0", "2.0"} /\ d.bundle_id # None
    /\ d.missing \subseteq {"vrl_version", "bundle_id", "computation"}
    /\ d.null \subseteq {"bundle_id", "issued_at"} /\ d.sparse \in BOOLEAN
    /\ HasFields(d.ai_identity, IdentityFields)
    /\ ComputationOK(d.computation) /\ ProofOK(d.proof) /\ OptionalOK(d)

BuilderOK ==
    /\ HasFields(builder, BuilderFields)
    /\ builder.vrl_version \in {"1.0", "2.0"}
    /\ builder.ai_identity \in {NoRecord, AIIdentityBuilder_build}
    /\ builder.computation = NoRecord \/ ComputationOK(builder.computation)
    /\ builder.proof = NoRecord \/ ProofOK(builder.proof)
    /\ OptionalOK(builder) /\ builder.timestamp_authority \notin {"keyless", "extended"}

\* The builders, the bundle and the documents have their fields, and a shared
\* list is the same list.
Shaped ==
    /\ lang \in Languages /\ caller \in Callers \cup {{}}
    /\ HasFields(comp, ComputationFields)
    /\ BuilderOK
    /\ bundle = NoRecord \/ DocumentOK(bundle)
    /\ shared \in BOOLEAN /\ rewritten \in BOOLEAN /\ edits \in 0 .. MaxEdits
    /\ shared => bundle # NoRecord /\ bundle.data_commitments = builder.data_commitments
    /\ \/ doc = NoRecord /\ origin = NoRecord /\ edits = 0
       \/ DocumentOK(doc) /\ DocumentOK(origin)

\* The computation's fields as a caller who sets each once leaves them.
ComputationOnce ==
    /\ comp.circuit \in {None, <<"name", 1>>}
    /\ comp.circuit_hash \in {None, _compute_mock_circuit_hash(<<"name", 1>>)}
    /\ comp.input_hash \in {None, compute_input_hash(1)}
    /\ comp.output_hash \in {None, compute_output_hash(1)}
    /\ comp.trace_hash \in {None} \cup {compute_trace_hash(t) : t \in TraceValues}
    /\ comp.integrity_hash # None =>
          /\ None \notin {comp.input_hash, comp.output_hash, comp.trace_hash}
          /\ comp.integrity_hash =
                compute_integrity_hash(comp.input_hash, comp.output_hash, comp.trace_hash)

\* What the bundle's builder took from it, and what the bundle took from there.
BuilderOnce ==
    /\ builder.vrl_version = "1.0" /\ builder.computation \in {NoRecord, comp}
    /\ builder.proof # NoRecord => /\ None \notin {comp.circuit_hash, comp.trace_hash}
                                   /\ builder.proof = ProofBuilder_build(1)
    /\ builder.bundle_id # None => /\ builder.computation = comp
                                   /\ lang = "python" => builder.bundle_id =
                                         compute_bundle_id_from_integrity(comp.integrity_hash)
BundleOnce ==
    bundle # NoRecord =>
        /\ bundle.vrl_version = "1.0" /\ bundle.missing = {} /\ bundle.null = {}
        /\ bundle.sparse = FALSE
        /\ bundle.ai_identity = AIIdentityBuilder_build
        /\ bundle.computation = comp /\ builder.computation = comp
        /\ bundle.proof = builder.proof /\ builder.proof # NoRecord
        /\ bundle.bundle_id = builder.bundle_id /\ builder.bundle_id # None
        /\ bundle.timestamp_authority \notin {"keyless", "extended"}

PythonCommitments(s) ==
    \A i \in DOMAIN s : /\ s[i].commitment_hash = compute_commitment_hash(s[i].dataset_id)
                        /\ s[i].dataset_id # NoDataset

Once ==
    /\ ~rewritten => ComputationOnce /\ BuilderOnce /\ BundleOnce
    /\ lang = "python" => /\ PythonCommitments(builder.data_commitments)
                          /\ bundle # NoRecord => PythonCommitments(bundle.data_commitments)

\* The fields a change of which has to be carried through to others.
BoundFields == {"bundle_id", "content", "proof_system", "proof_hash"} \cup ComputationFields
BoundField(d, k) == CASE k = "bundle_id" -> d.bundle_id
                      [] k \in {"content", "proof_system", "proof_hash"} -> d.proof[k]
                      [] k \in ComputationFields -> d.computation[k]
Changed == {k \in BoundFields : BoundField(doc, k) # BoundField(origin, k)}
FewChanged == ~Building => Cardinality(Changed) <= edits

-----------------------------------------------------------------------------
(***************************************************************************)
(* The verdict of the Python verifiers.                                    *)
(***************************************************************************)

\* Min of a set of naturals is its least member.
LEMMA MinIsLeast ==
    ASSUME NEW S \in SUBSET Nat, S # {}
    PROVE  Min(S) \in S /\ \A k \in S : Min(S) <= k
<1>1. \E m \in S : \A k \in S : m <= k
  BY LeastElement
<1> QED
  BY <1>1 DEF Min

\* The steps that fail, of the eight that are required and the two that are not.
LEMMA FailedOfEight ==
    ASSUME NEW p, Len(p) = 8
    PROVE  LET F == FailedSteps(p)
           IN  /\ F \subseteq 1 .. 8
               /\ (1 \in F <=> ~p[1]) /\ (2 \in F <=> ~p[2]) /\ (3 \in F <=> ~p[3])
               /\ (4 \in F <=> ~p[4]) /\ (5 \in F <=> ~p[5]) /\ (6 \in F <=> ~p[6])
               /\ (7 \in F <=> ~p[7]) /\ (8 \in F <=> ~p[8])
               /\ F = {} <=> p[1] /\ p[2] /\ p[3] /\ p[4] /\ p[5] /\ p[6] /\ p[7] /\ p[8]
<1> DEFINE F == FailedSteps(p)
<1>2. F = {i \in 1 .. 8 : ~p[i]}
  BY DEF FailedSteps
<1>3. 1 .. 8 = {1, 2, 3, 4, 5, 6, 7, 8}
  OBVIOUS
<1> HIDE DEF F
<1>4. /\ F \subseteq {1, 2, 3, 4, 5, 6, 7, 8}
      /\ (1 \in F <=> ~p[1]) /\ (2 \in F <=> ~p[2]) /\ (3 \in F <=> ~p[3])
      /\ (4 \in F <=> ~p[4]) /\ (5 \in F <=> ~p[5]) /\ (6 \in F <=> ~p[6])
      /\ (7 \in F <=> ~p[7]) /\ (8 \in F <=> ~p[8])
  BY <1>2, <1>3, Zenon
<1>5. F = {} <=> p[1] /\ p[2] /\ p[3] /\ p[4] /\ p[5] /\ p[6] /\ p[7] /\ p[8]
  BY <1>4, Zenon
<1> QED
  BY <1>3, <1>4, <1>5, Zenon DEF F

\* The same of six, for the steps 3..8 of the TypeScript verifier.
LEMMA FailedOfSix ==
    ASSUME NEW p, Len(p) = 6
    PROVE  LET F == FailedSteps(p)
           IN  /\ F \subseteq 1 .. 6
               /\ F = {} <=> p[1] /\ p[2] /\ p[3] /\ p[4] /\ p[5] /\ p[6]
<1> DEFINE F == FailedSteps(p)
<1>1. F = {i \in 1 .. 6 : ~p[i]}
  BY DEF FailedSteps
<1>2. 1 .. 6 = {1, 2, 3, 4, 5, 6}
  OBVIOUS
<1> HIDE DEF F
<1>3. /\ F \subseteq {1, 2, 3, 4, 5, 6}
      /\ (1 \in F <=> ~p[1]) /\ (2 \in F <=> ~p[2]) /\ (3 \in F <=> ~p[3])
      /\ (4 \in F <=> ~p[4]) /\ (5 \in F <=> ~p[5]) /\ (6 \in F <=> ~p[6])
  BY <1>1, <1>2, Zenon
<1>4. F = {} <=> p[1] /\ p[2] /\ p[3] /\ p[4] /\ p[5] /\ p[6]
  BY <1>3, Zenon
<1> QED
  BY <1>2, <1>3, <1>4, Zenon DEF F

\* The same of two.
LEMMA FailedOfTwo ==
    ASSUME NEW p, Len(p) = 2
    PROVE  LET F == FailedSteps(p)
           IN  F \subseteq 1 .. 2 /\ (F = {} <=> p[1] /\ p[2])
<1> DEFINE F == FailedSteps(p)
<1>1. F = {i \in 1 .. 2 : ~p[i]}
  BY DEF FailedSteps
<1>2. 1 .. 2 = {1, 2}
  OBVIOUS
<1> HIDE DEF F
<1>3. F \subseteq {1, 2} /\ (1 \in F <=> ~p[1]) /\ (2 \in F <=> ~p[2])
  BY <1>1, <1>2, Zenon
<1>4. F = {} <=> p[1] /\ p[2]
  BY <1>3, Zenon
<1> QED
  BY <1>2, <1>3, <1>4, Zenon DEF F

\* No failing step of 1..8 is reported as valid.
LEMMA FailingCodes ==
    \A i \in 1 .. 8 : StepCode[i] \notin {"VALID", "VALID_PARTIAL", "RAISED"}
<1> SUFFICES ASSUME NEW i \in 1 .. 8
             PROVE  StepCode[i] \notin {"VALID", "VALID_PARTIAL", "RAISED"}
  OBVIOUS
<1>1. i = 1 \/ i = 2 \/ i = 3 \/ i = 4 \/ i = 5 \/ i = 6 \/ i = 7 \/ i = 8
  OBVIOUS
<1> QED
  BY <1>1 DEF StepCode

\* A required step that fails decides the verdict, and it is the first one.
LEMMA FirstFailureDecides ==
    ASSUME NEW required, NEW optional, NEW partialIsValid,
           FailedSteps(required) \in SUBSET (1 .. 8), FailedSteps(required) # {}
    PROVE  \E m \in FailedSteps(required) :
               /\ \A k \in FailedSteps(required) : m <= k
               /\ PythonVerdict(required, optional, partialIsValid) =
                     [status |-> StepCode[m], failed |-> {m}, is_valid |-> FALSE]
               /\ StepCode[m] \notin {"VALID", "VALID_PARTIAL", "RAISED"}
<1> DEFINE must == FailedSteps(required)
<1>1. must \in SUBSET Nat
  OBVIOUS
<1>2. Min(must) \in must /\ \A k \in must : Min(must) <= k
  BY <1>1, MinIsLeast
<1>3. PythonVerdict(required, optional, partialIsValid) =
          [status |-> StepCode[Min(must)], failed |-> {Min(must)}, is_valid |-> FALSE]
  BY DEF PythonVerdict
<1>4. StepCode[Min(must)] \notin {"VALID", "VALID_PARTIAL", "RAISED"}
  BY <1>2, FailingCodes
<1> QED
  BY <1>2, <1>3, <1>4

\* The numbers of the optional steps that fail.
OptionalFailures(p) == {8 + i : i \in FailedSteps(p)}

\* Otherwise the document is valid, partially if an optional step fails.
LEMMA NoFailureIsValid ==
    ASSUME NEW required, NEW p, NEW partialIsValid, NEW v, Len(p) = 2,
           FailedSteps(required) = {}, v = PythonVerdict(required, p, partialIsValid)
    PROVE  /\ p[1] /\ p[2] => v = [status |-> "VALID", failed |-> {}, is_valid |-> TRUE]
           /\ ~(p[1] /\ p[2]) => /\ v.status = "VALID_PARTIAL"
                                 /\ v.failed \subseteq {9, 10}
                                 /\ v.failed = OptionalFailures(p)
                                 /\ v.is_valid = partialIsValid
<1> DEFINE F == FailedSteps(p)
           may == {8 + i : i \in F}
<1>1. F \subseteq 1 .. 2 /\ (F = {} <=> p[1] /\ p[2])
  BY FailedOfTwo
<1> HIDE DEF F
<1>2. may = {} <=> F = {}
  OBVIOUS
<1>3. may \subseteq {9, 10}
  <2> SUFFICES ASSUME NEW i \in F PROVE 8 + i \in {9, 10}
    OBVIOUS
  <2> QED
    BY <1>1
<1>4. CASE may = {}
  <2>1. PythonVerdict(required, p, partialIsValid) =
            [status |-> "VALID", failed |-> {}, is_valid |-> TRUE]
    BY <1>4 DEF PythonVerdict, F
  <2> QED
    BY <1>1, <1>2, <1>4, <2>1, Zenon
<1>5. CASE may # {}
  <2>1. PythonVerdict(required, p, partialIsValid) =
            [status |-> "VALID_PARTIAL", failed |-> may, is_valid |-> partialIsValid]
    BY <1>5 DEF PythonVerdict, F
  <2>2. v.status = "VALID_PARTIAL" /\ v.failed = may /\ v.is_valid = partialIsValid
    BY <2>1
  <2>3. ~(p[1] /\ p[2])
    BY <1>1, <1>2, <1>5, Zenon
  <2> QED
    BY <1>3, <2>2, <2>3, Zenon DEF F, OptionalFailures
<1> QED
  BY <1>4, <1>5

\* The steps of the two Python verifiers as tuples, and their verdicts before the
\* loop over depends_on may raise.
StandaloneRequired(d) ==
    <<Standalone_step1_version_check(d), Standalone_step2_schema_validation(d),
      Standalone_step3_bundle_id_check(d), Standalone_step4_integrity_hash_check(d),
      Standalone_step5_circuit_resolution(d), Standalone_step6_proof_structure_validation(d),
      Standalone_step7_ai_id_verification(d), Standalone_step8_data_commitment_verification(d)>>
StandaloneOptional(d) ==
    <<Standalone_step9_timestamp_verification(d), Standalone_step10_proof_graph_verification(d)>>
SdkRequired(d) ==
    <<Sdk_step1_version_check(d), Sdk_step2_schema_validation(d), Sdk_step3_bundle_id_check(d),
      Sdk_step4_integrity_hash_check(d), Sdk_step5_circuit_resolution(d),
      Sdk_step6_proof_structure_validation(d), Sdk_step7_ai_id_verification(d),
      Sdk_step8_data_commitment_verification(d)>>
SdkOptional(d) == <<Sdk_step9_timestamp_verification(d), Sdk_step10_proof_graph_verification(d)>>
StandaloneVerdict(d) == PythonVerdict(StandaloneRequired(d), StandaloneOptional(d), FALSE)
SdkVerdict(d) == PythonVerdict(SdkRequired(d), SdkOptional(d), TRUE)

StandalonePasses(d) ==
    /\ Standalone_step1_version_check(d) /\ Standalone_step2_schema_validation(d)
    /\ Standalone_step3_bundle_id_check(d) /\ Standalone_step4_integrity_hash_check(d)
    /\ Standalone_step5_circuit_resolution(d) /\ Standalone_step6_proof_structure_validation(d)
    /\ Standalone_step7_ai_id_verification(d)
    /\ Standalone_step8_data_commitment_verification(d)
SdkPasses(d) ==
    /\ Sdk_step1_version_check(d) /\ Sdk_step2_schema_validation(d)
    /\ Sdk_step3_bundle_id_check(d) /\ Sdk_step4_integrity_hash_check(d)
    /\ Sdk_step5_circuit_resolution(d) /\ Sdk_step6_proof_structure_validation(d)
    /\ Sdk_step7_ai_id_verification(d) /\ Sdk_step8_data_commitment_verification(d)

\* The standalone verifier's failing steps.
LEMMA StandaloneFailures ==
    ASSUME NEW d
    PROVE  /\ FailedSteps(StandaloneRequired(d)) \subseteq 1 .. 8
           /\ FailedSteps(StandaloneRequired(d)) = {} <=> StandalonePasses(d)
           /\ Standalone_step1_version_check(d) => 1 \notin FailedSteps(StandaloneRequired(d))
           /\ Standalone_step2_schema_validation(d) =>
                 2 \notin FailedSteps(StandaloneRequired(d))
           /\ Standalone_step4_integrity_hash_check(d) =>
                 4 \notin FailedSteps(StandaloneRequired(d))
           /\ Standalone_step6_proof_structure_validation(d) =>
                 6 \notin FailedSteps(StandaloneRequired(d))
           /\ Standalone_step7_ai_id_verification(d) =>
                 7 \notin FailedSteps(StandaloneRequired(d))
           /\ Standalone_step8_data_commitment_verification(d) =>
                 8 \notin FailedSteps(StandaloneRequired(d))
<1>3. /\ Len(StandaloneRequired(d)) = 8
      /\ StandaloneRequired(d)[1] = Standalone_step1_version_check(d)
      /\ StandaloneRequired(d)[2] = Standalone_step2_schema_validation(d)
      /\ StandaloneRequired(d)[3] = Standalone_step3_bundle_id_check(d)
      /\ StandaloneRequired(d)[4] = Standalone_step4_integrity_hash_check(d)
      /\ StandaloneRequired(d)[5] = Standalone_step5_circuit_resolution(d)
      /\ StandaloneRequired(d)[6] = Standalone_step6_proof_structure_validation(d)
      /\ StandaloneRequired(d)[7] = Standalone_step7_ai_id_verification(d)
      /\ StandaloneRequired(d)[8] = Standalone_step8_data_commitment_verification(d)
  BY DEF StandaloneRequired
<1>4. LET F == FailedSteps(StandaloneRequired(d))
          p == StandaloneRequired(d)
      IN  /\ F \subseteq 1 .. 8
          /\ (1 \in F <=> ~p[1]) /\ (2 \in F <=> ~p[2]) /\ (3 \in F <=> ~p[3])
          /\ (4 \in F <=> ~p[4]) /\ (5 \in F <=> ~p[5]) /\ (6 \in F <=> ~p[6])
          /\ (7 \in F <=> ~p[7]) /\ (8 \in F <=> ~p[8])
          /\ F = {} <=> p[1] /\ p[2] /\ p[3] /\ p[4] /\ p[5] /\ p[6] /\ p[7] /\ p[8]
  BY <1>3, FailedOfEight, Zenon
<1> QED
  BY <1>3, <1>4, Zenon DEF StandalonePasses

\* The SDK's.
LEMMA SdkFailures ==
    ASSUME NEW d, ProofBundle_from_dict(d)
    PROVE  /\ FailedSteps(SdkRequired(d)) \subseteq 1 .. 8
           /\ FailedSteps(SdkRequired(d)) = {} <=> SdkPasses(d)
           /\ 1 \notin FailedSteps(SdkRequired(d))
           /\ d.null # {} => 2 \in FailedSteps(SdkRequired(d))
<1>2. Sdk_step1_version_check(d) /\ (d.null # {} => ~Sdk_step2_schema_validation(d))
  BY DEF Sdk_step1_version_check, Sdk_step2_schema_validation, ProofBundle_from_dict
<1>3. /\ Len(SdkRequired(d)) = 8
      /\ SdkRequired(d)[1] = Sdk_step1_version_check(d)
      /\ SdkRequired(d)[2] = Sdk_step2_schema_validation(d)
      /\ SdkRequired(d)[3] = Sdk_step3_bundle_id_check(d)
      /\ SdkRequired(d)[4] = Sdk_step4_integrity_hash_check(d)
      /\ SdkRequired(d)[5] = Sdk_step5_circuit_resolution(d)
      /\ SdkRequired(d)[6] = Sdk_step6_proof_structure_validation(d)
      /\ SdkRequired(d)[7] = Sdk_step7_ai_id_verification(d)
      /\ SdkRequired(d)[8] = Sdk_step8_data_commitment_verification(d)
  BY DEF SdkRequired
<1>4. LET F == FailedSteps(SdkRequired(d))
          p == SdkRequired(d)
      IN  /\ F \subseteq 1 .. 8
          /\ (1 \in F <=> ~p[1]) /\ (2 \in F <=> ~p[2]) /\ (3 \in F <=> ~p[3])
          /\ (4 \in F <=> ~p[4]) /\ (5 \in F <=> ~p[5]) /\ (6 \in F <=> ~p[6])
          /\ (7 \in F <=> ~p[7]) /\ (8 \in F <=> ~p[8])
          /\ F = {} <=> p[1] /\ p[2] /\ p[3] /\ p[4] /\ p[5] /\ p[6] /\ p[7] /\ p[8]
  BY <1>3, FailedOfEight, Zenon
<1> QED
  BY <1>2, <1>3, <1>4, Zenon DEF SdkPasses

\* The optional steps.
LEMMA OptionalSteps ==
    ASSUME NEW d
    PROVE  /\ Standalone_step9_timestamp_verification(d) \in BOOLEAN
           /\ Standalone_step10_proof_graph_verification(d) \in BOOLEAN
           /\ Sdk_step9_timestamp_verification(d) \in BOOLEAN
           /\ Sdk_step10_proof_graph_verification(d) \in BOOLEAN
           /\ Sdk_step9_timestamp_verification(d) <=> Standalone_step9_timestamp_verification(d)
           /\ GraphLoop(d.depends_on) # "AttributeError" =>
                 (Sdk_step10_proof_graph_verification(d)
                    <=> Standalone_step10_proof_graph_verification(d))
BY DEF Standalone_step9_timestamp_verification, Standalone_step10_proof_graph_verification,
       Sdk_step9_timestamp_verification, Sdk_step10_proof_graph_verification

\* Of a document the SDK loads, without a null, both verifiers require the same.
LEMMA SameRequirements ==
    ASSUME NEW d, ProofBundle_from_dict(d), d.null = {}
    PROVE  SdkRequired(d) = StandaloneRequired(d)
<1>1. /\ Sdk_step1_version_check(d) = Standalone_step1_version_check(d)
      /\ Sdk_step2_schema_validation(d) = Standalone_step2_schema_validation(d)
      /\ Sdk_step3_bundle_id_check(d) = Standalone_step3_bundle_id_check(d)
      /\ Sdk_step7_ai_id_verification(d) = Standalone_step7_ai_id_verification(d)
  BY DEF ProofBundle_from_dict, AIIdentity_from_dict, Sdk_step1_version_check,
         Standalone_step1_version_check, Sdk_step2_schema_validation,
         Standalone_step2_schema_validation, Sdk_step3_bundle_id_check,
         Standalone_step3_bundle_id_check, Sdk_step7_ai_id_verification,
         Standalone_step7_ai_id_verification, _is_valid_hex_hash
<1>2. /\ Sdk_step4_integrity_hash_check(d) = Standalone_step4_integrity_hash_check(d)
      /\ Sdk_step5_circuit_resolution(d) = Standalone_step5_circuit_resolution(d)
      /\ Sdk_step6_proof_structure_validation(d) =
            Standalone_step6_proof_structure_validation(d)
      /\ Sdk_step8_data_commitment_verification(d) =
            Standalone_step8_data_commitment_verification(d)
  BY Zenon DEF Sdk_step4_integrity_hash_check, Standalone_step4_integrity_hash_check,
         Sdk_step5_circuit_resolution, Standalone_step5_circuit_resolution,
         Sdk_step6_proof_structure_validation, Standalone_step6_proof_structure_validation,
         Sdk_step8_data_commitment_verification, Standalone_step8_data_commitment_verification
<1> QED
  BY <1>1, <1>2, Zenon DEF SdkRequired, StandaloneRequired

\* What the standalone verifier returns.
LEMMA StandaloneReturns ==
    ASSUME NEW d
    PROVE  /\ ~StandalonePasses(d) =>
                 \E m \in FailedSteps(StandaloneRequired(d)) :
                     /\ \A k \in FailedSteps(StandaloneRequired(d)) : m <= k
                     /\ Standalone_verify(d) =
                           [status |-> StepCode[m], failed |-> {m}, is_valid |-> FALSE]
           /\ StandalonePasses(d) =>
                 \/ /\ GraphLoop(d.depends_on) = "TypeError" /\ Standalone_verify(d) = Raised
                 \/ /\ GraphLoop(d.depends_on) # "TypeError"
                    /\ Standalone_step9_timestamp_verification(d)
                    /\ Standalone_step10_proof_graph_verification(d)
                    /\ Standalone_verify(d) =
                          [status |-> "VALID", failed |-> {}, is_valid |-> TRUE]
                 \/ /\ GraphLoop(d.depends_on) # "TypeError"
                    /\ ~(/\ Standalone_step9_timestamp_verification(d)
                         /\ Standalone_step10_proof_graph_verification(d))
                    /\ Standalone_verify(d).status = "VALID_PARTIAL"
                    /\ Standalone_verify(d).failed \subseteq {9, 10}
                    /\ Standalone_verify(d).failed =
                          OptionalFailures(StandaloneOptional(d))
                    /\ Standalone_verify(d).is_valid = FALSE
<1> DEFINE v == StandaloneVerdict(d)
<1>1. Standalone_verify(d) = IF v.status \in {"VALID", "VALID_PARTIAL"}
                                /\ GraphLoop(d.depends_on) = "TypeError" THEN Raised ELSE v
  BY Zenon DEF Standalone_verify, StandaloneVerdict, StandaloneRequired, StandaloneOptional
<1>2. ASSUME ~StandalonePasses(d)
      PROVE  \E m \in FailedSteps(StandaloneRequired(d)) :
                 /\ \A k \in FailedSteps(StandaloneRequired(d)) : m <= k
                 /\ Standalone_verify(d) =
                       [status |-> StepCode[m], failed |-> {m}, is_valid |-> FALSE]
  <2>1. /\ FailedSteps(StandaloneRequired(d)) \in SUBSET (1 .. 8)
        /\ FailedSteps(StandaloneRequired(d)) # {}
    BY <1>2, StandaloneFailures
  <2>2. PICK m \in FailedSteps(StandaloneRequired(d)) :
            /\ \A k \in FailedSteps(StandaloneRequired(d)) : m <= k
            /\ v = [status |-> StepCode[m], failed |-> {m}, is_valid |-> FALSE]
            /\ StepCode[m] \notin {"VALID", "VALID_PARTIAL", "RAISED"}
    BY <2>1, FirstFailureDecides DEF StandaloneVerdict
  <2>3. v.status = StepCode[m]
    BY <2>2
  <2> QED
    BY <1>1, <2>2, <2>3
<1>3. CASE StandalonePasses(d)
  <2> DEFINE b1 == Standalone_step9_timestamp_verification(d)
             b2 == Standalone_step10_proof_graph_verification(d)
  <2>1. FailedSteps(StandaloneRequired(d)) = {}
    BY <1>3, StandaloneFailures
  <2>a. /\ Len(StandaloneOptional(d)) = 2
        /\ StandaloneOptional(d)[1] = b1 /\ StandaloneOptional(d)[2] = b2
        /\ v = PythonVerdict(StandaloneRequired(d), StandaloneOptional(d), FALSE)
    BY DEF StandaloneVerdict, StandaloneOptional
  <2> HIDE DEF v, b1, b2
  <2>2. /\ b1 /\ b2 => v = [status |-> "VALID", failed |-> {}, is_valid |-> TRUE]
        /\ ~(b1 /\ b2) => /\ v.status = "VALID_PARTIAL" /\ v.failed \subseteq {9, 10}
                          /\ v.failed = OptionalFailures(StandaloneOptional(d))
                          /\ v.is_valid = FALSE
    <3> DEFINE p == StandaloneOptional(d)
               R == StandaloneRequired(d)
               q == FALSE
    <3>1. Len(p) = 2 /\ FailedSteps(R) = {} /\ v = PythonVerdict(R, p, q)
      BY <2>a, <2>1
    <3> HIDE DEF p, R, q
    <3>2. /\ p[1] /\ p[2] => v = [status |-> "VALID", failed |-> {}, is_valid |-> TRUE]
          /\ ~(p[1] /\ p[2]) => /\ v.status = "VALID_PARTIAL" /\ v.failed \subseteq {9, 10}
                                /\ v.failed = OptionalFailures(p)
                                /\ v.is_valid = q
      BY <3>1, NoFailureIsValid
    <3> QED
      BY <2>a, <3>2, Zenon DEF p, q
  <2>3. b1 /\ b2 => v.status = "VALID"
    BY <2>2
  <2>4. v.status \in {"VALID", "VALID_PARTIAL"}
    BY <2>2, <2>3, Zenon
  <2> QED
    BY <1>1, <1>3, <2>2, <2>4, Zenon DEF b1, b2, v
<1> QED
  BY <1>2, <1>3

\* What the SDK returns for a document it loads.
LEMMA SdkReturns ==
    ASSUME NEW d, ProofBundle_from_dict(d)
    PROVE  /\ ~SdkPasses(d) =>
                 \E m \in FailedSteps(SdkRequired(d)) :
                     /\ \A k \in FailedSteps(SdkRequired(d)) : m <= k
                     /\ Sdk_check(d) =
                           [status |-> StepCode[m], failed |-> {m}, is_valid |-> FALSE]
                     /\ StepCode[m] # "RAISED"
           /\ SdkPasses(d) =>
                 \/ /\ GraphLoop(d.depends_on) \in {"AttributeError", "TypeError"}
                    /\ Sdk_check(d) = Raised
                 \/ /\ GraphLoop(d.depends_on) \notin {"AttributeError", "TypeError"}
                    /\ Sdk_step9_timestamp_verification(d)
                    /\ Sdk_step10_proof_graph_verification(d)
                    /\ Sdk_check(d) = [status |-> "VALID", failed |-> {}, is_valid |-> TRUE]
                 \/ /\ GraphLoop(d.depends_on) \notin {"AttributeError", "TypeError"}
                    /\ ~(/\ Sdk_step9_timestamp_verification(d)
                         /\ Sdk_step10_proof_graph_verification(d))
                    /\ Sdk_check(d).status = "VALID_PARTIAL"
                    /\ Sdk_check(d).failed = OptionalFailures(SdkOptional(d))
<1> DEFINE v == SdkVerdict(d)
<1>1. Sdk_check(d) = IF v.is_valid /\ GraphLoop(d.depends_on) \in {"AttributeError", "TypeError"}
                     THEN Raised ELSE v
  BY Zenon DEF Sdk_check, Sdk_verify, SdkVerdict, SdkRequired, SdkOptional
<1>2. ASSUME ~SdkPasses(d)
      PROVE  \E m \in FailedSteps(SdkRequired(d)) :
                 /\ \A k \in FailedSteps(SdkRequired(d)) : m <= k
                 /\ Sdk_check(d) =
                       [status |-> StepCode[m], failed |-> {m}, is_valid |-> FALSE]
                 /\ StepCode[m] # "RAISED"
  <2>1. /\ FailedSteps(SdkRequired(d)) \in SUBSET (1 .. 8)
        /\ FailedSteps(SdkRequired(d)) # {}
    BY <1>2, SdkFailures
  <2>2. PICK m \in FailedSteps(SdkRequired(d)) :
            /\ \A k \in FailedSteps(SdkRequired(d)) : m <= k
            /\ v = [status |-> StepCode[m], failed |-> {m}, is_valid |-> FALSE]
            /\ StepCode[m] \notin {"VALID", "VALID_PARTIAL", "RAISED"}
    BY <2>1, FirstFailureDecides DEF SdkVerdict
  <2>3. v.is_valid = FALSE
    BY <2>2
  <2> QED
    BY <1>1, <2>2, <2>3
<1>3. CASE SdkPasses(d)
  <2> DEFINE b1 == Sdk_step9_timestamp_verification(d)
             b2 == Sdk_step10_proof_graph_verification(d)
  <2>1. FailedSteps(SdkRequired(d)) = {}
    BY <1>3, SdkFailures
  <2>a. /\ Len(SdkOptional(d)) = 2
        /\ SdkOptional(d)[1] = b1 /\ SdkOptional(d)[2] = b2
        /\ v = PythonVerdict(SdkRequired(d), SdkOptional(d), TRUE)
    BY DEF SdkVerdict, SdkOptional
  <2> HIDE DEF v, b1, b2
  <2>2. /\ b1 /\ b2 => v = [status |-> "VALID", failed |-> {}, is_valid |-> TRUE]
        /\ ~(b1 /\ b2) => /\ v.status = "VALID_PARTIAL"
                          /\ v.failed = OptionalFailures(SdkOptional(d))
                          /\ v.is_valid = TRUE
    <3> DEFINE p == SdkOptional(d)
               R == SdkRequired(d)
               q == TRUE
    <3>1. Len(p) = 2 /\ FailedSteps(R) = {} /\ v = PythonVerdict(R, p, q)
      BY <2>a, <2>1
    <3> HIDE DEF p, R, q
    <3>2. /\ p[1] /\ p[2] => v = [status |-> "VALID", failed |-> {}, is_valid |-> TRUE]
          /\ ~(p[1] /\ p[2]) => /\ v.status = "VALID_PARTIAL" /\ v.failed \subseteq {9, 10}
                                /\ v.failed = OptionalFailures(p)
                                /\ v.is_valid = q
      BY <3>1, NoFailureIsValid
    <3> QED
      BY <2>a, <3>2, Zenon DEF p, q
  <2>3. b1 /\ b2 => v.is_valid = TRUE
    BY <2>2
  <2>4. v.is_valid = TRUE
    BY <2>2, <2>3, Zenon
  <2> QED
    BY <1>1, <1>3, <2>2, <2>4, Zenon DEF b1, b2, v
<1> QED
  BY <1>2, <1>3

-----------------------------------------------------------------------------
(***************************************************************************)
(* The verifiers compared, on every document.                              *)
(***************************************************************************)

\* Where the SDK reaches a verdict on a document without a null, it is the
\* standalone verifier's.
LEMMA VerdictsMatch ==
    ASSUME NEW d, Sdk_check(d).status # "RAISED", d.null = {}
    PROVE  /\ Sdk_check(d).status = Standalone_verify(d).status
           /\ Sdk_check(d).failed = Standalone_verify(d).failed
<1>r. Raised.status = "RAISED"
  BY DEF Raised
<1>1. ProofBundle_from_dict(d)
  BY <1>r DEF Sdk_check
<1>2. SdkRequired(d) = StandaloneRequired(d) /\ (SdkPasses(d) <=> StandalonePasses(d))
  <2>1. SdkRequired(d) = StandaloneRequired(d)
    BY <1>1, SameRequirements
  <2>2. FailedSteps(SdkRequired(d)) = {} <=> SdkPasses(d)
    BY <1>1, SdkFailures
  <2>3. FailedSteps(StandaloneRequired(d)) = {} <=> StandalonePasses(d)
    BY StandaloneFailures
  <2> QED
    BY <2>1, <2>2, <2>3, Zenon
<1>3. CASE ~SdkPasses(d)
  <2>1. PICK m \in FailedSteps(SdkRequired(d)) :
            /\ \A k \in FailedSteps(SdkRequired(d)) : m <= k
            /\ Sdk_check(d) = [status |-> StepCode[m], failed |-> {m}, is_valid |-> FALSE]
    BY <1>1, <1>3, SdkReturns
  <2>2. PICK n \in FailedSteps(SdkRequired(d)) :
            /\ \A k \in FailedSteps(SdkRequired(d)) : n <= k
            /\ Standalone_verify(d) =
                  [status |-> StepCode[n], failed |-> {n}, is_valid |-> FALSE]
    BY <1>2, <1>3, StandaloneReturns
  <2>3. FailedSteps(SdkRequired(d)) \subseteq 1 .. 8
    BY <1>1, SdkFailures
  <2>4. m = n
    BY <2>1, <2>2, <2>3
  <2> QED
    BY <2>1, <2>2, <2>4
<1>4. CASE SdkPasses(d)
  <2>1. GraphLoop(d.depends_on) \notin {"AttributeError", "TypeError"}
    BY <1>1, <1>4, <1>r, SdkReturns
  <2>2. /\ Sdk_step9_timestamp_verification(d) <=> Standalone_step9_timestamp_verification(d)
        /\ Sdk_step10_proof_graph_verification(d)
              <=> Standalone_step10_proof_graph_verification(d)
    BY <2>1, OptionalSteps
  <2>3. SdkOptional(d) = StandaloneOptional(d)
    <3>1. /\ Sdk_step9_timestamp_verification(d) = Standalone_step9_timestamp_verification(d)
          /\ Sdk_step10_proof_graph_verification(d)
                = Standalone_step10_proof_graph_verification(d)
      BY <2>2, OptionalSteps
    <3> QED
      BY <3>1, Zenon DEF SdkOptional, StandaloneOptional
  <2>4. CASE Sdk_step9_timestamp_verification(d) /\ Sdk_step10_proof_graph_verification(d)
    <3>1. Sdk_check(d) = [status |-> "VALID", failed |-> {}, is_valid |-> TRUE]
      BY <1>1, <1>4, <2>1, <2>4, SdkReturns
    <3>2. Standalone_verify(d) = [status |-> "VALID", failed |-> {}, is_valid |-> TRUE]
      BY <1>2, <1>4, <2>1, <2>2, <2>4, StandaloneReturns
    <3> QED
      BY <3>1, <3>2
  <2>5. CASE ~(Sdk_step9_timestamp_verification(d) /\ Sdk_step10_proof_graph_verification(d))
    <3>1. /\ Sdk_check(d).status = "VALID_PARTIAL"
          /\ Sdk_check(d).failed = OptionalFailures(SdkOptional(d))
      BY <1>1, <1>4, <2>1, <2>5, SdkReturns
    <3>2. /\ Standalone_verify(d).status = "VALID_PARTIAL"
          /\ Standalone_verify(d).failed = OptionalFailures(StandaloneOptional(d))
      BY <1>2, <1>4, <2>1, <2>2, <2>5, StandaloneReturns
    <3> QED
      BY <2>3, <3>1, <3>2, Zenon
  <2> QED
    BY <2>4, <2>5
<1> QED
  BY <1>3, <1>4

\* A null identifier or date is all the SDK's schema step sees.
LEMMA NullIsSchemaInvalid ==
    ASSUME NEW d, Sdk_check(d).status # "RAISED", d.null # {}
    PROVE  Sdk_check(d).status = "SCHEMA_INVALID"
<1>r. Raised.status = "RAISED"
  BY DEF Raised
<1>1. ProofBundle_from_dict(d)
  BY <1>r DEF Sdk_check
<1>2. /\ 1 \notin FailedSteps(SdkRequired(d)) /\ 2 \in FailedSteps(SdkRequired(d))
      /\ FailedSteps(SdkRequired(d)) \subseteq 1 .. 8 /\ ~SdkPasses(d)
  <2>1. /\ 1 \notin FailedSteps(SdkRequired(d)) /\ 2 \in FailedSteps(SdkRequired(d))
        /\ FailedSteps(SdkRequired(d)) \subseteq 1 .. 8
    BY <1>1, SdkFailures
  <2>2. FailedSteps(SdkRequired(d)) = {} <=> SdkPasses(d)
    BY <1>1, SdkFailures
  <2> QED
    BY <2>1, <2>2
<1>3. PICK m \in FailedSteps(SdkRequired(d)) :
          /\ \A k \in FailedSteps(SdkRequired(d)) : m <= k
          /\ Sdk_check(d) = [status |-> StepCode[m], failed |-> {m}, is_valid |-> FALSE]
  BY <1>1, <1>2, SdkReturns
<1>4. m = 2
  BY <1>2, <1>3
<1>5. StepCode[2] = "SCHEMA_INVALID"
  BY DEF StepCode
<1>6. Sdk_check(d).status = StepCode[m]
  BY <1>3
<1> QED
  BY <1>4, <1>5, <1>6

\* A document the standalone verifier accepts passes all its steps, and the loop
\* over depends_on finds nothing wrong.
LEMMA AcceptedPasses ==
    ASSUME NEW d, Standalone_verify(d).is_valid
    PROVE  /\ StandalonePasses(d)
           /\ Standalone_step9_timestamp_verification(d)
           /\ GraphLoop(d.depends_on) \notin {"ValueError", "AttributeError", "TypeError"}
<1>r. Raised.is_valid = FALSE
  BY DEF Raised
<1>1. ASSUME ~StandalonePasses(d) PROVE FALSE
  <2>1. \E m : Standalone_verify(d) =
                   [status |-> StepCode[m], failed |-> {m}, is_valid |-> FALSE]
    BY <1>1, StandaloneReturns
  <2>2. Standalone_verify(d).is_valid = FALSE
    BY <2>1
  <2> QED
    BY <2>2
<1>2. /\ GraphLoop(d.depends_on) # "TypeError"
      /\ Standalone_step9_timestamp_verification(d)
      /\ Standalone_step10_proof_graph_verification(d)
  BY <1>1, <1>r, StandaloneReturns
<1> QED
  BY <1>1, <1>2 DEF Standalone_step10_proof_graph_verification

\* A document it reports as valid, if only partially, has passed the eight steps
\* that are required.
LEMMA ReportedPasses ==
    ASSUME NEW d, Standalone_verify(d).status \in {"VALID", "VALID_PARTIAL"}
    PROVE  StandalonePasses(d) /\ GraphLoop(d.depends_on) # "TypeError"
<1>r. Raised.status = "RAISED"
  BY DEF Raised
<1>1. ASSUME ~StandalonePasses(d) PROVE FALSE
  <2>1. PICK m \in FailedSteps(StandaloneRequired(d)) :
            Standalone_verify(d) = [status |-> StepCode[m], failed |-> {m}, is_valid |-> FALSE]
    BY <1>1, StandaloneReturns
  <2>2. m \in 1 .. 8
    BY StandaloneFailures
  <2>3. Standalone_verify(d).status = StepCode[m]
    BY <2>1
  <2> QED
    BY <2>2, <2>3, FailingCodes
<1>2. GraphLoop(d.depends_on) # "TypeError"
  BY <1>1, <1>r, StandaloneReturns
<1> QED
  BY <1>1, <1>2

\* The SDK loads and judges such a document, unless it lacks what only the loader
\* asks for or depends_on holds a number.
LEMMA ReportedIsJudged ==
    ASSUME NEW d, Standalone_verify(d).status \in {"VALID", "VALID_PARTIAL"},
           Sdk_check(d).status = "RAISED",
           ~LoaderOnly(d), GraphLoop(d.depends_on) # "AttributeError"
    PROVE  FALSE
<1>1. StandalonePasses(d) /\ GraphLoop(d.depends_on) # "TypeError"
  BY ReportedPasses
<1>l. /\ ~d.sparse /\ d.ai_identity.execution_environment \in ValidEnvironments
      /\ d.computation.circuit # Missing /\ d.proof.content # NoContent
      /\ \A i \in 1 .. Len(d.data_commitments) : d.data_commitments[i].dataset_id # NoDataset
      /\ d.timestamp_authority \notin {"keyless", "extended"}
  BY DEF LoaderOnly
<1>2. ProofBundle_from_dict(d)
  <2>1. d.missing = {} /\ d.vrl_version = "1.0"
    BY <1>1 DEF StandalonePasses, Standalone_step1_version_check,
                Standalone_step2_schema_validation
  <2>2. AIIdentity_from_dict(d.ai_identity)
    BY <1>1, <1>l DEF StandalonePasses, Standalone_step2_schema_validation,
                      AIIdentity_from_dict
  <2>3. Computation_from_dict(d.computation)
    BY <1>1, <1>l DEF StandalonePasses, Standalone_step2_schema_validation,
                      Computation_from_dict, _is_valid_hex_hash
  <2>4. Proof_from_dict(d.proof)
    BY <1>1, <1>l DEF StandalonePasses, Standalone_step2_schema_validation, Proof_from_dict,
                Standalone_step6_proof_structure_validation, _is_valid_hex_hash
  <2>5. TimestampAuthority_from_dict(d.timestamp_authority)
    BY <1>l DEF TimestampAuthority_from_dict
  <2>6. ASSUME NEW i \in 1 .. Len(d.data_commitments)
        PROVE  DataCommitment_from_dict(d.data_commitments[i])
    <3>1. d.data_commitments[i].commitment_hash =
              compute_commitment_hash(d.data_commitments[i].dataset_id)
      BY <1>1, Zenon DEF StandalonePasses, Standalone_step8_data_commitment_verification
    <3>2. \A x : compute_commitment_hash(x) # Missing
      BY DEF compute_commitment_hash, Missing
    <3> QED
      BY <1>l, <3>1, <3>2, Zenon DEF DataCommitment_from_dict
  <2> QED
    BY <1>l, <2>1, <2>2, <2>3, <2>4, <2>5, <2>6, Zenon DEF ProofBundle_from_dict
<1>3. CASE SdkPasses(d)
  <2>1. \/ Sdk_check(d) = [status |-> "VALID", failed |-> {}, is_valid |-> TRUE]
        \/ Sdk_check(d).status = "VALID_PARTIAL"
    BY <1>1, <1>2, <1>3, SdkReturns
  <2> QED
    BY <2>1
<1>4. CASE ~SdkPasses(d)
  <2>1. PICK m \in FailedSteps(SdkRequired(d)) :
            /\ Sdk_check(d) = [status |-> StepCode[m], failed |-> {m}, is_valid |-> FALSE]
            /\ StepCode[m] # "RAISED"
    BY <1>2, <1>4, SdkReturns
  <2> QED
    BY <2>1
<1> QED
  BY <1>3, <1>4

\* The two Python verifiers agree on every document, in whatever state it is:
\* same status and steps, except for a null the SDK refuses; and what the
\* standalone verifier reports as valid makes the SDK raise only for what its
\* loader alone asks for, or for a number in depends_on.
THEOREM PythonVerifiersAgree == BundleSpec => []PythonVerdictsAgree
<1>1. PythonVerdictsAgree
  <2>1. ASSUME Sdk_check(doc).status # "RAISED"
        PROVE  /\ doc.null = {} => /\ Sdk_check(doc).status = Standalone_verify(doc).status
                                   /\ Sdk_check(doc).failed = Standalone_verify(doc).failed
               /\ doc.null # {} => Sdk_check(doc).status = "SCHEMA_INVALID"
    BY <2>1, VerdictsMatch, NullIsSchemaInvalid
  <2>2. ASSUME Sdk_check(doc).status = "RAISED",
               Standalone_verify(doc).status \in {"VALID", "VALID_PARTIAL"}
        PROVE  LoaderOnly(doc) \/ GraphLoop(doc.depends_on) = "AttributeError"
    BY <2>2, ReportedIsJudged
  <2> QED
    BY <2>1, <2>2, Zenon DEF PythonVerdictsAgree
<1> QED
  BY <1>1, PTL

\* The steps of the TypeScript verifier: the two that return, the six that
\* record, and the two that are optional.
TsGate(d) == <<step1VersionCheck(d), step2SchemaValidation(d)>>
TsHard(d) == <<step3BundleIdCheck(d), step4IntegrityHashCheck(d), step5CircuitResolution(d),
               step6ProofStructureValidation(d), step7AIIdVerification(d),
               step8DataCommitmentVerification(d)>>
TsSoft(d) == <<step9TimestampVerification(d), step10ProofGraphVerification(d)>>
TsPasses(d) ==
    /\ step1VersionCheck(d) /\ step2SchemaValidation(d) /\ step3BundleIdCheck(d)
    /\ step4IntegrityHashCheck(d) /\ step5CircuitResolution(d)
    /\ step6ProofStructureValidation(d) /\ step7AIIdVerification(d)
    /\ step8DataCommitmentVerification(d)

TsThrows(d) == step1VersionCheck(d) /\ step2SchemaValidation(d) /\ HashingThrows(d)

\* It reports a valid status exactly if the document parses, nothing throws and
\* steps 1..8 pass.
LEMMA TsReturns ==
    ASSUME NEW d
    PROVE  /\ Ts_check(d).status \in {"VALID", "VALID_PARTIAL"} =>
                 parseBundle(d) /\ TsPasses(d)
           /\ parseBundle(d) /\ ~HashingThrows(d) /\ TsPasses(d) =>
                 \/ Ts_check(d).status = "VALID"
                 \/ /\ Ts_check(d).status = "VALID_PARTIAL"
                    /\ ~(step9TimestampVerification(d) /\ step10ProofGraphVerification(d))
<1> DEFINE gate == FailedSteps(TsGate(d))
           hard == {2 + i : i \in FailedSteps(TsHard(d))}
           soft == {8 + i : i \in FailedSteps(TsSoft(d))}
<1>1. gate \subseteq 1 .. 2 /\ (gate = {} <=> step1VersionCheck(d) /\ step2SchemaValidation(d))
  <2>1. /\ Len(TsGate(d)) = 2 /\ TsGate(d)[1] = step1VersionCheck(d)
        /\ TsGate(d)[2] = step2SchemaValidation(d)
    BY DEF TsGate
  <2>2. gate \subseteq 1 .. 2 /\ (gate = {} <=> TsGate(d)[1] /\ TsGate(d)[2])
    BY <2>1, FailedOfTwo, Zenon
  <2> QED
    BY <2>1, <2>2, Zenon
<1>2. /\ FailedSteps(TsHard(d)) \subseteq 1 .. 6
      /\ FailedSteps(TsHard(d)) = {} <=>
            /\ step3BundleIdCheck(d) /\ step4IntegrityHashCheck(d) /\ step5CircuitResolution(d)
            /\ step6ProofStructureValidation(d) /\ step7AIIdVerification(d)
            /\ step8DataCommitmentVerification(d)
  <2> DEFINE p == TsHard(d)
  <2>1. /\ Len(p) = 6 /\ p[1] = step3BundleIdCheck(d) /\ p[2] = step4IntegrityHashCheck(d)
        /\ p[3] = step5CircuitResolution(d) /\ p[4] = step6ProofStructureValidation(d)
        /\ p[5] = step7AIIdVerification(d) /\ p[6] = step8DataCommitmentVerification(d)
    BY DEF TsHard
  <2>2. /\ FailedSteps(p) \subseteq 1 .. 6
        /\ FailedSteps(p) = {} <=> p[1] /\ p[2] /\ p[3] /\ p[4] /\ p[5] /\ p[6]
    BY <2>1, FailedOfSix, Zenon
  <2> QED
    BY <2>1, <2>2, Zenon
<1>3. FailedSteps(TsSoft(d)) = {} <=> step9TimestampVerification(d) /\ step10ProofGraphVerification(d)
  <2>1. /\ Len(TsSoft(d)) = 2 /\ TsSoft(d)[1] = step9TimestampVerification(d)
        /\ TsSoft(d)[2] = step10ProofGraphVerification(d)
    BY DEF TsSoft
  <2>2. FailedSteps(TsSoft(d)) = {} <=> TsSoft(d)[1] /\ TsSoft(d)[2]
    BY <2>1, FailedOfTwo, Zenon
  <2> QED
    BY <2>1, <2>2, Zenon
<1>4. Ts_verify(d) =
          CASE gate # {} -> [status |-> StepCode[Min(gate)], failed |-> {Min(gate)}]
            [] gate = {} /\ hard # {} -> [status |-> StepCode[Max(hard)],
                                          failed |-> hard \cup soft]
            [] gate = {} /\ hard = {} -> [status |-> IF soft = {} THEN "VALID"
                                                     ELSE "VALID_PARTIAL",
                                          failed |-> soft]
  BY Zenon DEF Ts_verify, TsGate, TsHard, TsSoft
<1>5. /\ hard \subseteq 3 .. 8 /\ (hard = {} <=> FailedSteps(TsHard(d)) = {})
      /\ soft = {} <=> FailedSteps(TsSoft(d)) = {}
  BY <1>2
<1> HIDE DEF gate, hard, soft
<1>6. TsPasses(d) <=> gate = {} /\ hard = {}
  BY <1>1, <1>2, <1>5, Zenon DEF TsPasses
<1>7. CASE ~parseBundle(d) \/ TsThrows(d)
  <2>1. Ts_check(d) = [status |-> "RAISED", failed |-> {}]
    BY <1>7 DEF Ts_check, TsThrows
  <2>2. Ts_check(d).status = "RAISED" /\ ~(parseBundle(d) /\ ~HashingThrows(d))
    BY <1>7, <2>1 DEF TsThrows
  <2> QED
    BY <2>2
<1>8. CASE parseBundle(d) /\ ~TsThrows(d) /\ gate # {}
  <2>1. Min(gate) \in gate
    BY <1>1, <1>8, MinIsLeast
  <2>2. Ts_check(d) = [status |-> StepCode[Min(gate)], failed |-> {Min(gate)}]
    BY <1>4, <1>8 DEF Ts_check, TsThrows
  <2> DEFINE m == Min(gate)
  <2>3. m \in 1 .. 2 /\ Ts_check(d) = [status |-> StepCode[m], failed |-> {m}]
    BY <1>1, <2>1, <2>2
  <2> HIDE DEF m
  <2>4. m \in 1 .. 8
    BY <2>3
  <2>5. Ts_check(d).status = StepCode[m]
    BY <2>3
  <2> QED
    BY <1>6, <1>8, <2>4, <2>5, FailingCodes
<1>9. CASE parseBundle(d) /\ ~TsThrows(d) /\ gate = {} /\ hard # {}
  <2>1. hard \in SUBSET (0 .. 8)
    BY <1>5
  <2>2. \E x \in hard : \A y \in hard : y <= x
    BY <1>9, <2>1, GreatestElement
  <2>3. Max(hard) \in hard
    <3>1. \E x \in hard : \A y \in hard : x >= y
      BY <2>1, <2>2
    <3> QED
      BY <3>1 DEF Max
  <2>4. Ts_check(d) = [status |-> StepCode[Max(hard)], failed |-> hard \cup soft]
    BY <1>4, <1>9 DEF Ts_check, TsThrows
  <2> DEFINE m == Max(hard)
             failed == hard \cup soft
  <2>5. m \in 3 .. 8 /\ Ts_check(d) = [status |-> StepCode[m], failed |-> failed]
    BY <1>5, <2>3, <2>4
  <2> HIDE DEF m, failed
  <2>6. m \in 1 .. 8
    BY <2>5
  <2>7. Ts_check(d).status = StepCode[m]
    BY <2>5
  <2> QED
    BY <1>6, <1>9, <2>6, <2>7, FailingCodes
<1>10. CASE parseBundle(d) /\ ~TsThrows(d) /\ gate = {} /\ hard = {}
  <2>1. Ts_check(d) = [status |-> IF soft = {} THEN "VALID" ELSE "VALID_PARTIAL",
                       failed |-> soft]
    BY <1>4, <1>10 DEF Ts_check, TsThrows
  <2>2. Ts_check(d).status = IF soft = {} THEN "VALID" ELSE "VALID_PARTIAL"
    BY <2>1
  <2> QED
    BY <1>3, <1>5, <1>6, <1>10, <2>2
<1> QED
  BY <1>7, <1>8, <1>9, <1>10

\* A loop over depends_on that ends without an exception has seen identifiers.
LEMMA LoopReturns ==
    ASSUME NEW s \in Seq(Entries)
    PROVE  /\ GraphLoop(s) \in {"returns", "ValueError", "AttributeError", "TypeError"}
           /\ GraphLoop(s) = "returns" => \A i \in 1 .. Len(s) : s[i] \in {"uuid", "compact"}
<1> DEFINE bad == {i \in 1 .. Len(s) : Uuid(s[i]) # "returns"}
<1>1. \A i \in 1 .. Len(s) : s[i] \in Entries
  OBVIOUS
<1>2. \A i \in bad : Uuid(s[i]) \in {"ValueError", "AttributeError", "TypeError"}
  BY <1>1 DEF Uuid, Entries
<1>3. \A i \in 1 .. Len(s) : i \notin bad => s[i] \in {"uuid", "compact"}
  BY <1>1 DEF Uuid, Entries
<1>4. GraphLoop(s) = IF bad = {} THEN "returns" ELSE Uuid(s[Min(bad)])
  BY DEF GraphLoop
<1>5. bad \in SUBSET Nat
  OBVIOUS
<1> HIDE DEF bad
<1>6. CASE bad = {}
  BY <1>3, <1>4, <1>6
<1>7. CASE bad # {}
  <2>1. Min(bad) \in bad
    BY <1>5, <1>7, MinIsLeast
  <2> QED
    BY <1>2, <1>4, <1>7, <2>1
<1> QED
  BY <1>6, <1>7

\* The commitments are to ASCII texts; a hash of 64 letters that are no digits.
DataIn(d) == {d.data_commitments[i].dataset_id : i \in 1 .. Len(d.data_commitments)}
AsciiData(d) == DataIn(d) \cap NonAscii = {}
LettersIn(d) == <<"letters">> \in {d.ai_identity.ai_id, d.proof.proof_hash}
                                    \cup {d.computation[f] : f \in ComputationHashes}

\* A document the TypeScript verifier accepts, whose data it hashes as Python
\* does and in whose hashes all letters are digits, fails in the standalone
\* verifier at most the steps TypeScript does not perform.
LEMMA TypeScriptAccepts ==
    ASSUME NEW d, Ts_check(d).status \in {"VALID", "VALID_PARTIAL"}, AsciiData(d), ~LettersIn(d)
    PROVE  Standalone_verify(d).failed \subseteq {3, 5, 9, 10}
<1>1. parseBundle(d) /\ TsPasses(d)
  BY TsReturns
<1>2. Standalone_step1_version_check(d)
  BY <1>1 DEF parseBundle, Standalone_step1_version_check
<1>3. Standalone_step2_schema_validation(d) /\ Standalone_step7_ai_id_verification(d)
  <2>1. /\ d.missing = {} /\ isValidHexHash(d.ai_identity.ai_id)
        /\ \A f \in ComputationHashes : isValidHexHash(d.computation[f])
        /\ isValidHexHash(d.proof.proof_hash)
    BY <1>1 DEF parseBundle, TsPasses, step2SchemaValidation
  <2>2. \A h : isValidHexHash(h) /\ h # <<"letters">> => _is_valid_hex_hash(h)
    BY DEF isValidHexHash, _is_valid_hex_hash
  <2> QED
    BY <2>1, <2>2 DEF Standalone_step2_schema_validation, Standalone_step7_ai_id_verification,
                      LettersIn
<1>4. Standalone_step4_integrity_hash_check(d) /\ Standalone_step6_proof_structure_validation(d)
  BY <1>1, Zenon DEF TsPasses, step4IntegrityHashCheck, step6ProofStructureValidation,
         Standalone_step4_integrity_hash_check, Standalone_step6_proof_structure_validation
<1>5. Standalone_step8_data_commitment_verification(d)
  <2>1. \A x : x \notin NonAscii => computeCommitmentHash(x) = compute_commitment_hash(x)
    BY DEF computeCommitmentHash, compute_commitment_hash, CanonicalText
  <2>2. step8DataCommitmentVerification(d)
    BY <1>1 DEF TsPasses
  <2>3. \A i \in 1 .. Len(d.data_commitments) : d.data_commitments[i].dataset_id \notin NonAscii
    BY DEF AsciiData, DataIn
  <2> QED
    BY <2>1, <2>2, <2>3, Zenon DEF step8DataCommitmentVerification,
                                   Standalone_step8_data_commitment_verification
<1>6. FailedSteps(StandaloneRequired(d)) \subseteq {3, 5}
  BY <1>2, <1>3, <1>4, <1>5, StandaloneFailures
<1>7. CASE ~StandalonePasses(d)
  <2>1. PICK m \in FailedSteps(StandaloneRequired(d)) :
            Standalone_verify(d) = [status |-> StepCode[m], failed |-> {m}, is_valid |-> FALSE]
    BY <1>7, StandaloneReturns
  <2>2. Standalone_verify(d).failed = {m}
    BY <2>1
  <2> QED
    BY <1>6, <2>2
<1>8. CASE StandalonePasses(d)
  <2>1. Raised.failed = {}
    BY DEF Raised
  <2>2. \/ Standalone_verify(d) = Raised
        \/ Standalone_verify(d) = [status |-> "VALID", failed |-> {}, is_valid |-> TRUE]
        \/ Standalone_verify(d).failed \subseteq {9, 10}
    BY <1>8, StandaloneReturns
  <2>3. Standalone_verify(d).failed = {} \/ Standalone_verify(d).failed \subseteq {9, 10}
    BY <2>1, <2>2
  <2> QED
    BY <2>3
<1> QED
  BY <1>7, <1>8

\* And a document the standalone verifier accepts is accepted by TypeScript, but
\* for an identifier in depends_on without hyphens and for an absent key it hashes.
LEMMA TypeScriptFollows ==
    ASSUME NEW d, Standalone_verify(d).is_valid, d.null = {}, d.depends_on \in Seq(Entries),
           AsciiData(d)
    PROVE  \/ Ts_check(d).status = "VALID"
           \/ /\ Ts_check(d).status = "VALID_PARTIAL"
              /\ \E i \in 1 .. Len(d.depends_on) : d.depends_on[i] = "compact"
           \/ /\ Ts_check(d).status = "RAISED"
              /\ d.proof.content = NoContent \/ NoDataset \in DataIn(d)
<1>1. /\ StandalonePasses(d) /\ Standalone_step9_timestamp_verification(d)
      /\ GraphLoop(d.depends_on) \notin {"ValueError", "AttributeError", "TypeError"}
  BY AcceptedPasses
<1>2. parseBundle(d) /\ step1VersionCheck(d)
  BY <1>1 DEF StandalonePasses, Standalone_step1_version_check,
              Standalone_step2_schema_validation, parseBundle, step1VersionCheck
<1>3. step2SchemaValidation(d) /\ step5CircuitResolution(d) /\ step7AIIdVerification(d)
  <2>1. \A h : _is_valid_hex_hash(h) => isValidHexHash(h)
    BY DEF isValidHexHash, _is_valid_hex_hash
  <2>2. /\ _is_valid_hex_hash(d.ai_identity.ai_id)
        /\ \A f \in ComputationHashes : _is_valid_hex_hash(d.computation[f])
        /\ _is_valid_hex_hash(d.proof.proof_hash)
    BY <1>1 DEF StandalonePasses, Standalone_step2_schema_validation
  <2>3. "circuit_hash" \in ComputationHashes
    BY DEF ComputationHashes
  <2> QED
    BY <2>1, <2>2, <2>3 DEF step2SchemaValidation, step5CircuitResolution,
                            step7AIIdVerification
<1>4. step3BundleIdCheck(d)
  BY <1>1 DEF StandalonePasses, Standalone_step3_bundle_id_check, step3BundleIdCheck,
              IsUuidText, compute_bundle_id_from_integrity
<1>5. step4IntegrityHashCheck(d) /\ step6ProofStructureValidation(d)
  BY <1>1, Zenon DEF StandalonePasses, step4IntegrityHashCheck, step6ProofStructureValidation,
         Standalone_step4_integrity_hash_check, Standalone_step6_proof_structure_validation
<1>6. step8DataCommitmentVerification(d)
  <2>1. \A x : x \notin NonAscii => computeCommitmentHash(x) = compute_commitment_hash(x)
    BY DEF computeCommitmentHash, compute_commitment_hash, CanonicalText
  <2>2. Standalone_step8_data_commitment_verification(d)
    BY <1>1 DEF StandalonePasses
  <2>3. \A i \in 1 .. Len(d.data_commitments) : d.data_commitments[i].dataset_id \notin NonAscii
    BY DEF AsciiData, DataIn
  <2> QED
    BY <2>1, <2>2, <2>3, Zenon DEF step8DataCommitmentVerification,
                                   Standalone_step8_data_commitment_verification
<1>7. TsPasses(d)
  BY <1>2, <1>3, <1>4, <1>5, <1>6 DEF TsPasses
<1>8. \A i \in 1 .. Len(d.depends_on) : d.depends_on[i] \in {"uuid", "compact"}
  BY <1>1, LoopReturns
<1>9. step9TimestampVerification(d)
  BY <1>1 DEF Standalone_step9_timestamp_verification, step9TimestampVerification
<1>10. CASE HashingThrows(d)
  <2>1. Ts_check(d) = [status |-> "RAISED", failed |-> {}]
    BY <1>2, <1>3, <1>10 DEF Ts_check
  <2>2. d.proof.content = NoContent \/ NoDataset \in DataIn(d)
    BY <1>10 DEF HashingThrows, DataIn
  <2> QED
    BY <2>1, <2>2
<1>11. CASE ~HashingThrows(d)
  <2>1. \/ Ts_check(d).status = "VALID"
        \/ Ts_check(d).status = "VALID_PARTIAL" /\ ~step10ProofGraphVerification(d)
    BY <1>2, <1>7, <1>9, <1>11, TsReturns
  <2> QED
    BY <1>8, <2>1 DEF step10ProofGraphVerification
<1> QED
  BY <1>10, <1>11

-----------------------------------------------------------------------------
(***************************************************************************)
(* The shapes of the builders and of the documents.                        *)
(***************************************************************************)

\* The fields of a document that no other field is computed from, and the values
\* damage leaves in them.
LooseFields == {"missing", "null", "sparse", "vrl_version", "data_commitments",
                "timestamp_authority", "depends_on"}
LooseValue(k, v) ==
    /\ k = "missing" => v \subseteq {"vrl_version", "bundle_id", "computation"}
    /\ k = "null" => v \subseteq {"bundle_id", "issued_at"}
    /\ k = "sparse" => v \in BOOLEAN
    /\ k = "vrl_version" => v \in {"1.0", "2.0"}
    /\ k = "data_commitments" => v \in Seq(Commitments) /\ Len(v) <= MaxCommitments
    /\ k = "timestamp_authority" => v \in TsaKinds
    /\ k = "depends_on" => v \in Seq(Entries)

\* e is d with one field replaced, and with what.
OneDamage(d, e) ==
    \/ \E k \in LooseFields : \E v : LooseValue(k, v) /\ e = [d EXCEPT ![k] = v]
    \/ \E v : v # None /\ e = [d EXCEPT !.bundle_id = v]
    \/ \E f \in ComputationFields : \E v :
          v # None /\ e = [d EXCEPT !.computation = [d.computation EXCEPT ![f] = v]]
    \/ \E f \in ProofFields : \E v : /\ f = "proof_system" => v = "unknown"
                                     /\ e = [d EXCEPT !.proof = [d.proof EXCEPT ![f] = v]]
    \/ \E f \in IdentityFields : \E v :
          e = [d EXCEPT !.ai_identity = [d.ai_identity EXCEPT ![f] = v]]

\* A damaged commitment is one a document may carry.
LEMMA DamagedCommitmentIsOne ==
    ASSUME NEW c \in DamagedCommitments
    PROVE  c \in Commitments
<1>1. \E x \in Named : \E h \in CommitmentHashes :
          c = [dataset_id |-> x, commitment_hash |-> h]
  <2>1. CASE \E x, y \in Named :
                 c = [dataset_id |-> x, commitment_hash |-> compute_commitment_hash(y)]
    <3>1. \A y \in Named : compute_commitment_hash(y) \in CommitmentHashes
      BY DEF CommitmentHashes
    <3> QED
      BY <2>1, <3>1, Zenon
  <2>2. CASE \E x \in Datasets : c = [dataset_id |-> x, commitment_hash |-> Missing]
    <3>1. Missing \in CommitmentHashes /\ \A x \in Datasets : x \in Named
      BY DEF CommitmentHashes, Named
    <3> QED
      BY <2>2, <3>1, Zenon
  <2> QED
    BY <2>1, <2>2 DEF DamagedCommitments, Named
<1> QED
  BY <1>1 DEF Commitments

\* Damage replaces one field.
LEMMA DamageIsOne ==
    ASSUME NEW d, NEW e \in Damages(d)
    PROVE  OneDamage(d, e)
<1>1. ASSUME NEW k \in LooseFields, NEW v, LooseValue(k, v), e = [d EXCEPT ![k] = v]
      PROVE  OneDamage(d, e)
  BY <1>1, Zenon DEF OneDamage
<1>2. ASSUME NEW v, v # None, e = [d EXCEPT !.bundle_id = v]
      PROVE  OneDamage(d, e)
  BY <1>2, Zenon DEF OneDamage
<1>3. ASSUME NEW f \in ComputationFields, NEW v, v # None,
             e = [d EXCEPT !.computation = [d.computation EXCEPT ![f] = v]]
      PROVE  OneDamage(d, e)
  BY <1>3, Zenon DEF OneDamage
<1>4. ASSUME NEW f \in ProofFields, NEW v, f = "proof_system" => v = "unknown",
             e = [d EXCEPT !.proof = [d.proof EXCEPT ![f] = v]]
      PROVE  OneDamage(d, e)
  BY <1>4, Zenon DEF OneDamage
<1>5. ASSUME NEW f \in IdentityFields, NEW v,
             e = [d EXCEPT !.ai_identity = [d.ai_identity EXCEPT ![f] = v]]
      PROVE  OneDamage(d, e)
  BY <1>5, Zenon DEF OneDamage
<1>n. /\ \A h \in Malformed \cup {Missing} : h # None
      /\ \A x : /\ compute_bundle_id_from_integrity(x) # None /\ <<"name", x>> # None
                /\ _compute_mock_circuit_hash(x) # None
                /\ compute_input_hash(x) # None /\ compute_trace_hash(x) # None
      /\ \A x, y, z : compute_integrity_hash(x, y, z) # None
      /\ <<"no_uuid">> # None
  BY DEF Malformed, Missing, None, compute_bundle_id_from_integrity,
         _compute_mock_circuit_hash, compute_input_hash, compute_trace_hash,
         compute_integrity_hash
<1>c. /\ ComputationFields = {"circuit", "circuit_hash", "input_hash", "output_hash",
                              "trace_hash", "integrity_hash"}
  BY DEF ComputationFields, ComputationHashes
<1>6. CASE \E f \in {"vrl_version", "bundle_id", "computation"} : e = [d EXCEPT !.missing = {f}]
  <2>1. PICK f \in {"vrl_version", "bundle_id", "computation"} : e = [d EXCEPT !.missing = {f}]
    BY <1>6
  <2>2. LooseValue("missing", {f})
    BY DEF LooseValue
  <2>3. "missing" \in LooseFields
    BY DEF LooseFields
  <2> QED
    BY <1>1, <2>1, <2>2, <2>3, Zenon
<1>7. CASE \E f \in {"bundle_id", "issued_at"} : e = [d EXCEPT !.null = {f}]
  <2>1. PICK f \in {"bundle_id", "issued_at"} : e = [d EXCEPT !.null = {f}]
    BY <1>7
  <2>2. LooseValue("null", {f})
    BY DEF LooseValue
  <2>3. "null" \in LooseFields
    BY DEF LooseFields
  <2> QED
    BY <1>1, <2>1, <2>2, <2>3, Zenon
<1>8. CASE e \in {[d EXCEPT !.sparse = TRUE], [d EXCEPT !.vrl_version = "2.0"]}
  <2>1. LooseValue("sparse", TRUE) /\ LooseValue("vrl_version", "2.0")
    BY DEF LooseValue
  <2>2. "sparse" \in LooseFields /\ "vrl_version" \in LooseFields
    BY DEF LooseFields
  <2> DEFINE t == TRUE
  <2>3. LooseValue("sparse", t) /\ (e = [d EXCEPT !.sparse = t] \/ e = [d EXCEPT !.vrl_version = "2.0"])
    BY <1>8, <2>1, Zenon
  <2> HIDE DEF t
  <2>4. CASE e = [d EXCEPT !.sparse = t]
    BY <1>1, <2>2, <2>3, <2>4, Zenon
  <2>5. CASE e = [d EXCEPT !.vrl_version = "2.0"]
    BY <1>1, <2>1, <2>2, <2>5, Zenon
  <2> QED
    BY <2>3, <2>4, <2>5, Zenon
<1>9. CASE e \in {[d EXCEPT !.bundle_id = <<"no_uuid">>],
                  [d EXCEPT !.bundle_id =
                      compute_bundle_id_from_integrity(d.computation.integrity_hash)]}
  BY <1>2, <1>9, <1>n, Zenon
<1>10. CASE e \in {[d EXCEPT !.computation.circuit = <<"name", 2>>],
                   [d EXCEPT !.computation.circuit = Missing],
                   [d EXCEPT !.computation.circuit_hash =
                       _compute_mock_circuit_hash(d.computation.circuit)],
                   [d EXCEPT !.computation.circuit_hash = _compute_mock_circuit_hash(<<"name", 2>>)],
                   [d EXCEPT !.computation.input_hash = compute_input_hash(2)],
                   [d EXCEPT !.computation.trace_hash = compute_trace_hash(2)],
                   [d EXCEPT !.computation.integrity_hash = compute_integrity_hash(
                       d.computation.input_hash, d.computation.output_hash,
                       d.computation.trace_hash)]}
  <2>1. CASE e = [d EXCEPT !.computation.circuit = <<"name", 2>>]
    BY <1>3, <1>c, <1>n, <2>1, Zenon
  <2>2. CASE e = [d EXCEPT !.computation.circuit_hash = _compute_mock_circuit_hash(<<"name", 2>>)]
    BY <1>3, <1>c, <1>n, <2>2, Zenon
  <2>3. CASE e = [d EXCEPT !.computation.input_hash = compute_input_hash(2)]
    BY <1>3, <1>c, <1>n, <2>3, Zenon
  <2>4. CASE e = [d EXCEPT !.computation.trace_hash = compute_trace_hash(2)]
    BY <1>3, <1>c, <1>n, <2>4, Zenon
  <2>5. CASE e = [d EXCEPT !.computation.integrity_hash = compute_integrity_hash(
                       d.computation.input_hash, d.computation.output_hash,
                       d.computation.trace_hash)]
    BY <1>3, <1>c, <1>n, <2>5, Zenon
  <2>6. CASE e = [d EXCEPT !.computation.circuit = Missing]
    BY <1>3, <1>c, <1>n, <2>6, Zenon
  <2>7. CASE e = [d EXCEPT !.computation.circuit_hash =
                       _compute_mock_circuit_hash(d.computation.circuit)]
    BY <1>3, <1>c, <1>n, <2>7, Zenon
  <2> QED
    BY <1>10, <2>1, <2>2, <2>3, <2>4, <2>5, <2>6, <2>7, Zenon
<1>11. CASE e \in {[d EXCEPT !.proof.content = 2], [d EXCEPT !.proof.content = NoContent],
                   [d EXCEPT !.proof.proof_system = "unknown"],
                   [d EXCEPT !.proof.proof_hash = compute_proof_hash(d.computation.circuit_hash,
                       d.proof.content, d.proof.proof_system, d.computation.trace_hash)]}
  <2>1. /\ "content" \in ProofFields /\ "proof_system" \in ProofFields
        /\ "proof_hash" \in ProofFields
        /\ "content" # "proof_system" /\ "proof_hash" # "proof_system"
    BY DEF ProofFields
  <2> QED
    BY <1>4, <1>11, <2>1, Zenon
<1>12. CASE e \in {[d EXCEPT !.ai_identity.execution_environment = "unknown"],
                   [d EXCEPT !.ai_identity.provider_signature = TRUE]}
  <2>1. "execution_environment" \in IdentityFields /\ "provider_signature" \in IdentityFields
    BY DEF IdentityFields
  <2> QED
    BY <1>5, <1>12, <2>1, Zenon
<1>13. CASE \E h \in Malformed \cup {compute_ai_id(2)} : e = [d EXCEPT !.ai_identity.ai_id = h]
  <2>1. "ai_id" \in IdentityFields
    BY DEF IdentityFields
  <2> QED
    BY <1>5, <1>13, <2>1, Zenon
<1>14. CASE \E f \in {"input_hash", "circuit_hash"} : \E h \in Malformed \cup {Missing} :
                e = [d EXCEPT !.computation[f] = h]
  <2>1. PICK f \in {"input_hash", "circuit_hash"}, h \in Malformed \cup {Missing} :
                e = [d EXCEPT !.computation[f] = h]
    BY <1>14
  <2>2. f \in ComputationFields /\ h # None
    BY <1>c, <1>n
  <2> QED
    BY <1>3, <2>1, <2>2, Zenon
<1>15. CASE \E h \in {Missing, <<"letters">>} : e = [d EXCEPT !.proof.proof_hash = h]
  <2>1. "proof_hash" \in ProofFields /\ "proof_hash" # "proof_system"
    BY DEF ProofFields
  <2> QED
    BY <1>4, <1>15, <2>1, Zenon
<1>16. CASE \E s \in {<<>>} \cup {<<c>> : c \in DamagedCommitments} :
                e = [d EXCEPT !.data_commitments = s]
  <2>1. PICK s \in {<<>>} \cup {<<c>> : c \in DamagedCommitments} :
                e = [d EXCEPT !.data_commitments = s]
    BY <1>16
  <2>2. s \in Seq(Commitments) /\ Len(s) <= MaxCommitments
    <3>1. CASE s = <<>>
      BY <3>1, BundleBounds
    <3>2. ASSUME NEW c \in DamagedCommitments, s = <<c>>
          PROVE  s \in Seq(Commitments) /\ Len(s) <= MaxCommitments
      <4>1. c \in Commitments
        BY DamagedCommitmentIsOne
      <4> QED
        BY <3>2, <4>1, BundleBounds
    <3> QED
      BY <3>1, <3>2
  <2>3. LooseValue("data_commitments", s) /\ "data_commitments" \in LooseFields
    BY <2>2 DEF LooseValue, LooseFields
  <2>4. e = [d EXCEPT !.data_commitments = s]
    BY <2>1
  <2> QED
    BY <1>1, <2>3, <2>4
<1>17. CASE \E t \in TsaKinds : e = [d EXCEPT !.timestamp_authority = t]
  <2>1. PICK t \in TsaKinds : e = [d EXCEPT !.timestamp_authority = t]
    BY <1>17
  <2>2. LooseValue("timestamp_authority", t) /\ "timestamp_authority" \in LooseFields
    BY DEF LooseValue, LooseFields
  <2> QED
    BY <1>1, <2>1, <2>2, Zenon
<1>18. CASE \E s \in DependsLists : e = [d EXCEPT !.depends_on = s]
  <2>1. PICK s \in DependsLists : e = [d EXCEPT !.depends_on = s]
    BY <1>18
  <2>2. LooseValue("depends_on", s) /\ "depends_on" \in LooseFields
    BY DependsAssumption DEF LooseValue, LooseFields, Entries
  <2> QED
    BY <1>1, <2>1, <2>2, Zenon
<1> DEFINE single == {[d EXCEPT !.sparse = TRUE], [d EXCEPT !.vrl_version = "2.0"],
     [d EXCEPT !.bundle_id = <<"no_uuid">>],
     [d EXCEPT !.bundle_id = compute_bundle_id_from_integrity(d.computation.integrity_hash)],
     [d EXCEPT !.computation.circuit = <<"name", 2>>], [d EXCEPT !.computation.circuit = Missing],
     [d EXCEPT !.computation.circuit_hash = _compute_mock_circuit_hash(d.computation.circuit)],
     [d EXCEPT !.computation.circuit_hash = _compute_mock_circuit_hash(<<"name", 2>>)],
     [d EXCEPT !.computation.input_hash = compute_input_hash(2)],
     [d EXCEPT !.computation.trace_hash = compute_trace_hash(2)],
     [d EXCEPT !.computation.integrity_hash = compute_integrity_hash(
         d.computation.input_hash, d.computation.output_hash, d.computation.trace_hash)],
     [d EXCEPT !.proof.content = 2], [d EXCEPT !.proof.content = NoContent],
     [d EXCEPT !.proof.proof_system = "unknown"],
     [d EXCEPT !.proof.proof_hash = compute_proof_hash(d.computation.circuit_hash,
         d.proof.content, d.proof.proof_system, d.computation.trace_hash)],
     [d EXCEPT !.ai_identity.execution_environment = "unknown"],
     [d EXCEPT !.ai_identity.provider_signature = TRUE]}
  lost == {[d EXCEPT !.missing = {f}] : f \in {"vrl_version", "bundle_id", "computation"}}
  nulled == {[d EXCEPT !.null = {f}] : f \in {"bundle_id", "issued_at"}}
  identities == {[d EXCEPT !.ai_identity.ai_id = h] : h \in Malformed \cup {compute_ai_id(2)}}
  hashes == {[d EXCEPT !.computation[f] = h] : f \in {"input_hash", "circuit_hash"},
                                               h \in Malformed \cup {Missing}}
  proofs == {[d EXCEPT !.proof.proof_hash = h] : h \in {Missing, <<"letters">>}}
  lists == {<<>>} \cup {<<c>> : c \in DamagedCommitments}
  commitments == {[d EXCEPT !.data_commitments = s] : s \in lists}
  stamps == {[d EXCEPT !.timestamp_authority = t] : t \in TsaKinds}
  graphs == {[d EXCEPT !.depends_on = s] : s \in DependsLists}
<1>19. e \in single => OneDamage(d, e)
  BY <1>8, <1>9, <1>10, <1>11, <1>12, Zenon
<1>20. e \in lost \cup nulled => OneDamage(d, e)
  BY <1>6, <1>7, Zenon
<1>21. e \in identities \cup proofs => OneDamage(d, e)
  BY <1>13, <1>15, Zenon
<1>h. e \in hashes => OneDamage(d, e)
  BY <1>14
<1>22. e \in commitments => OneDamage(d, e)
  BY <1>16
<1>23. e \in stamps \cup graphs => OneDamage(d, e)
  BY <1>17, <1>18, Zenon
<1>24. Damages(d) = lost \cup nulled \cup single \cup identities \cup hashes \cup proofs
                      \cup commitments \cup stamps \cup graphs
  BY DEF Damages
<1> HIDE DEF single, lost, nulled, identities, hashes, proofs, commitments, stamps, graphs
<1> QED
  BY <1>19, <1>20, <1>21, <1>22, <1>23, <1>24, <1>h, Zenon

\* A damaged document keeps its shape.
LEMMA DamagedDocument ==
    ASSUME NEW d, DocumentOK(d), NEW e, OneDamage(d, e)
    PROVE  DocumentOK(e)
<1>f. /\ HasFields(d, DocumentFields) /\ HasFields(d.ai_identity, IdentityFields)
      /\ HasFields(d.computation, ComputationFields) /\ HasFields(d.proof, ProofFields)
  BY DEF DocumentOK, ComputationOK, ProofOK
<1>1. ASSUME NEW k \in LooseFields, NEW v, LooseValue(k, v), e = [d EXCEPT ![k] = v]
      PROVE  DocumentOK(e)
  <2>1. k \in DocumentFields
    BY DEF LooseFields, DocumentFields
  <2>2. HasFields(e, DocumentFields) /\ e[k] = v /\ \A j \in DocumentFields : j # k => e[j] = d[j]
    BY <1>1, <1>f, <2>1 DEF HasFields
  <2>3. /\ k \notin {"bundle_id", "ai_identity", "computation", "proof"}
        /\ \A j \in DocumentFields : j # k => e[j] = d[j]
    BY <2>2 DEF LooseFields
  <2>4. /\ e.bundle_id = d.bundle_id /\ e.ai_identity = d.ai_identity
        /\ e.computation = d.computation /\ e.proof = d.proof
    BY <2>3 DEF DocumentFields
  <2>5. OptionalOK(e)
    BY <1>1, <2>2 DEF DocumentOK, OptionalOK, LooseValue, DocumentFields
  <2>6. /\ e.vrl_version \in {"1.0", "2.0"}
        /\ e.missing \subseteq {"vrl_version", "bundle_id", "computation"}
        /\ e.null \subseteq {"bundle_id", "issued_at"} /\ e.sparse \in BOOLEAN
    BY <1>1, <2>2 DEF DocumentOK, LooseValue, DocumentFields
  <2> QED
    BY <2>2, <2>4, <2>5, <2>6 DEF DocumentOK
<1>2. ASSUME NEW k \in {"bundle_id", "ai_identity", "computation", "proof"}, NEW v,
             e = [d EXCEPT ![k] = v],
             k = "bundle_id" => v # None, k = "ai_identity" => HasFields(v, IdentityFields),
             k = "computation" => ComputationOK(v), k = "proof" => ProofOK(v)
      PROVE  DocumentOK(e)
  <2>1. k \in DocumentFields
    BY DEF DocumentFields
  <2>2. HasFields(e, DocumentFields) /\ e[k] = v /\ \A j \in DocumentFields : j # k => e[j] = d[j]
    BY <1>2, <1>f, <2>1 DEF HasFields
  <2>3. OptionalOK(e)
    BY <2>2 DEF DocumentOK, OptionalOK, DocumentFields
  <2>4. /\ e.vrl_version \in {"1.0", "2.0"}
        /\ e.missing \subseteq {"vrl_version", "bundle_id", "computation"}
        /\ e.null \subseteq {"bundle_id", "issued_at"} /\ e.sparse \in BOOLEAN
    BY <2>2 DEF DocumentOK, DocumentFields
  <2>5. /\ e.bundle_id # None /\ HasFields(e.ai_identity, IdentityFields)
        /\ ComputationOK(e.computation) /\ ProofOK(e.proof)
    BY <1>2, <2>2 DEF DocumentOK, DocumentFields
  <2> QED
    BY <2>2, <2>3, <2>4, <2>5 DEF DocumentOK
<1>3. ASSUME NEW v, v # None, e = [d EXCEPT !.bundle_id = v]
      PROVE  DocumentOK(e)
  BY <1>2, <1>3
<1>4. ASSUME NEW f \in ComputationFields, NEW v, v # None,
             e = [d EXCEPT !.computation = [d.computation EXCEPT ![f] = v]]
      PROVE  DocumentOK(e)
  <2> DEFINE c == [d.computation EXCEPT ![f] = v]
  <2>1. /\ HasFields(c, ComputationFields) /\ c[f] = v
        /\ \A j \in ComputationFields : j # f => c[j] = d.computation[j]
    BY <1>f DEF HasFields
  <2>2. ComputationOK(c)
    BY <1>4, <2>1 DEF DocumentOK, ComputationOK
  <2> HIDE DEF c
  <2> QED
    BY <1>2, <1>4, <2>2 DEF c
<1>5. ASSUME NEW f \in ProofFields, NEW v, f = "proof_system" => v = "unknown",
             e = [d EXCEPT !.proof = [d.proof EXCEPT ![f] = v]]
      PROVE  DocumentOK(e)
  <2> DEFINE c == [d.proof EXCEPT ![f] = v]
  <2>1. /\ HasFields(c, ProofFields) /\ c[f] = v
        /\ \A j \in ProofFields : j # f => c[j] = d.proof[j]
    BY <1>f DEF HasFields
  <2>2. ProofOK(c)
    BY <1>5, <2>1 DEF DocumentOK, ProofOK, ProofFields
  <2> HIDE DEF c
  <2> QED
    BY <1>2, <1>5, <2>2 DEF c
<1>6. ASSUME NEW f \in IdentityFields, NEW v,
             e = [d EXCEPT !.ai_identity = [d.ai_identity EXCEPT ![f] = v]]
      PROVE  DocumentOK(e)
  <2> DEFINE c == [d.ai_identity EXCEPT ![f] = v]
  <2>1. HasFields(c, IdentityFields)
    BY <1>f DEF HasFields
  <2> HIDE DEF c
  <2> QED
    BY <1>2, <1>6, <2>1 DEF c
<1> QED
  BY <1>1, <1>3, <1>4, <1>5, <1>6 DEF OneDamage

\* A document is not the absence of one.
LEMMA DocumentIsThere ==
    ASSUME NEW d, DocumentOK(d)
    PROVE  d # NoRecord
<1>1. DOMAIN d = DocumentFields
  BY DEF DocumentOK, HasFields
<1>2. DOMAIN NoRecord = {"none"} /\ "proof" \in DocumentFields
  BY DEF NoRecord, DocumentFields
<1> QED
  BY <1>1, <1>2

\* A commitment either SDK computes is one of the commitments.
LEMMA CommitmentIsOne ==
    ASSUME NEW dataset \in Datasets
    PROVE  CommitmentFor(dataset) \in Commitments
<1> DEFINE h == IF lang = "python" THEN compute_commitment_hash(dataset)
                                   ELSE computeCommitmentHash(dataset)
<1>1. h \in CommitmentHashes /\ dataset \in Named
  BY DEF CommitmentHashes, Named
<1>2. CommitmentFor(dataset) = [dataset_id |-> dataset, commitment_hash |-> h]
  BY DEF CommitmentFor
<1> HIDE DEF h
<1> QED
  BY <1>1, <1>2 DEF Commitments

\* What a call on a builder leaves alone.
Kept == UNCHANGED <<lang, caller, published>>

\* A setter of the ProofBundleBuilder keeps its shape.
LEMMA AssignShape ==
    ASSUME BuilderOK, NEW k \in BuilderFields, NEW v, Assign(k, v),
           k = "vrl_version" => v \in {"1.0", "2.0"},
           k = "ai_identity" => v \in {NoRecord, AIIdentityBuilder_build},
           k = "computation" => ComputationOK(v), k = "proof" => ProofOK(v),
           k = "data_commitments" => v \in Seq(Commitments) /\ Len(v) <= MaxCommitments,
           k = "timestamp_authority" => v \in TsaKinds \ {"keyless", "extended"},
           k = "depends_on" => v \in Seq(Entries)
    PROVE  /\ BuilderOK' /\ builder'[k] = v
           /\ \A j \in BuilderFields : j # k => builder'[j] = builder[j]
<1>1. HasFields(builder, BuilderFields)
  BY DEF BuilderOK
<1>2. /\ HasFields(builder', BuilderFields) /\ builder'[k] = v
      /\ \A j \in BuilderFields : j # k => builder'[j] = builder[j]
  BY <1>1 DEF HasFields, Assign
<1>3. BuilderFields = {"vrl_version", "bundle_id", "ai_identity", "computation", "proof",
                       "data_commitments", "timestamp_authority", "depends_on"}
  BY DEF BuilderFields, DocumentFields
<1>4. /\ builder'.vrl_version \in {"1.0", "2.0"}
      /\ builder'.ai_identity \in {NoRecord, AIIdentityBuilder_build}
  BY <1>2, <1>3 DEF BuilderOK
<1>5. /\ builder'.computation = NoRecord \/ ComputationOK(builder'.computation)
      /\ builder'.proof = NoRecord \/ ProofOK(builder'.proof)
  BY <1>2, <1>3 DEF BuilderOK
<1>6. OptionalOK(builder') /\ builder'.timestamp_authority \notin {"keyless", "extended"}
  BY <1>2, <1>3 DEF BuilderOK, OptionalOK
<1> QED
  BY <1>2, <1>4, <1>5, <1>6 DEF BuilderOK

\* The bundle's part of the shape.
BundleOK ==
    /\ bundle = NoRecord \/ DocumentOK(bundle)
    /\ shared => bundle # NoRecord /\ bundle.data_commitments = builder.data_commitments

\* Every step keeps the shapes.
LEMMA ShapedInductive ==
    ASSUME Shaped, [BundleNext]_vars
    PROVE  Shaped'
<1>k. ASSUME Kept, HasFields(comp', ComputationFields), BuilderOK', BundleOK',
             shared' \in BOOLEAN, rewritten' \in BOOLEAN
      PROVE  Shaped'
  BY <1>k DEF Shaped, Kept, published, BundleOK
<1>b. BuilderOK /\ HasFields(comp, ComputationFields) /\ BundleOK
  BY DEF Shaped, BundleOK
<1>f. BuilderFields = {"vrl_version", "bundle_id", "ai_identity", "computation", "proof",
                       "data_commitments", "timestamp_authority", "depends_on"}
  BY DEF BuilderFields, DocumentFields
<1>c. "integrity_hash" \in ComputationFields
  BY DEF ComputationFields, ComputationHashes
<1>1. ASSUME NEW f \in ComputationFields, NEW v, SetField(f, v)
      PROVE  Shaped'
  <2>1. HasFields(comp', ComputationFields)
    BY <1>1, <1>b DEF SetField, HasFields
  <2>2. BuilderOK' /\ BundleOK'
    BY <1>1, <1>b DEF SetField, BuilderOK, BundleOK
  <2> QED
    BY <1>1, <1>k, <2>1, <2>2 DEF SetField, Kept, Shaped
<1>2. CASE SetIntegrityHash
  <2>1. HasFields(comp', ComputationFields)
    BY <1>2, <1>b DEF SetIntegrityHash, HasFields
  <2>2. BuilderOK' /\ BundleOK'
    BY <1>2, <1>b DEF SetIntegrityHash, BuilderOK, BundleOK
  <2> QED
    BY <1>2, <1>k, <2>1, <2>2 DEF SetIntegrityHash, Kept, Shaped
<1>3. CASE ComputeIntegrityHash
  <2>1. HasFields(comp', ComputationFields)
    BY <1>3, <1>b DEF ComputeIntegrityHash, HasFields
  <2>2. BuilderOK' /\ BundleOK'
    BY <1>3, <1>b DEF ComputeIntegrityHash, BuilderOK, BundleOK
  <2> QED
    BY <1>3, <1>k, <2>1, <2>2 DEF ComputeIntegrityHash, Kept, Shaped
<1>4. CASE SetComputation
  <2>1. ComputationOK(comp)
    BY <1>4, <1>b DEF SetComputation, ComputationBuilder_build, ComputationOK
  <2>2. BuilderOK' /\ builder'.data_commitments = builder.data_commitments
    BY <1>4, <1>b, <1>f, <2>1, AssignShape DEF SetComputation
  <2>3. HasFields(comp', ComputationFields) /\ BundleOK'
    BY <1>4, <1>b, <2>2 DEF SetComputation, BundleOK
  <2> QED
    BY <1>4, <1>k, <2>2, <2>3 DEF SetComputation, Kept, Shaped
<1>5. CASE SetProof
  <2>1. ProofOK(ProofBuilder_build(1))
    BY DEF ProofOK, ProofBuilder_build, HasFields, ProofFields, ValidSystems
  <2>2. BuilderOK' /\ builder'.data_commitments = builder.data_commitments
    BY <1>5, <1>b, <1>f, <2>1, AssignShape DEF SetProof
  <2>3. HasFields(comp', ComputationFields) /\ BundleOK'
    BY <1>5, <1>b, <2>2 DEF SetProof, BundleOK
  <2> QED
    BY <1>5, <1>k, <2>2, <2>3 DEF SetProof, Kept, Shaped
<1>6. CASE SetAIIdentity
  <2>2. BuilderOK' /\ builder'.data_commitments = builder.data_commitments
    BY <1>6, <1>b, <1>f, AssignShape DEF SetAIIdentity
  <2>3. HasFields(comp', ComputationFields) /\ BundleOK'
    BY <1>6, <1>b, <2>2 DEF SetAIIdentity, BundleOK
  <2> QED
    BY <1>6, <1>k, <2>2, <2>3 DEF SetAIIdentity, Kept, Shaped
<1>7. CASE SetVrlVersion
  <2>2. BuilderOK' /\ builder'.data_commitments = builder.data_commitments
    BY <1>7, <1>b, <1>f, AssignShape DEF SetVrlVersion
  <2>3. HasFields(comp', ComputationFields) /\ BundleOK'
    BY <1>7, <1>b, <2>2 DEF SetVrlVersion, BundleOK
  <2> QED
    BY <1>7, <1>k, <2>2, <2>3 DEF SetVrlVersion, Kept, Shaped
<1>8. ASSUME NEW id, SetBundleId(id)
      PROVE  Shaped'
  <2>2. BuilderOK' /\ builder'.data_commitments = builder.data_commitments
    BY <1>8, <1>b, <1>f, AssignShape DEF SetBundleId
  <2>3. HasFields(comp', ComputationFields) /\ BundleOK'
    BY <1>8, <1>b, <2>2 DEF SetBundleId, BundleOK
  <2> QED
    BY <1>8, <1>k, <2>2, <2>3 DEF SetBundleId, Kept, Shaped
<1>9. ASSUME NEW tsa \in TsaKinds \ {"keyless", "extended"}, SetLegal(tsa)
      PROVE  Shaped'
  <2>2. BuilderOK' /\ builder'.data_commitments = builder.data_commitments
    BY <1>9, <1>b, <1>f, AssignShape DEF SetLegal
  <2>3. HasFields(comp', ComputationFields) /\ BundleOK'
    BY <1>9, <1>b, <2>2 DEF SetLegal, BundleOK
  <2> QED
    BY <1>9, <1>k, <2>2, <2>3 DEF SetLegal, Kept, Shaped
<1>10. ASSUME NEW list \in DependsLists, SetProofGraph(list)
       PROVE  Shaped'
  <2>1. list \in Seq(Entries)
    BY DependsAssumption DEF Entries
  <2>2. BuilderOK' /\ builder'.data_commitments = builder.data_commitments
    BY <1>10, <1>b, <1>f, <2>1, AssignShape DEF SetProofGraph
  <2>3. HasFields(comp', ComputationFields) /\ BundleOK'
    BY <1>10, <1>b, <2>2 DEF SetProofGraph, BundleOK
  <2> QED
    BY <1>10, <1>k, <2>2, <2>3 DEF SetProofGraph, Kept, Shaped
<1>11. ASSUME NEW dataset \in Datasets, AddDataCommitment(dataset)
       PROVE  Shaped'
  <2> DEFINE list == Append(builder.data_commitments, CommitmentFor(dataset))
  <2>1. list \in Seq(Commitments) /\ Len(list) <= MaxCommitments
    <3>1. CommitmentFor(dataset) \in Commitments
      BY CommitmentIsOne
    <3>2. builder.data_commitments \in Seq(Commitments)
      BY <1>b DEF BuilderOK, OptionalOK
    <3>3. Len(builder.data_commitments) < MaxCommitments
      BY <1>11 DEF AddDataCommitment
    <3> QED
      BY <3>1, <3>2, <3>3, BundleBounds
  <2>2. Assign("data_commitments", list)
    BY <1>11 DEF AddDataCommitment
  <2>3. bundle' = IF shared THEN [bundle EXCEPT !.data_commitments = list] ELSE bundle
    BY <1>11 DEF AddDataCommitment
  <2> HIDE DEF list
  <2>4. BuilderOK' /\ builder'.data_commitments = list
    BY <1>b, <1>f, <2>1, <2>2, AssignShape
  <2>5. BundleOK'
    <3>1. CASE ~shared
      BY <1>11, <1>b, <2>3, <3>1 DEF AddDataCommitment, BundleOK
    <3>2. CASE shared
      <4>1. DocumentOK(bundle)
        BY <1>b, <3>2 DEF BundleOK
      <4>2. "data_commitments" \in LooseFields /\ LooseValue("data_commitments", list)
        BY <2>1 DEF LooseFields, LooseValue
      <4>3. OneDamage(bundle, bundle')
        BY <2>3, <3>2, <4>2 DEF OneDamage
      <4>4. DocumentOK(bundle')
        BY <4>1, <4>3, DamagedDocument
      <4>5. bundle'.data_commitments = list
        BY <2>3, <3>2, <4>1 DEF DocumentOK, HasFields, DocumentFields
      <4> QED
        BY <1>11, <2>4, <4>4, <4>5, DocumentIsThere DEF AddDataCommitment, BundleOK
    <3> QED
      BY <3>1, <3>2
  <2>6. HasFields(comp', ComputationFields)
    BY <1>11, <1>b DEF AddDataCommitment
  <2> QED
    BY <1>11, <1>k, <2>4, <2>5, <2>6 DEF AddDataCommitment, Kept, Shaped
<1>12. CASE Build
  <2>1. BuilderOK' /\ builder'.data_commitments = builder.data_commitments
    BY <1>12, <1>b, <1>f, AssignShape DEF Build
  <2>2. BundleId # None
    BY DEF BundleId, None, compute_bundle_id_from_integrity, generateBundleId
  <2>3. DocumentOK(bundle')
    <3>1. bundle' = [vrl_version |-> builder.vrl_version, bundle_id |-> BundleId,
                  missing |-> {}, null |-> {}, sparse |-> FALSE,
                  ai_identity |-> builder.ai_identity, computation |-> builder.computation,
                  proof |-> builder.proof, data_commitments |-> builder.data_commitments,
                  timestamp_authority |-> builder.timestamp_authority,
                  depends_on |-> builder.depends_on]
      BY <1>12 DEF Build
    <3>2. /\ builder.ai_identity = AIIdentityBuilder_build /\ ComputationOK(builder.computation)
          /\ ProofOK(builder.proof) /\ OptionalOK(builder)
          /\ builder.vrl_version \in {"1.0", "2.0"}
      BY <1>12, <1>b DEF Build, BuilderOK
    <3>3. HasFields(AIIdentityBuilder_build, IdentityFields)
      BY DEF AIIdentityBuilder_build, HasFields, IdentityFields
    <3>4. HasFields(bundle', DocumentFields)
      BY <3>1 DEF HasFields, DocumentFields
    <3>5. OptionalOK(bundle')
      BY <3>1, <3>2 DEF OptionalOK
    <3> QED
      BY <2>2, <3>1, <3>2, <3>3, <3>4, <3>5 DEF DocumentOK
  <2>4. bundle'.data_commitments = builder.data_commitments
    BY <1>12 DEF Build
  <2>5. BundleOK' /\ HasFields(comp', ComputationFields)
    BY <1>12, <1>b, <2>1, <2>3, <2>4, DocumentIsThere DEF Build, BundleOK
  <2> QED
    BY <1>12, <1>k, <2>1, <2>5 DEF Build, Kept, Shaped
<1>13. CASE Publish
  <2>1. DocumentOK(bundle)
    BY <1>13, <1>b DEF Publish, BundleOK
  <2>2. DocumentOK(doc') /\ DocumentOK(origin')
    BY <1>13, <2>1 DEF Publish
  <2>3. HasFields(comp', ComputationFields)
    BY <1>13 DEF Publish, ComputationBuilder, HasFields
  <2>4. BuilderOK'
    <3>1. builder' = ProofBundleBuilder
      BY <1>13 DEF Publish
    <3>2. HasFields(builder', BuilderFields)
      BY <1>f, <3>1 DEF ProofBundleBuilder, HasFields
    <3>3. OptionalOK(builder')
      BY <3>1, BundleBounds DEF ProofBundleBuilder, OptionalOK
    <3> QED
      BY <3>1, <3>2, <3>3 DEF ProofBundleBuilder, BuilderOK
  <2> QED
    BY <1>13, <2>2, <2>3, <2>4 DEF Publish, Shaped
<1>14. CASE Damage
  <2>1. DocumentOK(doc) /\ DocumentOK(origin)
    BY <1>14 DEF Damage, Building, Shaped
  <2>2. doc' \in Damages(doc)
    BY <1>14 DEF Damage
  <2>3. DocumentOK(doc')
    BY <2>1, <2>2, DamageIsOne, DamagedDocument
  <2>4. BuilderOK'
    BY <1>14, <1>b DEF Damage, building, BuilderOK
  <2>5. edits' \in 0 .. MaxEdits
    BY <1>14, BundleBounds DEF Damage, Shaped
  <2> QED
    BY <1>14, <2>1, <2>3, <2>4, <2>5 DEF Damage, building, Shaped
<1>15. CASE UNCHANGED vars
  <2>1. BuilderOK'
    BY <1>15, <1>b DEF vars, BuilderOK
  <2> QED
    BY <1>15, <2>1 DEF vars, Shaped
<1> QED
  BY <1>1, <1>2, <1>3, <1>4, <1>5, <1>6, <1>7, <1>8, <1>9, <1>10, <1>11, <1>12, <1>13, <1>14,
     <1>15 DEF BundleNext

\* The shapes hold in every reachable state.
THEOREM BundleShapes == BundleSpec => []Shaped
<1>1. BundleInit => Shaped
  <2> SUFFICES ASSUME BundleInit PROVE Shaped
    OBVIOUS
  <2>1. HasFields(comp, ComputationFields)
    BY DEF BundleInit, ComputationBuilder, HasFields
  <2>2. BuilderOK
    <3>1. builder = ProofBundleBuilder
      BY DEF BundleInit
    <3>2. HasFields(builder, BuilderFields)
      BY <3>1 DEF ProofBundleBuilder, HasFields, BuilderFields, DocumentFields
    <3>3. OptionalOK(builder)
      BY <3>1, BundleBounds DEF ProofBundleBuilder, OptionalOK
    <3> QED
      BY <3>1, <3>2, <3>3 DEF ProofBundleBuilder, BuilderOK
  <2>3. shared \in BOOLEAN /\ rewritten \in BOOLEAN /\ ~shared
    BY DEF BundleInit
  <2>4. edits \in 0 .. MaxEdits
    BY BundleBounds DEF BundleInit
  <2>5. lang \in Languages /\ caller \in Callers \cup {{}} /\ bundle = NoRecord
    BY DEF BundleInit
  <2>6. doc = NoRecord /\ origin = NoRecord /\ edits = 0
    BY DEF BundleInit
  <2> QED
    BY <2>1, <2>2, <2>3, <2>4, <2>5, <2>6, Zenon DEF Shaped
<1>2. Shaped /\ [BundleNext]_vars => Shaped'
  BY ShapedInductive
<1> QED
  BY <1>1, <1>2, PTL DEF BundleSpec

\* A shaped state is well typed.
LEMMA ShapedIsTyped == Shaped => BundleTypeOK
<1> SUFFICES ASSUME Shaped PROVE BundleTypeOK
  OBVIOUS
<1>1. ASSUME NEW d, DocumentOK(d) PROVE IsDocument(d)
  BY <1>1 DEF DocumentOK, OptionalOK, ComputationOK, ProofOK, HasFields, IsDocument
<1>2. DOMAIN comp = ComputationFields /\ Len(builder.data_commitments) <= MaxCommitments
  BY DEF Shaped, HasFields, BuilderOK, OptionalOK
<1>3. doc = NoRecord <=> origin = NoRecord
  BY DocumentIsThere DEF Shaped
<1> QED
  BY <1>1, <1>2, <1>3 DEF Shaped, BundleTypeOK

\* The builders, the bundle and the document keep their shapes, however often a
\* document is damaged.
THEOREM BundleTypes == BundleSpec => []BundleTypeOK
<1> QED
  BY BundleShapes, ShapedIsTyped, PTL

\* What the TypeScript verifier accepts passes the standalone verifier's steps but
\* 3, 5 and the letters of a hash, and it accepts what is valid but for compact
\* identifiers and absent keys, on every document that is built or damaged.
THEOREM TypeScriptGapIsKnown == BundleSpec => []TypeScriptGapKnown
<1>1. Shaped => TypeScriptGapKnown
  <2> SUFFICES ASSUME Shaped, ~Building
               PROVE  TypeScriptGapKnown
    BY DEF TypeScriptGapKnown
  <2>1. doc.depends_on \in Seq(Entries)
    BY DEF Shaped, Building, DocumentOK, OptionalOK
  <2>2. Ts_check(doc).status \in {"VALID", "VALID_PARTIAL"} /\ AsciiData(doc) =>
            Standalone_verify(doc).failed \subseteq {3, 5, 9, 10} \/ LettersIn(doc)
    BY TypeScriptAccepts
  <2>3. Standalone_verify(doc).is_valid /\ doc.null = {} /\ AsciiData(doc) =>
            \/ Ts_check(doc).status = "VALID"
            \/ /\ Ts_check(doc).status = "VALID_PARTIAL"
               /\ \E i \in 1 .. Len(doc.depends_on) : doc.depends_on[i] = "compact"
            \/ /\ Ts_check(doc).status = "RAISED"
               /\ doc.proof.content = NoContent \/ NoDataset \in DataIn(doc)
    BY <2>1, TypeScriptFollows
  <2> QED
    BY <2>2, <2>3, Zenon DEF TypeScriptGapKnown, AsciiData, LettersIn, DataIn
<1> QED
  BY <1>1, BundleShapes, PTL

-----------------------------------------------------------------------------
(***************************************************************************)
(* What a caller gets who sets every field once.                           *)
(***************************************************************************)

\* The fields a setter leaves alone.
LEMMA AssignFields ==
    ASSUME BuilderOK, NEW k \in BuilderFields, NEW v, Assign(k, v)
    PROVE  /\ builder'[k] = v
           /\ \A j \in BuilderFields : j # k => builder'[j] = builder[j]
BY DEF BuilderOK, HasFields, Assign

\* A value the ComputationBuilder is given for a field.
LEMMA GivenValues ==
    ASSUME NEW f \in ComputationFields, f # "integrity_hash", NEW v \in FieldValues(f)
    PROVE  /\ f = "circuit" => v = <<"name", 1>>
           /\ f = "circuit_hash" => v = _compute_mock_circuit_hash(<<"name", 1>>)
           /\ f = "input_hash" => v = compute_input_hash(1)
           /\ f = "output_hash" => v = compute_output_hash(1)
           /\ f = "trace_hash" => v \in {compute_trace_hash(t) : t \in TraceValues}
BY DEF FieldValues, ComputationFields, ComputationHashes

\* The caller's part: a caller who sets a field for the first time.
LEMMA FirstSetting ==
    ASSUME Shaped, Once, NEW f \in ComputationFields, f # "integrity_hash",
           NEW v \in FieldValues(f), SetField(f, v), ~rewritten'
    PROVE  ComputationOnce' /\ BuilderOnce' /\ BundleOnce'
<1>1. ~rewritten /\ comp[f] = None
  BY DEF SetField
<1>2. ComputationOnce /\ BuilderOnce /\ BundleOnce
  BY <1>1 DEF Once
<1>3. comp'[f] = v /\ \A g \in ComputationFields : g # f => comp'[g] = comp[g]
  BY DEF SetField, Shaped, HasFields
<1>4. ComputationFields = {"circuit", "circuit_hash", "input_hash", "output_hash",
                           "trace_hash", "integrity_hash"}
  BY DEF ComputationFields, ComputationHashes
<1>5. ~ComputationOK(comp)
  BY <1>1 DEF ComputationOK
<1>6. comp # NoRecord
  <2>1. DOMAIN comp = ComputationFields /\ DOMAIN NoRecord = {"none"}
    BY DEF Shaped, HasFields, NoRecord
  <2> QED
    BY <1>4, <2>1
<1>7. builder.computation = NoRecord /\ builder.bundle_id = None /\ bundle = NoRecord
  BY <1>2, <1>5, <1>6 DEF BuilderOnce, BundleOnce, Shaped, BuilderOK
<1>8. ComputationOnce'
  <2>1. /\ f = "circuit" => v = <<"name", 1>>
        /\ f = "circuit_hash" => v = _compute_mock_circuit_hash(<<"name", 1>>)
        /\ f = "input_hash" => v = compute_input_hash(1)
        /\ f = "output_hash" => v = compute_output_hash(1)
        /\ f = "trace_hash" => v \in {compute_trace_hash(t) : t \in TraceValues}
    BY GivenValues
  <2>2. /\ comp'.circuit \in {None, <<"name", 1>>}
        /\ comp'.circuit_hash \in {None, _compute_mock_circuit_hash(<<"name", 1>>)}
        /\ comp'.input_hash \in {None, compute_input_hash(1)}
        /\ comp'.output_hash \in {None, compute_output_hash(1)}
    BY <1>2, <1>3, <1>4, <2>1 DEF ComputationOnce
  <2> DEFINE T == {compute_trace_hash(t) : t \in TraceValues}
  <2>3. comp.trace_hash \in {None} \cup T /\ (f = "trace_hash" => v \in T)
    BY <1>2, <2>1 DEF ComputationOnce
  <2> HIDE DEF T
  <2>4. comp'.trace_hash \in {None} \cup T
    BY <1>3, <1>4, <2>3
  <2>5. comp'.integrity_hash # None =>
            /\ None \notin {comp'.input_hash, comp'.output_hash, comp'.trace_hash}
            /\ comp'.integrity_hash =
                  compute_integrity_hash(comp'.input_hash, comp'.output_hash, comp'.trace_hash)
    <3> SUFFICES ASSUME comp'.integrity_hash # None
                 PROVE  /\ None \notin {comp'.input_hash, comp'.output_hash, comp'.trace_hash}
                        /\ comp'.integrity_hash = compute_integrity_hash(
                              comp'.input_hash, comp'.output_hash, comp'.trace_hash)
      OBVIOUS
    <3>1. comp.integrity_hash = comp'.integrity_hash
      BY <1>3, <1>4
    <3>2. /\ None \notin {comp.input_hash, comp.output_hash, comp.trace_hash}
          /\ comp.integrity_hash =
                compute_integrity_hash(comp.input_hash, comp.output_hash, comp.trace_hash)
      BY <1>2, <3>1 DEF ComputationOnce
    <3>3. /\ comp'.input_hash = comp.input_hash /\ comp'.output_hash = comp.output_hash
          /\ comp'.trace_hash = comp.trace_hash
      BY <1>1, <1>3, <1>4, <3>2
    <3> QED
      BY <3>1, <3>2, <3>3
  <2> QED
    BY <2>2, <2>4, <2>5 DEF ComputationOnce, T
<1>9. BuilderOnce'
  <2>1. builder' = builder /\ lang' = lang
    BY DEF SetField
  <2>2. ASSUME builder.proof # NoRecord
        PROVE  /\ None \notin {comp'.circuit_hash, comp'.trace_hash}
               /\ builder.proof = ProofBuilder_build(1)'
    <3>1. /\ None \notin {comp.circuit_hash, comp.trace_hash}
          /\ builder.proof = ProofBuilder_build(1)
      BY <1>2, <2>2 DEF BuilderOnce
    <3>2. comp'.circuit_hash = comp.circuit_hash /\ comp'.trace_hash = comp.trace_hash
      BY <1>1, <1>3, <1>4, <3>1
    <3> QED
      BY <3>1, <3>2 DEF ProofBuilder_build
  <2> QED
    BY <1>2, <1>7, <2>1, <2>2 DEF BuilderOnce
<1>10. BundleOnce'
  BY <1>7 DEF SetField, BundleOnce
<1> QED
  BY <1>8, <1>9, <1>10

\* Every call of such a caller keeps what it has.
LEMMA OnceInductive ==
    ASSUME Shaped, Once, [BundleNext]_vars
    PROVE  Once'
<1>b. BuilderOK
  BY DEF Shaped
<1>f. BuilderFields = {"vrl_version", "bundle_id", "ai_identity", "computation", "proof",
                       "data_commitments", "timestamp_authority", "depends_on"}
  BY DEF BuilderFields, DocumentFields
<1>r. ~rewritten => ComputationOnce /\ BuilderOnce /\ BundleOnce
  BY DEF Once
<1>p. lang = "python" => /\ PythonCommitments(builder.data_commitments)
                         /\ bundle # NoRecord => PythonCommitments(bundle.data_commitments)
  BY DEF Once
<1>c. ComputationOnce /\ comp' = comp => ComputationOnce'
  BY DEF ComputationOnce
<1>1. ASSUME NEW f \in ComputationFields \ {"integrity_hash"}, NEW v \in FieldValues(f),
             SetField(f, v)
      PROVE  Once'
  <2>1. ~rewritten' => ComputationOnce' /\ BuilderOnce' /\ BundleOnce'
    BY <1>1, FirstSetting
  <2>2. UNCHANGED <<lang, builder, bundle>>
    BY <1>1 DEF SetField
  <2> QED
    BY <1>p, <2>1, <2>2 DEF Once
<1>2. CASE SetIntegrityHash
  BY <1>p, <1>2 DEF SetIntegrityHash, Once
<1>3. CASE ComputeIntegrityHash
  <2>1. /\ None \notin {comp.input_hash, comp.output_hash, comp.trace_hash}
        /\ UNCHANGED <<lang, builder, bundle, rewritten>>
    BY <1>3 DEF ComputeIntegrityHash
  <2>2. ASSUME ~rewritten, comp.integrity_hash # None
        PROVE  comp' = comp
    <3>1. comp.integrity_hash =
              compute_integrity_hash(comp.input_hash, comp.output_hash, comp.trace_hash)
      BY <1>r, <2>2 DEF ComputationOnce
    <3>2. comp' = [comp EXCEPT !.integrity_hash = comp.integrity_hash]
      BY <1>3, <3>1 DEF ComputeIntegrityHash
    <3> QED
      BY <3>2 DEF Shaped, HasFields
  <2>3. ASSUME ~rewritten, comp.integrity_hash = None
        PROVE  ComputationOnce' /\ BuilderOnce' /\ BundleOnce'
    <3> DEFINE h == compute_integrity_hash(comp.input_hash, comp.output_hash, comp.trace_hash)
    <3>1. comp' = [comp EXCEPT !.integrity_hash = h]
      BY <1>3 DEF ComputeIntegrityHash
    <3> HIDE DEF h
    <3>2. /\ comp'.integrity_hash = h /\ comp'.circuit = comp.circuit
          /\ comp'.circuit_hash = comp.circuit_hash /\ comp'.input_hash = comp.input_hash
          /\ comp'.output_hash = comp.output_hash /\ comp'.trace_hash = comp.trace_hash
      BY <3>1 DEF Shaped, HasFields, ComputationFields, ComputationHashes
    <3>3. ComputationOnce'
      BY <1>r, <2>1, <2>3, <3>2 DEF ComputationOnce, h
    <3>4. ~ComputationOK(comp) /\ comp # NoRecord
      <4>1. /\ DOMAIN comp = ComputationFields /\ DOMAIN NoRecord = {"none"}
            /\ "integrity_hash" \in ComputationFields
        BY DEF Shaped, HasFields, NoRecord, ComputationFields, ComputationHashes
      <4> QED
        BY <2>3, <4>1 DEF ComputationOK
    <3>5. builder.computation = NoRecord /\ builder.bundle_id = None /\ bundle = NoRecord
      BY <1>r, <1>b, <2>3, <3>4 DEF BuilderOnce, BundleOnce, BuilderOK
    <3>6. BuilderOnce'
      BY <1>r, <2>1, <2>3, <3>2, <3>5 DEF BuilderOnce, ProofBuilder_build
    <3>7. BundleOnce'
      BY <2>1, <3>5 DEF BundleOnce
    <3> QED
      BY <3>3, <3>6, <3>7
  <2>4. ASSUME ~rewritten, comp.integrity_hash # None
        PROVE  ComputationOnce' /\ BuilderOnce' /\ BundleOnce'
    BY <1>r, <1>c, <2>1, <2>2, <2>4 DEF BuilderOnce, BundleOnce, ProofBuilder_build
  <2> QED
    BY <1>p, <2>1, <2>3, <2>4 DEF Once
<1>4. CASE SetComputation
  <2>1. /\ builder'.computation = comp
        /\ \A j \in BuilderFields : j # "computation" => builder'[j] = builder[j]
    BY <1>b, <1>f, <1>4, AssignFields DEF SetComputation
  <2>2. UNCHANGED <<lang, comp, bundle>>
    BY <1>4 DEF SetComputation
  <2>3. ASSUME ~rewritten'
        PROVE  ComputationOnce' /\ BuilderOnce' /\ BundleOnce'
    <3>1. ~rewritten
      BY <1>4, <2>3 DEF SetComputation
    <3> QED
      BY <1>r, <1>c, <1>f, <2>1, <2>2, <3>1 DEF BuilderOnce, BundleOnce, ProofBuilder_build
  <2> QED
    BY <1>f, <1>p, <2>1, <2>2, <2>3 DEF Once
<1>5. CASE SetProof
  <2>1. /\ builder'.proof = ProofBuilder_build(1)
        /\ \A j \in BuilderFields : j # "proof" => builder'[j] = builder[j]
    BY <1>b, <1>f, <1>5, AssignFields DEF SetProof
  <2>2. UNCHANGED <<lang, comp, bundle>>
    BY <1>5 DEF SetProof
  <2>3. ASSUME ~rewritten'
        PROVE  ComputationOnce' /\ BuilderOnce' /\ BundleOnce'
    <3>1. ~rewritten /\ builder.proof = NoRecord /\ None \notin {comp.circuit_hash, comp.trace_hash}
      BY <1>5, <2>3 DEF SetProof
    <3>2. bundle = NoRecord
      BY <1>r, <3>1 DEF BundleOnce
    <3> QED
      BY <1>r, <1>c, <1>f, <2>1, <2>2, <3>1, <3>2
         DEF BuilderOnce, BundleOnce, ProofBuilder_build
  <2> QED
    BY <1>f, <1>p, <2>1, <2>2, <2>3 DEF Once
<1>6. ASSUME NEW k \in {"ai_identity", "timestamp_authority", "depends_on"}, NEW v, Assign(k, v),
             UNCHANGED <<lang, comp, bundle, rewritten>>
      PROVE  Once'
  <2>1. \A j \in BuilderFields : j # k => builder'[j] = builder[j]
    BY <1>b, <1>f, <1>6, AssignFields
  <2>2. ASSUME ~rewritten'
        PROVE  ComputationOnce' /\ BuilderOnce' /\ BundleOnce'
    BY <1>r, <1>c, <1>f, <1>6, <2>1, <2>2 DEF BuilderOnce, BundleOnce, ProofBuilder_build
  <2> QED
    BY <1>f, <1>p, <1>6, <2>1, <2>2 DEF Once
<1>7. ASSUME NEW k \in {"bundle_id", "vrl_version"}, NEW v, Assign(k, v), rewritten',
             UNCHANGED <<lang, bundle>>
      PROVE  Once'
  <2>1. \A j \in BuilderFields : j # k => builder'[j] = builder[j]
    BY <1>b, <1>f, <1>7, AssignFields
  <2> QED
    BY <1>f, <1>p, <1>7, <2>1 DEF Once
<1>8. ASSUME NEW dataset \in Datasets, AddDataCommitment(dataset)
      PROVE  Once'
  <2> DEFINE list == Append(builder.data_commitments, CommitmentFor(dataset))
  <2>1. Assign("data_commitments", list)
    BY <1>8 DEF AddDataCommitment
  <2>2. bundle' = IF shared THEN [bundle EXCEPT !.data_commitments = list] ELSE bundle
    BY <1>8 DEF AddDataCommitment
  <2>3. UNCHANGED <<lang, comp, rewritten>>
    BY <1>8 DEF AddDataCommitment
  <2>4. lang = "python" => PythonCommitments(list)
    <3> SUFFICES ASSUME lang = "python" PROVE PythonCommitments(list)
      OBVIOUS
    <3>1. builder.data_commitments \in Seq(Commitments)
      BY <1>b DEF BuilderOK, OptionalOK
    <3> DEFINE c == CommitmentFor(dataset)
               s == builder.data_commitments
    <3>2. c.commitment_hash = compute_commitment_hash(c.dataset_id) /\ c.dataset_id # NoDataset
      BY BundleBounds DEF CommitmentFor
    <3>3. c \in Commitments
      BY CommitmentIsOne
    <3> HIDE DEF c, s
    <3>4. /\ DOMAIN Append(s, c) = 1 .. Len(s) + 1 /\ DOMAIN s = 1 .. Len(s)
          /\ \A i \in 1 .. Len(s) : Append(s, c)[i] = s[i]
          /\ Append(s, c)[Len(s) + 1] = c /\ Len(s) \in Nat
      BY <3>1, <3>3 DEF s
    <3>5. PythonCommitments(s)
      BY <1>p DEF s
    <3>6. ASSUME NEW i \in 1 .. Len(s) + 1
          PROVE  /\ Append(s, c)[i].commitment_hash =
                       compute_commitment_hash(Append(s, c)[i].dataset_id)
                 /\ Append(s, c)[i].dataset_id # NoDataset
      <4>1. CASE i = Len(s) + 1
        BY <3>2, <3>4, <4>1
      <4>2. CASE i # Len(s) + 1
        <5>1. i \in 1 .. Len(s)
          BY <3>4, <4>2
        <5> QED
          BY <3>4, <3>5, <5>1 DEF PythonCommitments
      <4> QED
        BY <4>1, <4>2
    <3> QED
      BY <3>4, <3>6 DEF PythonCommitments, c, s
  <2> HIDE DEF list
  <2>5. /\ builder'.data_commitments = list
        /\ \A j \in BuilderFields : j # "data_commitments" => builder'[j] = builder[j]
    BY <1>b, <1>f, <2>1, AssignFields
  <2>6. /\ shared => bundle'.data_commitments = list /\ bundle # NoRecord /\ bundle' # NoRecord
        /\ ~shared => bundle' = bundle
        /\ \A j \in DocumentFields : j # "data_commitments" => bundle'[j] = bundle[j]
    <3>1. CASE shared
      <4>1. DocumentOK(bundle)
        BY <3>1 DEF Shaped
      <4>2. /\ bundle'.data_commitments = list /\ DOMAIN bundle' = DOMAIN bundle
            /\ \A j \in DocumentFields : j # "data_commitments" => bundle'[j] = bundle[j]
        BY <2>2, <3>1, <4>1 DEF DocumentOK, HasFields, DocumentFields
      <4>3. DOMAIN bundle = DocumentFields /\ DOMAIN NoRecord = {"none"}
        BY <4>1 DEF DocumentOK, HasFields, NoRecord
      <4>4. "proof" \in DocumentFields
        BY DEF DocumentFields
      <4> QED
        BY <3>1, <4>2, <4>3, <4>4
    <3>2. CASE ~shared
      BY <2>2, <3>2
    <3> QED
      BY <3>1, <3>2
  <2>7. bundle' # NoRecord => bundle # NoRecord
    BY <2>6
  <2>8. ASSUME ~rewritten'
        PROVE  ComputationOnce' /\ BuilderOnce' /\ BundleOnce'
    <3>1. ComputationOnce /\ BuilderOnce /\ BundleOnce
      BY <1>r, <2>3, <2>8
    <3>2. BuilderOnce'
      BY <1>f, <2>3, <2>5, <3>1 DEF BuilderOnce, ProofBuilder_build
    <3>3. BundleOnce'
      BY <1>f, <2>3, <2>5, <2>6, <2>7, <3>1 DEF BundleOnce, DocumentFields
    <3> QED
      BY <1>c, <2>3, <3>1, <3>2, <3>3
  <2> QED
    BY <1>p, <2>3, <2>4, <2>5, <2>6, <2>7, <2>8 DEF Once
<1>9. CASE Build
  <2>1. /\ builder'.bundle_id = BundleId
        /\ \A j \in BuilderFields : j # "bundle_id" => builder'[j] = builder[j]
    BY <1>b, <1>f, <1>9, AssignFields DEF Build
  <2>2. UNCHANGED <<lang, comp, rewritten>>
    BY <1>9 DEF Build
  <2>3. NoRecord \notin {builder.ai_identity, builder.computation, builder.proof}
    BY <1>9 DEF Build
  <2>4. /\ bundle'.vrl_version = builder.vrl_version /\ bundle'.bundle_id = BundleId
        /\ bundle'.missing = {} /\ bundle'.null = {} /\ bundle'.sparse = FALSE
        /\ bundle'.ai_identity = builder.ai_identity
        /\ bundle'.computation = builder.computation
        /\ bundle'.proof = builder.proof /\ bundle'.data_commitments = builder.data_commitments
        /\ bundle'.timestamp_authority = builder.timestamp_authority
    BY <1>9 DEF Build
  <2>5. BundleId # None
    BY DEF BundleId, None, compute_bundle_id_from_integrity, generateBundleId
  <2>6. ASSUME ~rewritten'
        PROVE  ComputationOnce' /\ BuilderOnce' /\ BundleOnce'
    <3>1. ComputationOnce /\ BuilderOnce
      BY <1>r, <2>2, <2>6
    <3>2. builder.computation = comp /\ builder.ai_identity = AIIdentityBuilder_build
      BY <1>b, <2>3, <3>1 DEF BuilderOnce, BuilderOK
    <3>3. lang = "python" => BundleId = compute_bundle_id_from_integrity(comp.integrity_hash)
      BY <3>1, <3>2 DEF BundleId, BuilderOnce
    <3>4. BuilderOnce'
      BY <1>f, <2>1, <2>2, <3>1, <3>2, <3>3 DEF BuilderOnce, ProofBuilder_build
    <3>5. builder.timestamp_authority \notin {"keyless", "extended"}
      BY <1>b DEF BuilderOK
    <3>6. BundleOnce'
      BY <1>f, <2>1, <2>2, <2>3, <2>4, <2>5, <3>1, <3>2, <3>5 DEF BundleOnce, BuilderOnce
    <3> QED
      BY <1>c, <2>2, <3>1, <3>4, <3>6
  <2> QED
    BY <1>f, <1>p, <2>1, <2>2, <2>4, <2>6 DEF Once
<1>10. CASE Publish
  <2>1. comp' = ComputationBuilder /\ builder' = ProofBundleBuilder /\ bundle' = NoRecord
    BY <1>10 DEF Publish
  <2>2. /\ comp'.circuit = None /\ comp'.circuit_hash = None /\ comp'.input_hash = None
        /\ comp'.output_hash = None /\ comp'.trace_hash = None /\ comp'.integrity_hash = None
    BY <2>1 DEF ComputationBuilder, ComputationFields, ComputationHashes
  <2>3. ComputationOnce'
    BY <2>2 DEF ComputationOnce
  <2>4. BuilderOnce' /\ builder'.data_commitments = <<>>
    BY <2>1 DEF BuilderOnce, ProofBundleBuilder
  <2> QED
    BY <2>1, <2>3, <2>4 DEF BundleOnce, Once, PythonCommitments
<1>11. CASE Damage \/ UNCHANGED vars
  <2>1. UNCHANGED building
    BY <1>11 DEF Damage, vars, building
  <2> QED
    BY <1>r, <1>c, <1>p, <2>1 DEF building, Once, BuilderOnce, BundleOnce, ProofBuilder_build
<1>12. CASE SetAIIdentity
  BY <1>6, <1>12 DEF SetAIIdentity
<1>13. CASE SetVrlVersion
  BY <1>7, <1>13 DEF SetVrlVersion
<1>14. ASSUME NEW id, SetBundleId(id)
       PROVE  Once'
  BY <1>7, <1>14 DEF SetBundleId
<1>15. ASSUME NEW tsa, SetLegal(tsa)
       PROVE  Once'
  BY <1>6, <1>15 DEF SetLegal
<1>16. ASSUME NEW list, SetProofGraph(list)
       PROVE  Once'
  BY <1>6, <1>16 DEF SetProofGraph
<1> QED
  BY <1>1, <1>2, <1>3, <1>4, <1>5, <1>8, <1>9, <1>10, <1>11, <1>12, <1>13, <1>14, <1>15, <1>16
     DEF BundleNext

\* Such a bundle passes the eight required steps of the SDK, and loads.
LEMMA OncePasses ==
    ASSUME Shaped, Once, bundle # NoRecord, ~rewritten, lang = "python"
    PROVE  /\ ProofBundle_from_dict(bundle) /\ SdkPasses(bundle)
           /\ bundle.timestamp_authority \notin {"keyless", "extended"} /\ bundle.depends_on \in Seq(Entries)
<1>1. ComputationOnce /\ BuilderOnce /\ BundleOnce
  BY DEF Once
<1>2. DocumentOK(bundle)
  BY DEF Shaped
<1> DEFINE c == bundle.computation
<1>3. /\ c.circuit = <<"name", 1>> /\ c.circuit_hash = _compute_mock_circuit_hash(<<"name", 1>>)
      /\ c.input_hash = compute_input_hash(1) /\ c.output_hash = compute_output_hash(1)
      /\ \E t \in TraceValues : c.trace_hash = compute_trace_hash(t)
      /\ c.integrity_hash = compute_integrity_hash(c.input_hash, c.output_hash, c.trace_hash)
  <2>1. c = comp /\ ComputationOK(c)
    BY <1>1, <1>2 DEF BundleOnce, DocumentOK
  <2>2. /\ c.circuit # None /\ c.circuit_hash # None /\ c.input_hash # None
        /\ c.output_hash # None /\ c.trace_hash # None /\ c.integrity_hash # None
    BY <2>1 DEF ComputationOK, ComputationFields, ComputationHashes
  <2> HIDE DEF c
  <2> QED
    BY <1>1, <2>1, <2>2 DEF ComputationOnce
<1>4. /\ bundle.proof = ProofBuilder_build(1) /\ c = comp
      /\ bundle.bundle_id = compute_bundle_id_from_integrity(c.integrity_hash)
  BY <1>1 DEF BuilderOnce, BundleOnce
<1>5. /\ bundle.proof.proof_system = "sha256-deterministic" /\ bundle.proof.content = 1
      /\ bundle.proof.proof_hash = compute_proof_hash(c.circuit_hash, 1, "sha256-deterministic",
                                                      c.trace_hash)
  BY <1>4 DEF ProofBuilder_build
<1>6. /\ bundle.ai_identity.ai_id = compute_ai_id(1)
      /\ bundle.ai_identity.execution_environment = "deterministic"
  BY <1>1 DEF BundleOnce, AIIdentityBuilder_build
<1>7. /\ bundle.vrl_version = "1.0" /\ bundle.missing = {} /\ bundle.null = {} /\ ~bundle.sparse
      /\ bundle.timestamp_authority \notin {"keyless", "extended"}
  BY <1>1 DEF BundleOnce
<1>8. /\ \A x, y : <<x, y>> \notin {Missing, <<"short">>, <<"upper">>, <<"letters">>}
      /\ \A x, y, z, w : <<x, y, z, w>> \notin {Missing, <<"short">>, <<"upper">>, <<"letters">>}
      /\ \A x, y, z, w, v :
            <<x, y, z, w, v>> \notin {Missing, <<"short">>, <<"upper">>, <<"letters">>}
  BY DEF Missing
<1> HIDE DEF c
<1>9. /\ \A f \in ComputationHashes : _is_valid_hex_hash(c[f])
      /\ _is_valid_hex_hash(bundle.proof.proof_hash)
      /\ _is_valid_hex_hash(bundle.ai_identity.ai_id)
  <2>1. /\ _is_valid_hex_hash(c.circuit_hash) /\ _is_valid_hex_hash(c.input_hash)
        /\ _is_valid_hex_hash(c.output_hash) /\ _is_valid_hex_hash(c.trace_hash)
    BY <1>3, <1>8 DEF _is_valid_hex_hash, compute_input_hash, compute_output_hash,
                      compute_trace_hash, _compute_mock_circuit_hash
  <2>2. _is_valid_hex_hash(c.integrity_hash)
    BY <1>3, <1>8 DEF _is_valid_hex_hash, compute_integrity_hash
  <2>3. /\ _is_valid_hex_hash(bundle.proof.proof_hash)
        /\ _is_valid_hex_hash(bundle.ai_identity.ai_id)
    BY <1>5, <1>6, <1>8 DEF _is_valid_hex_hash, compute_proof_hash, compute_ai_id
  <2> QED
    BY <2>1, <2>2, <2>3 DEF ComputationHashes
<1>10. ProofBundle_from_dict(bundle)
  <2>1. AIIdentity_from_dict(bundle.ai_identity)
    BY <1>6, <1>9 DEF AIIdentity_from_dict, ValidEnvironments
  <2>2. Computation_from_dict(bundle.computation)
    BY <1>3, <1>8, <1>9 DEF Computation_from_dict, _is_valid_hex_hash, c
  <2>3. Proof_from_dict(bundle.proof)
    BY <1>5, <1>9 DEF Proof_from_dict, _is_valid_hex_hash, ValidSystems, NoContent
  <2>4. ASSUME NEW i \in 1 .. Len(bundle.data_commitments)
        PROVE  DataCommitment_from_dict(bundle.data_commitments[i])
    <3>1. /\ PythonCommitments(bundle.data_commitments)
          /\ bundle.data_commitments \in Seq(Commitments)
      BY <1>2 DEF Once, DocumentOK, OptionalOK
    <3>2. \A x : compute_commitment_hash(x) # Missing
      BY DEF compute_commitment_hash, Missing
    <3>3. i \in DOMAIN bundle.data_commitments
      BY <3>1
    <3> QED
      BY <3>1, <3>2, <3>3, Zenon DEF PythonCommitments, DataCommitment_from_dict
  <2> QED
    BY <1>7, <2>1, <2>2, <2>3, <2>4, Zenon DEF ProofBundle_from_dict,
                                              TimestampAuthority_from_dict
<1>11. Sdk_step8_data_commitment_verification(bundle)
  <2>1. PythonCommitments(bundle.data_commitments)
    BY DEF Once
  <2>2. bundle.data_commitments \in Seq(Commitments)
    BY <1>2 DEF DocumentOK, OptionalOK
  <2> QED
    BY <2>1, <2>2 DEF PythonCommitments, Sdk_step8_data_commitment_verification
<1>12. SdkPasses(bundle)
  <2>1. Sdk_step1_version_check(bundle) /\ Sdk_step2_schema_validation(bundle)
    BY <1>7, <1>9 DEF Sdk_step1_version_check, Sdk_step2_schema_validation, c
  <2>2. Sdk_step3_bundle_id_check(bundle) /\ Sdk_step4_integrity_hash_check(bundle)
    BY <1>3, <1>4, Zenon DEF Sdk_step3_bundle_id_check, Sdk_step4_integrity_hash_check, c
  <2>3. Sdk_step5_circuit_resolution(bundle)
    BY <1>3 DEF Sdk_step5_circuit_resolution, c
  <2>4. Sdk_step6_proof_structure_validation(bundle)
    <3>1. "sha256-deterministic" \in ValidSystems
      BY DEF ValidSystems
    <3> QED
      BY <1>5, <3>1 DEF Sdk_step6_proof_structure_validation, c
  <2>5. Sdk_step7_ai_id_verification(bundle)
    BY <1>9 DEF Sdk_step7_ai_id_verification
  <2> QED
    BY <1>11, <2>1, <2>2, <2>3, <2>4, <2>5 DEF SdkPasses
<1>13. bundle.depends_on \in Seq(Entries)
  BY <1>2 DEF DocumentOK, OptionalOK
<1> QED
  BY <1>7, <1>10, <1>12, <1>13

\* What a caller of the Python builders gets who sets no field twice, in whatever
\* order it makes its calls, verifies; and it keeps verifying while the caller
\* goes on adding to the list of commitments that the bundle shares.
THEOREM SetOnceVerifies == BundleSpec => []WriteOnceVerifies
<1>1. BundleInit => Once
  <2> SUFFICES ASSUME BundleInit PROVE Once
    OBVIOUS
  <2>1. comp = ComputationBuilder /\ builder = ProofBundleBuilder /\ bundle = NoRecord
    BY DEF BundleInit
  <2>2. /\ comp.circuit = None /\ comp.circuit_hash = None /\ comp.input_hash = None
        /\ comp.output_hash = None /\ comp.trace_hash = None /\ comp.integrity_hash = None
    BY <2>1 DEF ComputationBuilder, ComputationFields, ComputationHashes
  <2>3. ComputationOnce
    BY <2>2 DEF ComputationOnce
  <2>4. BuilderOnce /\ builder.data_commitments = <<>>
    BY <2>1 DEF BuilderOnce, ProofBundleBuilder
  <2> QED
    BY <2>1, <2>3, <2>4 DEF BundleOnce, Once, PythonCommitments
<1>2. Shaped /\ Once /\ [BundleNext]_vars => Once'
  BY OnceInductive
<1>3. Shaped /\ Once => WriteOnceVerifies
  <2> SUFFICES ASSUME Shaped, Once, bundle # NoRecord, ~rewritten, lang = "python"
               PROVE  WriteOnceVerifies
    BY DEF WriteOnceVerifies
  <2>1. /\ ProofBundle_from_dict(bundle) /\ SdkPasses(bundle)
        /\ bundle.timestamp_authority \notin {"keyless", "extended"} /\ bundle.depends_on \in Seq(Entries)
    BY OncePasses
  <2>2. Sdk_verify(bundle) = Sdk_check(bundle)
    BY <2>1 DEF Sdk_check
  <2>3. GraphLoop(bundle.depends_on) \in {"returns", "ValueError", "AttributeError", "TypeError"}
    BY <2>1, LoopReturns
  <2>4. CASE GraphLoop(bundle.depends_on) \in {"AttributeError", "TypeError"}
    <3>1. Sdk_verify(bundle) = Raised
      BY <2>1, <2>2, <2>4, SdkReturns
    <3>2. Sdk_verify(bundle).status = "RAISED"
      BY <3>1 DEF Raised
    <3> QED
      BY <2>4, <3>2 DEF WriteOnceVerifies
  <2>5. CASE GraphLoop(bundle.depends_on) \notin {"AttributeError", "TypeError"}
    <3>1. /\ Sdk_step9_timestamp_verification(bundle) <=> bundle.timestamp_authority # "blank"
          /\ Sdk_step10_proof_graph_verification(bundle) <=> GraphLoop(bundle.depends_on) = "returns"
      BY <2>1, <2>3, <2>5 DEF Sdk_step9_timestamp_verification, Sdk_step10_proof_graph_verification
    <3>2. \/ /\ Sdk_step9_timestamp_verification(bundle)
             /\ Sdk_step10_proof_graph_verification(bundle)
             /\ Sdk_verify(bundle) = [status |-> "VALID", failed |-> {}, is_valid |-> TRUE]
          \/ /\ ~(/\ Sdk_step9_timestamp_verification(bundle)
                  /\ Sdk_step10_proof_graph_verification(bundle))
             /\ Sdk_verify(bundle).status = "VALID_PARTIAL"
      BY <2>1, <2>2, <2>5, SdkReturns
    <3>3. Sdk_verify(bundle).status =
              IF bundle.timestamp_authority = "blank" \/ GraphLoop(bundle.depends_on) # "returns"
              THEN "VALID_PARTIAL" ELSE "VALID"
      BY <3>1, <3>2
    <3> QED
      BY <3>3 DEF WriteOnceVerifies
  <2> QED
    BY <2>4, <2>5
<1> QED
  BY <1>1, <1>2, <1>3, BundleShapes, PTL DEF BundleSpec

-----------------------------------------------------------------------------
(***************************************************************************)
(* Damage to a published document.                                         *)
(***************************************************************************)

\* One damage changes at most one of the fields that are bound to each other.
LEMMA DamageTouchesOne ==
    ASSUME NEW d, DocumentOK(d), NEW e, OneDamage(d, e)
    PROVE  \E x : \A k \in BoundFields : k # x => BoundField(e, k) = BoundField(d, k)
<1>f. /\ HasFields(d, DocumentFields) /\ HasFields(d.ai_identity, IdentityFields)
      /\ HasFields(d.computation, ComputationFields) /\ HasFields(d.proof, ProofFields)
  BY DEF DocumentOK, ComputationOK, ProofOK
<1>b. BoundFields = {"bundle_id", "content", "proof_system", "proof_hash", "circuit",
                     "circuit_hash", "input_hash", "output_hash", "trace_hash",
                     "integrity_hash"}
  BY DEF BoundFields, ComputationFields, ComputationHashes
<1>s. ASSUME NEW r
      PROVE  /\ BoundField(r, "bundle_id") = r.bundle_id
             /\ \A k \in ProofFields : BoundField(r, k) = r.proof[k]
             /\ \A k \in ComputationFields : BoundField(r, k) = r.computation[k]
  BY DEF BoundField, ProofFields, ComputationFields, ComputationHashes
<1>t. \A k \in BoundFields : k = "bundle_id" \/ k \in ProofFields \/ k \in ComputationFields
  BY <1>b DEF ProofFields, ComputationFields, ComputationHashes
<1>1. ASSUME e.bundle_id = d.bundle_id, e.computation = d.computation, e.proof = d.proof
      PROVE  \A k \in BoundFields : BoundField(e, k) = BoundField(d, k)
  BY <1>1, <1>s, <1>t
<1>2. ASSUME NEW k \in LooseFields \cup {"ai_identity"}, NEW v, e = [d EXCEPT ![k] = v]
      PROVE  \A j \in BoundFields : BoundField(e, j) = BoundField(d, j)
  <2>1. \A j \in DocumentFields : j # k => e[j] = d[j]
    BY <1>f, <1>2 DEF HasFields
  <2>2. k \notin {"bundle_id", "computation", "proof"}
    BY DEF LooseFields
  <2>3. e.bundle_id = d.bundle_id /\ e.computation = d.computation /\ e.proof = d.proof
    BY <2>1, <2>2 DEF DocumentFields
  <2> QED
    BY <1>1, <2>3
<1>3. ASSUME NEW v, e = [d EXCEPT !.bundle_id = v]
      PROVE  \A k \in BoundFields : k # "bundle_id" => BoundField(e, k) = BoundField(d, k)
  <2>1. e.computation = d.computation /\ e.proof = d.proof
    BY <1>f, <1>3 DEF HasFields, DocumentFields
  <2> QED
    BY <1>s, <1>t, <2>1
<1>4. ASSUME NEW f \in ComputationFields, NEW v,
             e = [d EXCEPT !.computation = [d.computation EXCEPT ![f] = v]]
      PROVE  \A k \in BoundFields : k # f => BoundField(e, k) = BoundField(d, k)
  <2> DEFINE c == [d.computation EXCEPT ![f] = v]
  <2>1. \A j \in ComputationFields : j # f => c[j] = d.computation[j]
    BY <1>f DEF HasFields
  <2>2. e = [d EXCEPT !.computation = c]
    BY <1>4
  <2> HIDE DEF c
  <2>3. e.bundle_id = d.bundle_id /\ e.computation = c /\ e.proof = d.proof
    BY <1>f, <2>2 DEF HasFields, DocumentFields
  <2> QED
    BY <1>s, <1>t, <2>1, <2>3
<1>5. ASSUME NEW f \in ProofFields, NEW v,
             e = [d EXCEPT !.proof = [d.proof EXCEPT ![f] = v]]
      PROVE  \A k \in BoundFields : k # f => BoundField(e, k) = BoundField(d, k)
  <2> DEFINE c == [d.proof EXCEPT ![f] = v]
  <2>1. \A j \in ProofFields : j # f => c[j] = d.proof[j]
    BY <1>f DEF HasFields
  <2>2. e = [d EXCEPT !.proof = c]
    BY <1>5
  <2> HIDE DEF c
  <2>3. e.bundle_id = d.bundle_id /\ e.computation = d.computation /\ e.proof = c
    BY <1>f, <2>2 DEF HasFields, DocumentFields
  <2> QED
    BY <1>s, <1>t, <2>1, <2>3
<1>6. CASE \E k \in LooseFields : \E v : LooseValue(k, v) /\ e = [d EXCEPT ![k] = v]
  BY <1>2, <1>6
<1>7. CASE \E v : v # None /\ e = [d EXCEPT !.bundle_id = v]
  BY <1>3, <1>7
<1>8. CASE \E f \in ComputationFields : \E v :
             v # None /\ e = [d EXCEPT !.computation = [d.computation EXCEPT ![f] = v]]
  BY <1>4, <1>8, Zenon
<1>9. CASE \E f \in ProofFields : \E v : /\ f = "proof_system" => v = "unknown"
                                         /\ e = [d EXCEPT !.proof = [d.proof EXCEPT ![f] = v]]
  BY <1>5, <1>9, Zenon
<1>10. CASE \E f \in IdentityFields : \E v :
             e = [d EXCEPT !.ai_identity = [d.ai_identity EXCEPT ![f] = v]]
  BY <1>2, <1>10
<1> QED
  BY <1>6, <1>7, <1>8, <1>9, <1>10, Zenon DEF OneDamage

\* The fields that changed are finitely many.
LEMMA ChangedIsFinite == IsFiniteSet(Changed) /\ Cardinality(Changed) \in Nat
<1>1. IsFiniteSet(BoundFields)
  <2>1. ASSUME NEW S, IsFiniteSet(S), NEW x, NEW y
        PROVE  IsFiniteSet(S \cup {x, y})
    <3>1. IsFiniteSet((S \cup {x}) \cup {y})
      BY <2>1, FS_AddElement
    <3>2. (S \cup {x}) \cup {y} = S \cup {x, y}
      OBVIOUS
    <3> QED
      BY <3>1, <3>2
  <2> DEFINE A == {} \cup {"bundle_id", "content"}
             B == A \cup {"proof_system", "proof_hash"}
             C == B \cup {"circuit", "circuit_hash"}
             D == C \cup {"input_hash", "output_hash"}
             E == D \cup {"trace_hash", "integrity_hash"}
  <2>2. IsFiniteSet(A)
    BY <2>1, FS_EmptySet
  <2>3. BoundFields = E
    BY DEF BoundFields, ComputationFields, ComputationHashes
  <2> HIDE DEF A
  <2>4. IsFiniteSet(B)
    BY <2>1, <2>2
  <2> HIDE DEF B
  <2>5. IsFiniteSet(C)
    BY <2>1, <2>4
  <2> HIDE DEF C
  <2>6. IsFiniteSet(D)
    BY <2>1, <2>5
  <2> HIDE DEF D
  <2>7. IsFiniteSet(E)
    BY <2>1, <2>6
  <2> HIDE DEF E
  <2> QED
    BY <2>3, <2>7
<1>2. Changed \subseteq BoundFields
  BY DEF Changed
<1>3. IsFiniteSet(Changed)
  BY <1>1, <1>2, FS_Subset
<1> QED
  BY <1>3, FS_CardinalityType

\* Every damage is counted.
LEMMA FewChangedInductive ==
    ASSUME Shaped, FewChanged, [BundleNext]_vars
    PROVE  FewChanged'
<1>1. CASE Publish
  <2>1. Changed' = {}
    BY <1>1 DEF Publish, Changed
  <2>2. Cardinality({}) = 0
    BY FS_EmptySet
  <2>3. Cardinality(Changed') = 0
    BY <2>1, <2>2
  <2>4. edits' \in Nat
    BY <1>1, BundleBounds DEF Publish, Shaped
  <2> QED
    BY <2>3, <2>4 DEF FewChanged
<1>2. CASE Damage
  <2>1. ~Building /\ DocumentOK(doc) /\ doc' \in Damages(doc) /\ origin' = origin /\ edits' = edits + 1
    BY <1>2 DEF Damage, Building, Shaped
  <2>2. PICK x : \A k \in BoundFields : k # x => BoundField(doc', k) = BoundField(doc, k)
    BY <2>1, DamageIsOne, DamageTouchesOne
  <2>3. \A y : y # x => (y \in Changed <=> y \in Changed')
    BY <2>1, <2>2 DEF Changed
  <2> DEFINE S == Changed
             T == Changed'
  <2>4. IsFiniteSet(S) /\ Cardinality(S) <= edits /\ edits \in Nat
    BY <2>1, ChangedIsFinite, BundleBounds DEF FewChanged, Shaped
  <2>5. \A y : y # x => (y \in S <=> y \in T)
    BY <2>3
  <2> HIDE DEF S, T
  <2>6. /\ Cardinality(S) \in Nat /\ Cardinality(T) \in Nat
        /\ Cardinality(T) = Cardinality(S) - (IF x \in S THEN 1 ELSE 0) + (IF x \in T THEN 1 ELSE 0)
    BY <2>4, <2>5, OneMemberChanges
  <2>7. Cardinality(T) <= edits + 1
    BY <2>4, <2>6
  <2> QED
    BY <2>1, <2>7 DEF FewChanged, T
<1>3. ASSUME UNCHANGED published
      PROVE  FewChanged'
  BY <1>3 DEF published, FewChanged, Building, Changed
<1>4. CASE UNCHANGED vars
  BY <1>3, <1>4 DEF vars, published
<1>5. ASSUME NEW f, NEW v, SetField(f, v) PROVE FewChanged'
  BY <1>3, <1>5 DEF SetField
<1>6. CASE SetIntegrityHash \/ ComputeIntegrityHash
  BY <1>3, <1>6 DEF SetIntegrityHash, ComputeIntegrityHash
<1>7. CASE SetComputation \/ SetProof \/ SetAIIdentity \/ SetVrlVersion
  BY <1>3, <1>7 DEF SetComputation, SetProof, SetAIIdentity, SetVrlVersion
<1>8. ASSUME NEW id, SetBundleId(id) PROVE FewChanged'
  BY <1>3, <1>8 DEF SetBundleId
<1>9. ASSUME NEW tsa, SetLegal(tsa) PROVE FewChanged'
  BY <1>3, <1>9 DEF SetLegal
<1>10. ASSUME NEW list, SetProofGraph(list) PROVE FewChanged'
  BY <1>3, <1>10 DEF SetProofGraph
<1>11. ASSUME NEW dataset, AddDataCommitment(dataset) PROVE FewChanged'
  BY <1>3, <1>11 DEF AddDataCommitment
<1>12. CASE Build
  BY <1>3, <1>12 DEF Build
<1> QED
  BY <1>1, <1>2, <1>4, <1>5, <1>6, <1>7, <1>8, <1>9, <1>10, <1>11, <1>12 DEF BundleNext

\* A set with three members has at least three.
LEMMA ThreeMembers ==
    ASSUME NEW S, IsFiniteSet(S), NEW a \in S, NEW b \in S, NEW c \in S, a # b, a # c, b # c
    PROVE  Cardinality(S) >= 3
<1>1. IsFiniteSet({a}) /\ Cardinality({a}) = 1
  BY FS_Singleton
<1>2. IsFiniteSet({a} \cup {b}) /\ Cardinality({a} \cup {b}) = 2
  <2> DEFINE A == {a}
  <2>1. b \notin A /\ IsFiniteSet(A) /\ Cardinality(A) = 1
    BY <1>1
  <2> HIDE DEF A
  <2>2. IsFiniteSet(A \cup {b}) /\ Cardinality(A \cup {b}) = 1 + 1
    BY <2>1, FS_AddElement
  <2> QED
    BY <2>2 DEF A
<1>3. IsFiniteSet({a} \cup {b} \cup {c}) /\ Cardinality({a} \cup {b} \cup {c}) = 3
  <2>1. c \notin {a} \cup {b}
    OBVIOUS
  <2> QED
    BY <1>2, <2>1, FS_AddElement
<1>4. {a} \cup {b} \cup {c} \subseteq S
  OBVIOUS
<1>5. Cardinality({a} \cup {b} \cup {c}) <= Cardinality(S) /\ Cardinality(S) \in Nat
  BY <1>4, FS_Subset, FS_CardinalityType
<1> QED
  BY <1>3, <1>5

\* What a document that verifies is bound to: the identifier to the integrity
\* hash, that to three hashes, the circuit's hash to the circuit, and the proof's
\* hash to it.
BoundTogether(d) ==
    /\ d.bundle_id = compute_bundle_id_from_integrity(d.computation.integrity_hash)
    /\ d.computation.integrity_hash = compute_integrity_hash(
          d.computation.input_hash, d.computation.output_hash, d.computation.trace_hash)
    /\ d.computation.circuit_hash = _compute_mock_circuit_hash(d.computation.circuit)
    /\ d.proof.proof_hash = compute_proof_hash(d.computation.circuit_hash, d.proof.content,
          d.proof.proof_system, d.computation.trace_hash)

\* A valid document is bound together, whichever Python verifier says so.
LEMMA ValidIsBound ==
    ASSUME NEW d, Standalone_verify(d).status = "VALID" \/ Sdk_check(d).status = "VALID"
    PROVE  BoundTogether(d)
<1>r. Raised.status = "RAISED"
  BY DEF Raised
<1>1. CASE Standalone_verify(d).status = "VALID"
  <2>1. StandalonePasses(d)
    <3> SUFFICES ASSUME ~StandalonePasses(d) PROVE FALSE
      OBVIOUS
    <3>1. PICK m \in FailedSteps(StandaloneRequired(d)) :
              Standalone_verify(d) = [status |-> StepCode[m], failed |-> {m}, is_valid |-> FALSE]
      BY StandaloneReturns
    <3>2. m \in 1 .. 8
      BY StandaloneFailures
    <3>3. Standalone_verify(d).status = StepCode[m]
      BY <3>1
    <3> QED
      BY <1>1, <3>2, <3>3, FailingCodes
  <2> QED
    BY <2>1, Zenon DEF StandalonePasses, Standalone_step3_bundle_id_check,
           Standalone_step4_integrity_hash_check, Standalone_step5_circuit_resolution,
           Standalone_step6_proof_structure_validation, BoundTogether
<1>2. CASE Sdk_check(d).status = "VALID"
  <2>0. ProofBundle_from_dict(d)
    BY <1>2, <1>r DEF Sdk_check
  <2>1. SdkPasses(d)
    <3> SUFFICES ASSUME ~SdkPasses(d) PROVE FALSE
      OBVIOUS
    <3>1. PICK m \in FailedSteps(SdkRequired(d)) :
              Sdk_check(d) = [status |-> StepCode[m], failed |-> {m}, is_valid |-> FALSE]
      BY <2>0, SdkReturns
    <3>2. m \in 1 .. 8
      BY <2>0, SdkFailures
    <3>3. Sdk_check(d).status = StepCode[m]
      BY <3>1
    <3> QED
      BY <1>2, <3>2, <3>3, FailingCodes
  <2> QED
    BY <2>1, Zenon DEF SdkPasses, Sdk_step3_bundle_id_check,
           Sdk_step4_integrity_hash_check, Sdk_step5_circuit_resolution,
           Sdk_step6_proof_structure_validation, BoundTogether
<1> QED
  BY <1>1, <1>2

\* Two documents bound together that differ in the computation or in the
\* identifier differ in at least three of the bound fields.
LEMMA ThreeDiffer ==
    ASSUME Shaped, ~Building, BoundTogether(doc), BoundTogether(origin),
           ~(doc.computation = origin.computation /\ doc.bundle_id = origin.bundle_id)
    PROVE  Cardinality(Changed) >= 3
<1> DEFINE c == doc.computation
           o == origin.computation
<1>d. DocumentOK(doc) /\ DocumentOK(origin)
  BY DEF Shaped, Building
<1>c. ComputationFields = {"circuit", "circuit_hash", "input_hash", "output_hash",
                           "trace_hash", "integrity_hash"}
  BY DEF ComputationFields, ComputationHashes
<1>m. /\ \A k \in ComputationFields : c[k] # o[k] => k \in Changed
      /\ doc.bundle_id # origin.bundle_id => "bundle_id" \in Changed
      /\ doc.proof.proof_hash # origin.proof.proof_hash => "proof_hash" \in Changed
  BY <1>c DEF Changed, BoundField, BoundFields
<1>1. c = o \/ \E k \in ComputationFields : c[k] # o[k]
  BY <1>d DEF DocumentOK, ComputationOK, HasFields
<1>2. /\ c.integrity_hash # o.integrity_hash => doc.bundle_id # origin.bundle_id
      /\ doc.bundle_id # origin.bundle_id => c.integrity_hash # o.integrity_hash
  BY DEF BoundTogether, compute_bundle_id_from_integrity
<1>3. c.integrity_hash # o.integrity_hash <=>
         \E k \in {"input_hash", "output_hash", "trace_hash"} : c[k] # o[k]
  BY DEF BoundTogether, compute_integrity_hash
<1>4. c.circuit_hash # o.circuit_hash <=> c.circuit # o.circuit
  BY DEF BoundTogether, _compute_mock_circuit_hash
<1>5. c.circuit_hash # o.circuit_hash => doc.proof.proof_hash # origin.proof.proof_hash
  BY DEF BoundTogether, compute_proof_hash
<1>6. IsFiniteSet(Changed)
  BY ChangedIsFinite
<1>n. doc.bundle_id # origin.bundle_id \/ c # o
  OBVIOUS
<1> HIDE DEF c, o
<1>7. CASE c.circuit_hash # o.circuit_hash
  <2>1. "circuit_hash" \in Changed /\ "circuit" \in Changed /\ "proof_hash" \in Changed
    BY <1>c, <1>m, <1>4, <1>5, <1>7
  <2> QED
    BY <1>6, <2>1, ThreeMembers
<1>8. CASE c.integrity_hash # o.integrity_hash
  <2>1. PICK k \in {"input_hash", "output_hash", "trace_hash"} : c[k] # o[k]
    BY <1>3, <1>8
  <2>2. k \in Changed /\ "integrity_hash" \in Changed /\ "bundle_id" \in Changed
    BY <1>c, <1>m, <1>2, <1>8, <2>1
  <2>3. k # "integrity_hash" /\ k # "bundle_id" /\ "integrity_hash" # "bundle_id"
    OBVIOUS
  <2> QED
    BY <1>6, <2>2, <2>3, ThreeMembers
<1> QED
  BY <1>c, <1>n, <1>1, <1>2, <1>3, <1>4, <1>7, <1>8

\* Damage to at most two fields of a valid document never yields another valid
\* document with a different computation or identifier, for every document the
\* builders publish.
THEOREM TwoDamagesDetected == BundleSpec => [](edits <= 2 => DamageDetected)
<1>1. BundleInit => FewChanged
  BY DEF BundleInit, FewChanged, Building
<1>2. Shaped /\ FewChanged /\ [BundleNext]_vars => FewChanged'
  BY FewChangedInductive
<1>3. Shaped /\ FewChanged => (edits <= 2 => DamageDetected)
  <2> SUFFICES ASSUME Shaped, FewChanged, edits <= 2, ~Building,
                      Standalone_verify(origin).status = "VALID",
                      Sdk_check(doc).status = "VALID"
               PROVE  doc.computation = origin.computation /\ doc.bundle_id = origin.bundle_id
    BY DEF DamageDetected
  <2>1. BoundTogether(doc) /\ BoundTogether(origin)
    BY ValidIsBound
  <2>2. Cardinality(Changed) <= edits /\ Cardinality(Changed) \in Nat /\ edits \in Nat
    BY ChangedIsFinite, BundleBounds DEF FewChanged, Shaped
  <2>3. ~(Cardinality(Changed) >= 3)
    BY <2>2
  <2> QED
    BY <2>1, <2>3, ThreeDiffer
<1> QED
  BY <1>1, <1>2, <1>3, BundleShapes, PTL DEF BundleSpec
=============================================================================
