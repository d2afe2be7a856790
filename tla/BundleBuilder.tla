---------------------------- MODULE BundleBuilder ----------------------------
(***************************************************************************)
(* A caller drives the fluent builders of an SDK (Python or TypeScript,    *)
(* which keep the same fields) and publishes what it built; the published  *)
(* document may then be damaged before somebody verifies it.               *)
(*                                                                         *)
(* The builders keep their fields between calls: build() caches the        *)
(* bundle_id it computed and hands its list of commitments to the bundle,  *)
(* and compute_integrity_hash() stores a value that a later setter leaves  *)
(* behind.  `rewritten' is a history variable: TRUE once the caller set a  *)
(* field of a builder a second time, or an identifier or an integrity hash *)
(* by hand.                                                                *)
(***************************************************************************)
EXTENDS BundleVerifier

CONSTANTS Languages,        \* the SDKs that callers use
          Callers,          \* the optional setters a caller uses, a set of sets
          TraceValues,      \* the traces a caller computes hashes of
          Datasets,         \* the dataset identifiers it commits to
          TsaKinds,         \* the timestamp blocks a document may carry
          DependsLists,     \* the depends_on lists a document may carry
          MaxCommitments,   \* bound on the builder's list
          MaxEdits          \* bound on the damage to a published document

ASSUME BundleBounds == /\ Languages \subseteq {"python", "typescript"}
                       /\ MaxCommitments \in Nat \ {0} /\ MaxEdits \in Nat
                       /\ NoDataset \notin Datasets

\* An entry of depends_on, by what uuid.UUID makes of it.
ASSUME DependsAssumption ==
    DependsLists \subseteq Seq({"uuid", "compact", "text", "number", "null"})

VARIABLES lang,         \* the SDK the caller uses
          caller,       \* its optional setters
          comp,         \* the fields of its ComputationBuilder
          builder,      \* the fields of its ProofBundleBuilder
          bundle,       \* the last bundle build() returned
          shared,       \* whether that bundle holds the builder's own list
          rewritten,    \* history: a field was set twice or by hand
          origin,       \* the document as published
          doc,          \* the document as it is now
          edits         \* how often it was damaged

vars == <<lang, caller, comp, builder, bundle, shared, rewritten, origin, doc, edits>>
building == <<lang, caller, comp, builder, bundle, shared, rewritten>>
published == <<origin, doc, edits>>

\* None of Python, null of TypeScript.
None == <<"none">>
NoRecord == [none |-> TRUE]

ComputationFields == ComputationHashes \cup {"circuit"}
ComputationBuilder == [f \in ComputationFields |-> None]

ProofBundleBuilder ==
    [vrl_version |-> "1.0", bundle_id |-> None, ai_identity |-> NoRecord,
     computation |-> NoRecord, proof |-> NoRecord, data_commitments |-> <<>>,
     timestamp_authority |-> "absent", depends_on |-> <<>>]

BundleInit ==
    /\ lang \in Languages /\ caller \in Callers
    /\ comp = ComputationBuilder /\ builder = ProofBundleBuilder
    /\ bundle = NoRecord /\ shared = FALSE /\ rewritten = FALSE
    /\ origin = NoRecord /\ doc = NoRecord /\ edits = 0

Building == doc = NoRecord

----------------------------------------------------------------------------
(* The ComputationBuilder.                                                 *)

\* set_circuit_id, set_circuit_version, set_circuit_hash, set_input_hash,
\* set_output_hash and set_trace_hash: one field, nothing recomputed.
SetField(f, v) ==
    /\ Building
    /\ comp' = [comp EXCEPT ![f] = v]
    /\ rewritten' = (rewritten \/ comp[f] # None)
    /\ UNCHANGED <<lang, caller, builder, bundle, shared, published>>

FieldValues(f) ==
    CASE f = "circuit" -> {<<"name", 1>>}
      [] f = "circuit_hash" -> {_compute_mock_circuit_hash(<<"name", 1>>)}
      [] f = "input_hash" -> {compute_input_hash(1)}
      [] f = "output_hash" -> {compute_output_hash(1)}
      [] f = "trace_hash" -> {compute_trace_hash(t) : t \in TraceValues}

\* set_integrity_hash: a hash the caller brings along, here of the first trace.
SetIntegrityHash ==
    /\ Building /\ "set_integrity_hash" \in caller
    /\ comp' = [comp EXCEPT !.integrity_hash =
                  compute_integrity_hash(compute_input_hash(1), compute_output_hash(1),
                                         compute_trace_hash(1))]
    /\ rewritten' = TRUE
    /\ UNCHANGED <<lang, caller, builder, bundle, shared, published>>

\* compute_integrity_hash raises until the three hashes are set.
ComputeIntegrityHash ==
    /\ Building
    /\ None \notin {comp.input_hash, comp.output_hash, comp.trace_hash}
    /\ comp' = [comp EXCEPT !.integrity_hash =
                  compute_integrity_hash(comp.input_hash, comp.output_hash, comp.trace_hash)]
    /\ UNCHANGED <<lang, caller, builder, bundle, shared, rewritten, published>>

\* Mutation: build() does not look for missing fields.
ComputationBuilder_unchecked == TRUE

\* build() of the ComputationBuilder raises while a field is missing.
ComputationBuilder_build == \A f \in ComputationFields : comp[f] # None

----------------------------------------------------------------------------
(* The ProofBundleBuilder.                                                 *)

\* A setter: the field is replaced, whatever it held.
Assign(field, value) == builder' = [builder EXCEPT ![field] = value]

SetComputation ==
    /\ Building /\ ComputationBuilder_build
    /\ Assign("computation", comp)
    /\ rewritten' = (rewritten \/ builder.computation \notin {NoRecord, comp})
    /\ UNCHANGED <<lang, caller, comp, bundle, shared, published>>

\* The caller proves the trace its ComputationBuilder holds now, and the
\* ProofBuilder's build() returns the proof with all its fields.
ProofBuilder_build(content) ==
    [proof_system |-> "sha256-deterministic", content |-> content,
     proof_hash |-> compute_proof_hash(comp.circuit_hash, content, "sha256-deterministic",
                                       comp.trace_hash)]

SetProof ==
    /\ Building /\ None \notin {comp.circuit_hash, comp.trace_hash}
    /\ Assign("proof", ProofBuilder_build(1))
    /\ rewritten' = (rewritten \/ builder.proof # NoRecord)
    /\ UNCHANGED <<lang, caller, comp, bundle, shared, published>>

\* The AIIdentityBuilder computes the ai_id and checks the environment; its
\* build() raises while a field is missing, so it returns only this.
AIIdentityBuilder_build ==
    [ai_id |-> compute_ai_id(1), execution_environment |-> "deterministic",
     provider_signature |-> FALSE]

SetAIIdentity ==
    /\ Building /\ Assign("ai_identity", AIIdentityBuilder_build)
    /\ UNCHANGED <<lang, caller, comp, bundle, shared, rewritten, published>>

\* set_bundle_id: an identifier the caller brings along, a UUID or not.
SetBundleId(id) ==
    /\ Building /\ "set_bundle_id" \in caller
    /\ Assign("bundle_id", id)
    /\ rewritten' = TRUE
    /\ UNCHANGED <<lang, caller, comp, bundle, shared, published>>

SetVrlVersion ==
    /\ Building /\ "set_vrl_version" \in caller
    /\ Assign("vrl_version", "2.0")
    /\ rewritten' = TRUE
    /\ UNCHANGED <<lang, caller, comp, bundle, shared, published>>

SetLegal(tsa) ==
    /\ Building /\ "set_legal" \in caller
    /\ Assign("timestamp_authority", tsa)
    /\ UNCHANGED <<lang, caller, comp, bundle, shared, rewritten, published>>

SetProofGraph(list) ==
    /\ Building /\ "set_proof_graph" \in caller
    /\ Assign("depends_on", list)
    /\ UNCHANGED <<lang, caller, comp, bundle, shared, rewritten, published>>

\* The commitment's hash, as the caller's SDK computes it.
CommitmentFor(dataset) ==
    [dataset_id |-> dataset,
     commitment_hash |-> IF lang = "python" THEN compute_commitment_hash(dataset)
                                            ELSE computeCommitmentHash(dataset)]

\* The list is appended to in place: a bundle that was handed the list grows too.
AddDataCommitment(dataset) ==
    /\ Building /\ "add_data_commitment" \in caller
    /\ Len(builder.data_commitments) < MaxCommitments
    /\ Assign("data_commitments", Append(builder.data_commitments, CommitmentFor(dataset)))
    /\ bundle' = IF shared THEN [bundle EXCEPT !.data_commitments =
                                   Append(builder.data_commitments, CommitmentFor(dataset))]
                           ELSE bundle
    /\ UNCHANGED <<lang, caller, comp, shared, rewritten, published>>

\* Mutation: the identifier is derived from the proof hash.
BundleIdOfProof ==
    IF lang = "python"
    THEN compute_bundle_id_from_integrity(builder.proof.proof_hash)
    ELSE generateBundleId(builder.proof.proof_hash)

\* The identifier build() uses and keeps: the one it has, or one computed from
\* the integrity hash by the SDK's own function.
BundleId ==
    IF builder.bundle_id # None THEN builder.bundle_id
    ELSE IF lang = "python"
         THEN compute_bundle_id_from_integrity(builder.computation.integrity_hash)
         ELSE generateBundleId(builder.computation.integrity_hash)

\* build() raises without an identity, a computation or a proof.
Build ==
    /\ Building
    /\ NoRecord \notin {builder.ai_identity, builder.computation, builder.proof}
    /\ Assign("bundle_id", BundleId)
    /\ bundle' = [vrl_version |-> builder.vrl_version, bundle_id |-> BundleId,
                  missing |-> {}, null |-> {}, sparse |-> FALSE,
                  ai_identity |-> builder.ai_identity, computation |-> builder.computation,
                  proof |-> builder.proof, data_commitments |-> builder.data_commitments,
                  timestamp_authority |-> builder.timestamp_authority,
                  depends_on |-> builder.depends_on]
    /\ shared' = (builder.data_commitments # <<>>)
    /\ UNCHANGED <<lang, caller, comp, rewritten, published>>

----------------------------------------------------------------------------
(* The published document.                                                 *)

\* to_json (or serializeBundle), and the caller is done: it drops its builders,
\* and what it did with them no longer matters.
Publish ==
    /\ Building /\ bundle # NoRecord
    /\ doc' = bundle /\ origin' = bundle
    /\ comp' = ComputationBuilder /\ builder' = ProofBundleBuilder
    /\ bundle' = NoRecord /\ shared' = FALSE
    /\ caller' = {} /\ rewritten' = FALSE
    /\ UNCHANGED <<lang, edits>>

\* What may stand in the place of a data commitment: one with another hash, or
\* one that lost a key, its commitment_hash or one the hash covers.
DamagedCommitments ==
    {[dataset_id |-> x, commitment_hash |-> compute_commitment_hash(y)] :
        x, y \in Datasets \cup {NoDataset}} \cup
    {[dataset_id |-> x, commitment_hash |-> Missing] : x \in Datasets}

\* One field of the document is damaged: replaced by another value of its
\* kind, by a malformed one, by null, or lost; or a key too many is added.
Damages(d) ==
    {[d EXCEPT !.missing = {f}] : f \in {"vrl_version", "bundle_id", "computation"}} \cup
    {[d EXCEPT !.null = {f}] : f \in {"bundle_id", "issued_at"}} \cup
    {[d EXCEPT !.sparse = TRUE], [d EXCEPT !.vrl_version = "2.0"],
     [d EXCEPT !.bundle_id = <<"no_uuid">>],
     [d EXCEPT !.bundle_id = compute_bundle_id_from_integrity(d.computation.integrity_hash)],
     [d EXCEPT !.computation.circuit = <<"name", 2>>], [d EXCEPT !.computation.circuit = Missing],
     [d EXCEPT !.computation.circuit_hash = _compute_mock_circuit_hash(d.computation.circuit)],
     [d EXCEPT !.computation.circuit_hash = _compute_mock_circuit_hash(<<"name", 2>>)],
     [d EXCEPT !.computation.input_hash = compute_input_hash(2)],
     [d EXCEPT !.computation.trace_hash = compute_trace_hash(2)],
     [d EXCEPT !.computation.integrity_hash = compute_integrity_hash(
         d.computation.input_hash, d.computation.output_hash, d.computation.trace_hash)],
     [d EXCEPT !.proof.content = 2], [d EXCEPT !.proof.content = NoContent],
     [d EXCEPT !.proof.proof_system = "unknown"],
     [d EXCEPT !.proof.proof_hash = compute_proof_hash(d.computation.circuit_hash,
         d.proof.content, d.proof.proof_system, d.computation.trace_hash)],
     [d EXCEPT !.ai_identity.execution_environment = "unknown"],
     [d EXCEPT !.ai_identity.provider_signature = TRUE]} \cup
    {[d EXCEPT !.ai_identity.ai_id = h] : h \in Malformed \cup {compute_ai_id(2)}} \cup
    {[d EXCEPT !.computation[f] = h] : f \in {"input_hash", "circuit_hash"},
                                       h \in Malformed \cup {Missing}} \cup
    {[d EXCEPT !.proof.proof_hash = h] : h \in {Missing, <<"letters">>}} \cup
    {[d EXCEPT !.data_commitments = s] : s \in {<<>>} \cup {<<c>> : c \in DamagedCommitments}} \cup
    {[d EXCEPT !.timestamp_authority = t] : t \in TsaKinds} \cup
    {[d EXCEPT !.depends_on = s] : s \in DependsLists}

Damage ==
    /\ ~Building /\ edits < MaxEdits
    /\ doc' \in Damages(doc)
    /\ edits' = edits + 1
    /\ UNCHANGED <<building, origin>>

----------------------------------------------------------------------------
BundleNext ==
    \/ \E f \in ComputationFields \ {"integrity_hash"} : \E v \in FieldValues(f) : SetField(f, v)
    \/ SetIntegrityHash \/ ComputeIntegrityHash
    \/ SetComputation \/ SetProof \/ SetAIIdentity \/ SetVrlVersion
    \/ \E id \in {<<"no_uuid">>, compute_bundle_id_from_integrity(comp.integrity_hash)} :
           SetBundleId(id)
    \/ \E tsa \in TsaKinds \ {"keyless", "extended"} : SetLegal(tsa)
    \/ \E list \in DependsLists : SetProofGraph(list)
    \/ \E dataset \in Datasets : AddDataCommitment(dataset)
    \/ Build \/ Publish \/ Damage

BundleSpec == BundleInit /\ [][BundleNext]_vars

----------------------------------------------------------------------------
(* Properties.                                                             *)

IsDocument(d) ==
    /\ d.vrl_version \in {"1.0", "2.0"}
    /\ d.missing \subseteq {"vrl_version", "bundle_id", "computation"}
    /\ d.null \subseteq {"bundle_id", "issued_at"} /\ d.sparse \in BOOLEAN
    /\ DOMAIN d.computation = ComputationFields /\ None \notin {d.computation[f] :
                                                               f \in ComputationFields}
    /\ d.bundle_id # None /\ d.proof.proof_system \in ValidSystems \cup {"unknown"}
    /\ Len(d.data_commitments) <= MaxCommitments
    /\ d.timestamp_authority \in TsaKinds \cup {"absent"}

\* The builders, the bundle and the document keep their shapes; what build()
\* returns has every required field, since it raises while one is unset.
BundleTypeOK ==
    /\ lang \in Languages /\ caller \in Callers \cup {{}}
    /\ DOMAIN comp = ComputationFields
    /\ Len(builder.data_commitments) <= MaxCommitments
    /\ shared \in BOOLEAN /\ rewritten \in BOOLEAN /\ edits \in 0 .. MaxEdits
    /\ bundle = NoRecord \/ IsDocument(bundle)
    /\ doc = NoRecord \/ IsDocument(doc)
    /\ doc = NoRecord <=> origin = NoRecord

\* What ProofBundle.from_dict refuses although no required step of the
\* standalone verifier looks at it.
LoaderOnly(d) ==
    \/ d.sparse
    \/ d.ai_identity.execution_environment \notin ValidEnvironments
    \/ d.computation.circuit = Missing
    \/ d.proof.content = NoContent
    \/ NoDataset \in {d.data_commitments[i].dataset_id : i \in 1 .. Len(d.data_commitments)}
    \/ d.timestamp_authority \in {"keyless", "extended"}

\* The two Python verifiers agree on every document, however it was built and
\* damaged.  Where the SDK reaches a verdict, it is the standalone verifier's
\* status and failing step, except that the SDK rejects a null identifier or
\* date in its schema step.  Where the SDK raises on a document that the
\* standalone verifier reports as VALID or VALID_PARTIAL, the reason is one of
\* those only its loader has (bundle.py), or a number in depends_on, which only
\* the standalone verifier catches.
PythonVerdictsAgree ==
    ~Building =>
        LET standalone == Standalone_verify(doc)
            sdk == Sdk_check(doc)
        IN  /\ sdk.status # "RAISED" =>
                 /\ doc.null = {} => sdk.status = standalone.status
                                     /\ sdk.failed = standalone.failed
                 /\ doc.null # {} => sdk.status = "SCHEMA_INVALID"
            /\ sdk.status = "RAISED" /\ standalone.status \in {"VALID", "VALID_PARTIAL"} =>
                 LoaderOnly(doc) \/ GraphLoop(doc.depends_on) = "AttributeError"

\* vrl_verify.py: exit code 0 means "VALID (or VALID_PARTIAL with optional checks
\* omitted)".
ExitCodesDocumented ==
    ~Building => (Standalone_main(doc) = 0
                    <=> Standalone_verify(doc).status \in {"VALID", "VALID_PARTIAL"})

\* Damage to fewer than three fields of a valid document never yields another
\* valid document with a different computation or bundle_id: the identifier,
\* the integrity hash, the circuit hash and the proof hash cover each other.
DamageDetected ==
    (~Building /\ Standalone_verify(origin).status = "VALID"
               /\ Sdk_check(doc).status = "VALID") =>
        doc.computation = origin.computation /\ doc.bundle_id = origin.bundle_id

\* What the TypeScript verifier's acceptance is worth, and whether it accepts
\* what is valid, over commitments in ASCII.  A document it accepts passes the
\* standalone verifier's version, integrity, proof and commitment checks, and its
\* format checks unless a hash consists of 64 letters; steps 3 and 5 and those
\* letters are the subject of StatedChecksMade.  And it accepts every document
\* the standalone verifier finds valid, but for a null, for depends_on entries
\* without hyphens, which it reports as VALID_PARTIAL, and for absent keys that
\* Python hashes as a default and that make it throw.
TypeScriptGapKnown ==
    ~Building =>
        LET standalone == Standalone_verify(doc)
            ts == Ts_check(doc)
            datasets == {doc.data_commitments[i].dataset_id : i \in 1 .. Len(doc.data_commitments)}
            lettersIn == <<"letters">> \in {doc.ai_identity.ai_id, doc.proof.proof_hash}
                           \cup {doc.computation[f] : f \in ComputationHashes}
        IN  datasets \cap NonAscii = {} =>
              /\ ts.status \in {"VALID", "VALID_PARTIAL"} =>
                   \/ standalone.failed \subseteq {3, 5, 9, 10}
                   \/ lettersIn
              /\ standalone.is_valid /\ doc.null = {} =>
                   \/ ts.status = "VALID"
                   \/ ts.status = "VALID_PARTIAL" /\ \E i \in 1 .. Len(doc.depends_on) :
                                                         doc.depends_on[i] = "compact"
                   \/ /\ ts.status = "RAISED"
                      /\ doc.proof.content = NoContent \/ NoDataset \in datasets

\* verifier.ts names what its steps check: step 3 "Recompute and verify
\* bundle_id", step 5 "Resolve circuit and verify circuit_hash", and for every
\* hash "valid 64-character lowercase hex string".  A document it accepts has
\* therefore passed these checks; this asks for no more than one of the three.
StatedChecksMade ==
    (~Building /\ Ts_check(doc).status \in {"VALID", "VALID_PARTIAL"}) =>
        \/ Standalone_step3_bundle_id_check(doc)
        \/ Standalone_step5_circuit_resolution(doc)
        \/ Standalone_step2_schema_validation(doc)

\* A caller of the Python builders who sets no field twice and computes the
\* hashes with the SDK gets a bundle that verifies, in whatever order it made
\* its calls; the bundle keeps verifying while the caller goes on using the
\* builder that built it, whose list of commitments it shares.
WriteOnceVerifies ==
    (bundle # NoRecord /\ ~rewritten /\ lang = "python") =>
        /\ Sdk_verify(bundle).status # "RAISED" =>
             IF bundle.timestamp_authority = "blank" \/ GraphLoop(bundle.depends_on) # "returns"
             THEN Sdk_verify(bundle).status = "VALID_PARTIAL"
             ELSE Sdk_verify(bundle).status = "VALID"
        /\ Sdk_verify(bundle).status = "RAISED" => GraphLoop(bundle.depends_on) # "returns"
============================================================================
