--------------------------- MODULE BundleVerifier ---------------------------
(***************************************************************************)
(* The three implementations of the ten-step verification of a proof       *)
(* bundle: the standalone verifier (verifier/vrl_verify.py), which works   *)
(* on the parsed JSON, the Python SDK (sdk/python/vrl), which first loads  *)
(* the document into dataclasses, and the TypeScript SDK                   *)
(* (sdk/typescript/src), which parses it and accumulates failures.         *)
(*                                                                         *)
(* A digest is a tuple tagged with the function that produced it, so two   *)
(* digests are equal only if they hash the same values.  A document is a   *)
(* record; `missing' and `null' name required top-level fields that are    *)
(* absent or null.  `sparse' says that a key no step reads and only the    *)
(* SDK's loader asks for (model_name, verification_key_id, ...) is absent, *)
(* or that immutable_anchor does not have exactly its four keys.           *)
(***************************************************************************)
EXTENDS Naturals, Sequences, FiniteSets, FiniteSetsExt

----------------------------------------------------------------------------
(* Digests and identifiers.                                                *)

\* A hash field without a value, and the malformed values a document may
\* carry: too short, 64 upper-case digits, 64 letters that are no digits, and
\* "0x" with 62 digits, which Python's int(value, 16) takes for hexadecimal.
Missing == <<"missing">>
Malformed == {<<"short">>, <<"upper">>, <<"letters">>, <<"prefixed">>}

\* A proof without proof_bytes or without public_inputs, and a data commitment
\* without one of the five keys its hash covers.  Python's dict.get hashes "",
\* [] or null for them; TypeScript's canonicalJson throws on undefined.
NoContent == 0
NoDataset == "absent"

compute_input_hash(x) == <<"input", x>>
compute_output_hash(x) == <<"output", x>>
compute_trace_hash(x) == <<"trace", x>>
compute_ai_id(model) == <<"ai_id", model>>
compute_integrity_hash(i, o, t) == <<"integrity", i, o, t>>
compute_proof_hash(circuit_hash, content, system, trace_hash) ==
    <<"proof", circuit_hash, content, system, trace_hash>>
compute_bundle_id_from_integrity(h) == <<"uuid5", h>>
_compute_mock_circuit_hash(circuit) == <<"circuit", circuit>>

\* The TypeScript builder formats the first 16 bytes of the hash as a UUID.
generateBundleId(h) == <<"hash_prefix", h>>

\* A text with a character outside ASCII: Python's canonical JSON escapes the
\* character, TypeScript's leaves it as it is.
NonAscii == {"cafe_accented"}
CanonicalText(language, text) == IF text \in NonAscii THEN <<language, text>>
                                                      ELSE <<"ascii", text>>
compute_commitment_hash(dataset) == <<"commitment", CanonicalText("python", dataset)>>
computeCommitmentHash(dataset) == <<"commitment", CanonicalText("typescript", dataset)>>

\* 64 lower-case hexadecimal characters, as each implementation sees them:
\* TypeScript's parseInt never throws, so any 64 lower-case characters pass.
_is_valid_hex_hash(h) == h \notin {Missing, <<"short">>, <<"upper">>, <<"letters">>}
isValidHexHash(h) == h \notin {Missing, <<"short">>, <<"upper">>}

IsUuidText(id) == id[1] \in {"uuid5", "hash_prefix"}

ComputationHashes == {"circuit_hash", "input_hash", "output_hash", "trace_hash",
                      "integrity_hash"}
ValidSystems == {"plonk-halo2-pasta", "plonk-halo2-bn254", "groth16-bn254", "stark",
                 "zk-ml", "tee-intel-tdx", "tee-amd-sev-snp", "tee-aws-nitro",
                 "sha256-deterministic", "api-hash-binding"}
ValidEnvironments == {"deterministic", "tee", "zk-ml", "api-attested", "unattested"}

\* The status of a failing step; steps 9 and 10 only add an error code.
StepCode == <<"UNSUPPORTED_VERSION", "SCHEMA_INVALID", "BUNDLE_ID_MISMATCH",
              "INTEGRITY_MISMATCH", "CIRCUIT_HASH_MISMATCH", "PROOF_INVALID",
              "AI_ID_INVALID", "DATA_COMMITMENT_INVALID", "TIMESTAMP_INVALID",
              "GRAPH_EDGE_INVALID">>

FailedSteps(passed) == {i \in 1 .. Len(passed) : ~passed[i]}

\* A call that ends in an exception has no verdict.
Raised == [status |-> "RAISED", failed |-> {}, is_valid |-> FALSE]

\* The control both Python verifiers share: the first failing step of 1..8
\* ends the verification, a failing step 9 or 10 makes it VALID_PARTIAL.
PythonVerdict(required, optional, partialIsValid) ==
    LET must == FailedSteps(required)
        may  == {8 + i : i \in FailedSteps(optional)}
    IN  CASE must # {} -> [status |-> StepCode[Min(must)], failed |-> {Min(must)},
                           is_valid |-> FALSE]
          [] must = {} /\ may # {} -> [status |-> "VALID_PARTIAL", failed |-> may,
                                       is_valid |-> partialIsValid]
          [] OTHER -> [status |-> "VALID", failed |-> {}, is_valid |-> TRUE]

\* What uuid.UUID does with an entry of depends_on: returns for the hyphenated
\* and the compact form, ValueError for another text, AttributeError for a
\* number, TypeError for null.
Uuid(entry) == CASE entry \in {"uuid", "compact"} -> "returns"
                 [] entry = "text" -> "ValueError"
                 [] entry = "number" -> "AttributeError"
                 [] entry = "null" -> "TypeError"

\* The outcome of the loop over depends_on: that of its first bad entry.
GraphLoop(depends_on) ==
    LET bad == {i \in 1 .. Len(depends_on) : Uuid(depends_on[i]) # "returns"}
    IN  IF bad = {} THEN "returns" ELSE Uuid(depends_on[Min(bad)])

----------------------------------------------------------------------------
(* The standalone verifier.                                                *)

Standalone_step1_version_check(d) == d.vrl_version = "1.0" /\ "vrl_version" \notin d.missing

\* A required field must be a key of the document; null passes.
Standalone_step2_schema_validation(d) ==
    /\ d.missing = {}
    /\ _is_valid_hex_hash(d.ai_identity.ai_id)
    /\ \A f \in ComputationHashes : _is_valid_hex_hash(d.computation[f])
    /\ _is_valid_hex_hash(d.proof.proof_hash)

Standalone_step3_bundle_id_check(d) ==
    /\ "bundle_id" \notin d.null
    /\ d.bundle_id = compute_bundle_id_from_integrity(d.computation.integrity_hash)

Standalone_step4_integrity_hash_check(d) ==
    d.computation.integrity_hash = compute_integrity_hash(
        d.computation.input_hash, d.computation.output_hash, d.computation.trace_hash)

\* The built-in registry resolves every circuit, the one without a name too.
Standalone_step5_circuit_resolution(d) ==
    d.computation.circuit_hash = _compute_mock_circuit_hash(d.computation.circuit)

Standalone_step6_proof_structure_validation(d) ==
    /\ d.proof.proof_system \in ValidSystems
    /\ d.proof.proof_hash = compute_proof_hash(d.computation.circuit_hash,
           d.proof.content, d.proof.proof_system, d.computation.trace_hash)

\* With or without a provider signature, only the format is checked.
Standalone_step7_ai_id_verification(d) == _is_valid_hex_hash(d.ai_identity.ai_id)

Standalone_step8_data_commitment_verification(d) ==
    \A i \in 1 .. Len(d.data_commitments) :
        d.data_commitments[i].commitment_hash =
            compute_commitment_hash(d.data_commitments[i].dataset_id)

\* "blank": a value of the block is empty; "keyless": one of its keys is absent;
\* "extended": it has a key besides its three.
Standalone_step9_timestamp_verification(d) ==
    d.timestamp_authority \notin {"blank", "keyless"}

Standalone_step10_proof_graph_verification(d) ==
    GraphLoop(d.depends_on) \notin {"ValueError", "AttributeError"}

Standalone_verify(d) ==
    LET verdict == PythonVerdict(
            <<Standalone_step1_version_check(d), Standalone_step2_schema_validation(d),
              Standalone_step3_bundle_id_check(d), Standalone_step4_integrity_hash_check(d),
              Standalone_step5_circuit_resolution(d),
              Standalone_step6_proof_structure_validation(d),
              Standalone_step7_ai_id_verification(d),
              Standalone_step8_data_commitment_verification(d)>>,
            <<Standalone_step9_timestamp_verification(d),
              Standalone_step10_proof_graph_verification(d)>>, FALSE)
    IN  IF verdict.status \in {"VALID", "VALID_PARTIAL"}
           /\ GraphLoop(d.depends_on) = "TypeError" THEN Raised ELSE verdict

\* The command's exit code; an uncaught exception ends Python with 1 as well.
Standalone_main(d) == IF Standalone_verify(d).is_valid THEN 0 ELSE 1

----------------------------------------------------------------------------
(* The Python SDK.  from_dict raises unless every part of the document     *)
(* loads; verify runs on what it returns.                                  *)

AIIdentity_from_dict(ai) == /\ _is_valid_hex_hash(ai.ai_id)
                            /\ ai.execution_environment \in ValidEnvironments
Computation_from_dict(c) == \A f \in ComputationHashes \cup {"circuit"} : c[f] # Missing
Proof_from_dict(p) == /\ p.proof_system \in ValidSystems
                      /\ p.content # NoContent /\ p.proof_hash # Missing
DataCommitment_from_dict(c) == c.dataset_id # NoDataset /\ c.commitment_hash # Missing

\* The constructor takes exactly the three keys of the block.
TimestampAuthority_from_dict(tsa) == tsa \notin {"keyless", "extended"}

ProofBundle_from_dict(d) ==
    /\ d.missing = {} /\ ~d.sparse
    /\ d.vrl_version = "1.0"
    /\ AIIdentity_from_dict(d.ai_identity)
    /\ Computation_from_dict(d.computation)
    /\ Proof_from_dict(d.proof)
    /\ \A i \in 1 .. Len(d.data_commitments) : DataCommitment_from_dict(d.data_commitments[i])
    /\ TimestampAuthority_from_dict(d.timestamp_authority)

Sdk_step1_version_check(d) == d.vrl_version = "1.0"

Sdk_step2_schema_validation(d) ==
    /\ d.null = {}
    /\ _is_valid_hex_hash(d.ai_identity.ai_id)
    /\ \A f \in ComputationHashes : _is_valid_hex_hash(d.computation[f])
    /\ _is_valid_hex_hash(d.proof.proof_hash)

\* Mutation: the bundle_id is accepted as it is.
Sdk_step3_trusting(d) == TRUE

Sdk_step3_bundle_id_check(d) ==
    d.bundle_id = compute_bundle_id_from_integrity(d.computation.integrity_hash)

Sdk_step4_integrity_hash_check(d) ==
    d.computation.integrity_hash = compute_integrity_hash(
        d.computation.input_hash, d.computation.output_hash, d.computation.trace_hash)

Sdk_step5_circuit_resolution(d) ==
    d.computation.circuit_hash = _compute_mock_circuit_hash(d.computation.circuit)

\* Mutation: the proof is checked for its system only, not against the trace.
Sdk_step6_system_only(d) == d.proof.proof_system \in ValidSystems

Sdk_step6_proof_structure_validation(d) ==
    /\ d.proof.proof_system \in ValidSystems
    /\ d.proof.proof_hash = compute_proof_hash(d.computation.circuit_hash,
           d.proof.content, d.proof.proof_system, d.computation.trace_hash)

Sdk_step7_ai_id_verification(d) ==
    d.ai_identity.provider_signature => _is_valid_hex_hash(d.ai_identity.ai_id)

Sdk_step8_data_commitment_verification(d) ==
    \A i \in 1 .. Len(d.data_commitments) :
        d.data_commitments[i].commitment_hash =
            compute_commitment_hash(d.data_commitments[i].dataset_id)

Sdk_step9_timestamp_verification(d) == d.timestamp_authority \notin {"blank", "keyless"}

\* Only ValueError is caught here.
Sdk_step10_proof_graph_verification(d) == GraphLoop(d.depends_on) # "ValueError"

Sdk_verify(d) ==
    LET verdict == PythonVerdict(
            <<Sdk_step1_version_check(d), Sdk_step2_schema_validation(d),
              Sdk_step3_bundle_id_check(d), Sdk_step4_integrity_hash_check(d),
              Sdk_step5_circuit_resolution(d), Sdk_step6_proof_structure_validation(d),
              Sdk_step7_ai_id_verification(d), Sdk_step8_data_commitment_verification(d)>>,
            <<Sdk_step9_timestamp_verification(d),
              Sdk_step10_proof_graph_verification(d)>>, TRUE)
    IN  IF verdict.is_valid /\ GraphLoop(d.depends_on) \in {"AttributeError", "TypeError"}
        THEN Raised ELSE verdict

\* Verifier().verify(ProofBundle.from_dict(d)).
Sdk_check(d) == IF ProofBundle_from_dict(d) THEN Sdk_verify(d) ELSE Raised

----------------------------------------------------------------------------
(* The TypeScript SDK.                                                     *)

parseBundle(d) == d.missing = {} /\ d.vrl_version = "1.0" /\ d.null = {}

step1VersionCheck(d) == d.vrl_version = "1.0"

step2SchemaValidation(d) ==
    /\ d.null = {}
    /\ isValidHexHash(d.ai_identity.ai_id)
    /\ \A f \in ComputationHashes : isValidHexHash(d.computation[f])
    /\ isValidHexHash(d.proof.proof_hash)

\* Despite its name this step checks the format of the identifier only.
step3BundleIdCheck(d) == IsUuidText(d.bundle_id)

\* Mutation: the integrity hash is accepted as it is.
step4Trusting(d) == TRUE

step4IntegrityHashCheck(d) ==
    d.computation.integrity_hash = compute_integrity_hash(
        d.computation.input_hash, d.computation.output_hash, d.computation.trace_hash)

step5CircuitResolution(d) == isValidHexHash(d.computation.circuit_hash)

step6ProofStructureValidation(d) ==
    /\ d.proof.proof_system \in ValidSystems
    /\ d.proof.proof_hash = compute_proof_hash(d.computation.circuit_hash,
           d.proof.content, d.proof.proof_system, d.computation.trace_hash)

step7AIIdVerification(d) == isValidHexHash(d.ai_identity.ai_id)

step8DataCommitmentVerification(d) ==
    \A i \in 1 .. Len(d.data_commitments) :
        d.data_commitments[i].commitment_hash =
            computeCommitmentHash(d.data_commitments[i].dataset_id)

step9TimestampVerification(d) == d.timestamp_authority \notin {"blank", "keyless"}

\* The regular expression wants hyphens, and tests the text of any value.
step10ProofGraphVerification(d) ==
    \A i \in 1 .. Len(d.depends_on) : d.depends_on[i] = "uuid"

\* Steps 1 and 2 return; every later failure is recorded and verification
\* goes on, so the status is that of the last failing step of 3..8.
Ts_verify(d) ==
    LET gate == FailedSteps(<<step1VersionCheck(d), step2SchemaValidation(d)>>)
        hard == {2 + i : i \in FailedSteps(<<step3BundleIdCheck(d),
                    step4IntegrityHashCheck(d), step5CircuitResolution(d),
                    step6ProofStructureValidation(d), step7AIIdVerification(d),
                    step8DataCommitmentVerification(d)>>)}
        soft == {8 + i : i \in FailedSteps(<<step9TimestampVerification(d),
                                             step10ProofGraphVerification(d)>>)}
    IN  CASE gate # {} -> [status |-> StepCode[Min(gate)], failed |-> {Min(gate)}]
          [] gate = {} /\ hard # {} -> [status |-> StepCode[Max(hard)],
                                        failed |-> hard \cup soft]
          [] gate = {} /\ hard = {} -> [status |-> IF soft = {} THEN "VALID"
                                                   ELSE "VALID_PARTIAL",
                                        failed |-> soft]

\* canonicalJson throws on an absent key: step 6 hashes the proof once it knows
\* the system, step 8 the commitments up to the first mismatch.
HashingThrows(d) ==
    \/ d.proof.proof_system \in ValidSystems /\ d.proof.content = NoContent
    \/ \E i \in 1 .. Len(d.data_commitments) :
          /\ d.data_commitments[i].dataset_id = NoDataset
          /\ \A j \in 1 .. i - 1 : d.data_commitments[j].commitment_hash =
                                      computeCommitmentHash(d.data_commitments[j].dataset_id)

\* new Verifier().verify(parseBundle(d)): no step hashes before steps 1 and 2
\* have passed, and nothing catches what one throws.
Ts_check(d) ==
    IF parseBundle(d) /\ ~(step1VersionCheck(d) /\ step2SchemaValidation(d) /\ HashingThrows(d))
    THEN Ts_verify(d) ELSE [status |-> "RAISED", failed |-> {}]
============================================================================
