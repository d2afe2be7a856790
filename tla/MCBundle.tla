------------------------------ MODULE MCBundle ------------------------------
(* Small instances of the bundle builders and verifiers.                    *)
EXTENDS BundleBuilder

MCDependsLists == {<<"uuid">>, <<"compact">>, <<"text", "number">>, <<"number", "text">>,
                   <<"null">>}
MCCallers == {{"set_integrity_hash", "set_bundle_id"}, {"add_data_commitment"},
              {"set_legal"}, {"set_proof_graph"}, {"set_vrl_version"}}
============================================================================
