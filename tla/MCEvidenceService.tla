------------------------- MODULE MCEvidenceService -------------------------
(***************************************************************************)
(* Small instances of EvidenceService: three callers, the first two of     *)
(* which carry the same input, over inputs that share a chain or not.      *)
(***************************************************************************)
EXTENDS ChainCheckpoint, TLC

CONSTANTS p1, p2, p3, v1, a, b

\* p1 and p2 race on input a; p3 carries b; a reader verifies a.
MCInputOf == [x \in Requests \cup Readers |-> IF x = p3 THEN b ELSE a]

\* Both inputs hash to chain 0.
MCOneChain == [i \in Inputs |-> 0]

\* The two inputs hash to different chains.
MCTwoChains == [i \in Inputs |-> IF i = a THEN 0 ELSE 1]

\* p1 and p2 are interchangeable: same input, same code.
MCSymmetry == Permutations({p1, p2})
=============================================================================
