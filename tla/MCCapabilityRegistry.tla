------------------------ MODULE MCCapabilityRegistry ------------------------
(* Small instances of CapabilityRegistry for TLC: a backend that has two    *)
(* configurations of the kind manifests ask for and one of another kind,    *)
(* manifests with and without a claim.                                      *)
EXTENDS CapabilityRegistry

MCConfig == {[kind |-> "prompt", model |-> 1], [kind |-> "prompt", model |-> 2],
             [kind |-> "http", model |-> 1]}

MCManifest ==
  {[backend |-> b, kind |-> "prompt", lobes |-> ls] : b \in Backend, ls \in SUBSET Lobe}
=============================================================================
