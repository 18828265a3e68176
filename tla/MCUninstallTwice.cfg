SPECIFICATION Spec
INVARIANTS OwnedFrpsGoes
