SPECIFICATION Spec
CONSTANTS
    HashShaped <- MCHashShaped
    Hashes <- MCHashes
    VMs <- FiveLetterVMs
INVARIANT ExtractsVmiAndTemplate
