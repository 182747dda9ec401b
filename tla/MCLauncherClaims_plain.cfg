SPECIFICATION Spec
CONSTANTS
    HashShaped <- MCHashShaped
    Hashes <- MCHashes
    VMs <- PlainVMs
INVARIANT VMsApart
PROPERTY MigrationKeepsDirectory
