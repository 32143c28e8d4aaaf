SPECIFICATION Spec
CONSTANTS
    Secret <- MCSecret
    AllowedSecrets <- MCAllowed
    Repositories <- MCRepositories
    Revision = {1, 2, 3}
    RuleSince = 2
    MaxReleases = 2
INVARIANTS ContractIsChecked SecretsAreDocumented ReleasesAscend
PROPERTIES PassIsRepeatable
CHECK_DEADLOCK FALSE
