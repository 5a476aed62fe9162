\* Two threads, three secrets, two datasources with a password and a certificate.
CONSTANTS
    Threads = {t1, t2}
    Datasources = {d1, d2}
    Secrets = {s1, s2, s3}
    Fields = {"password", "ca_certificate"}
    TlsFields = {"ca_certificate"}
    Environment = environment
    None = none
    Unmanaged <- MCUnmanaged
    Gone = gone
    MaxCalls = 3
    MaxCrashes = 1
SPECIFICATION Spec
SYMMETRY CredentialSymmetry
INVARIANTS
    SecretsFollowProfiles
CHECK_DEADLOCK FALSE
