\* check_consistency interleaved with merges (and no deletions) of two
\* certificates with one key each, pa with one email, up to two I/O errors
\* or crashes.
CONSTANTS
    pa = pa  pb = pb  ka = ka  kb = kb  e1 = e1
    NoLink = NoLink
    Prims <- MCPrims
    Fprs <- MCFprs
    KeyIds <- MCKeyIds
    Emails <- MCEmails
    KeyIdOf <- MCKeyIdOf
    CapableKeys <- MCCapableKeys
    UserEmails <- MCUserEmails
    KeysAll <- MCCapableKeys
    SnapResidues <- MCNoResidue
    DryRun = FALSE
    MaxFaults = 2
SPECIFICATION RunSpec
CONSTRAINT MCNoDeletion
INVARIANT CheckerOkWasConsistent
