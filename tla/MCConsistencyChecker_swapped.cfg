\* Snapshots with unique key ids: the certificate checked for a published
\* record is the one its by-fpr entry names.
CONSTANTS
    pa = pa  pb = pb  s1 = s1  s2 = s2
    ka = ka  kb = kb  k1 = k1  k2 = k2  e1 = e1  e2 = e2
    NoLink = NoLink
    Prims <- MCPrims
    Fprs <- MCFprs
    KeyIds <- MCKeyIds
    Emails <- MCEmails
    KeyIdOf <- MCKeyIdOfUnique
    CapableKeys <- MCCapableKeys
    KeysAll <- MCKeysAll
    UserEmails <- MCUserEmails
    SnapResidues <- MCSnapResidues
    DryRun = FALSE
    MaxFaults = 0
SPECIFICATION SnapSpec
INVARIANT CheckerEnforcesEmails
