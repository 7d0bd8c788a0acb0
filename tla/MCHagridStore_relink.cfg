\* Merges and deletions of both certificates (s1 a capable key of both),
\* unique key ids, at most one I/O error or crash.
CONSTANTS
    pa = pa  pb = pb  s1 = s1  s2 = s2
    ka = ka  kb = kb  k1 = k1  k2 = k2  e1 = e1  e2 = e2
    NoLink = NoLink
    Prims <- MCPrims
    Fprs <- MCFprs
    KeyIds <- MCKeyIds
    Emails <- MCEmails
    KeyIdOf <- MCKeyIdOfUnique
    CapableKeys <- MCCapableKeys
    UserEmails <- MCUserEmails
    KeysAll <- MCCapableKeys
    SnapResidues <- MCNoResidue
    DryRun = FALSE
    MaxFaults = 1
SPECIFICATION Spec
PROPERTY IndexRefinement
