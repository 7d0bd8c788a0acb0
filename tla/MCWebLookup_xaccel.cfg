\* X-Accel-Redirect enabled.
CONSTANTS
    pa = pa  pb = pb  s1 = s1  s2 = s2
    ka = ka  kb = kb  k1 = k1  k2 = k2  e1 = e1  e2 = e2
    r1 = r1  r2 = r2
    NoLink = NoLink
    Prims <- MCPrims
    Fprs <- MCFprs
    KeyIds <- MCKeyIds
    Emails <- MCEmails
    KeyIdOf <- MCKeyIdOf
    CapableKeys <- MCCapableKeys
    UserEmails <- MCUserEmails
    DryRun = FALSE
    MaxFaults = 0
    Readers <- MCOneReader
    Queries <- MCQueries
    XAccelModes = {TRUE}
    Garbage = Garbage
    Absent = Absent
SPECIFICATION WebSpec
INVARIANT NoRedirectPanic
