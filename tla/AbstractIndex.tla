--------------------------- MODULE AbstractIndex ---------------------------
(***************************************************************************)
(* What the symlink index promises its callers (spec.md sections 3 and 4, *)
(* I6): every identifier names at most one certificate; a certificate     *)
(* claims a set of identifiers only when none of them is held by another  *)
(* certificate, and it releases only the identifiers it holds.  A claim   *)
(* or release of several identifiers may take effect in one step.         *)
(***************************************************************************)
CONSTANTS
    Ids,    \* the identifiers: index entries of every family
    Certs,  \* the certificates, by primary fingerprint
    None    \* an identifier no certificate holds

VARIABLE owner  \* [Ids -> Certs \cup {None}]

Init == owner = [i \in Ids |-> None]

\* c takes the identifiers S; each is free or already c's.
Claim(S, c) ==
    /\ \A i \in S : owner[i] \in {None, c}
    /\ owner' = [i \in Ids |-> IF i \in S THEN c ELSE owner[i]]

\* c gives up those identifiers of S that it holds.
Release(S, c) ==
    owner' = [i \in Ids |-> IF i \in S /\ owner[i] = c THEN None ELSE owner[i]]

Next == \E S \in SUBSET Ids, c \in Certs : Claim(S, c) \/ Release(S, c)

Spec == Init /\ [][Next]_owner

TypeOK == owner \in [Ids -> Certs \cup {None}]

=============================================================================
