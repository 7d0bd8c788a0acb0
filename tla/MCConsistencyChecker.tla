------------------------ MODULE MCConsistencyChecker ------------------------
(***************************************************************************)
(* Snapshots for check_consistency.  pa has the keys pa and s1, both       *)
(* certification or signing capable; pb has the capable primary pb and    *)
(* s1 as an encryption-only key (in keys_all but not capable), so pb's     *)
(* subkey pass does not look at s1.  s2 belongs to no certificate; in the  *)
(* colliding configuration it has the key id of s1.  Residue is either     *)
(* absent or one leftover linkXXXX/link next to an email entry.            *)
(***************************************************************************)
EXTENDS ConsistencyChecker, TLC

CONSTANTS pa, pb, s1, s2, ka, kb, k1, k2, e1, e2

MCPrims == {pa, pb}
MCFprs == {pa, pb, s1, s2}
MCKeyIds == {ka, kb, k1, k2}
MCEmails == {e1, e2}
MCKeyIdOfUnique == (pa :> ka) @@ (pb :> kb) @@ (s1 :> k1) @@ (s2 :> k2)
MCKeyIdOfColliding == (pa :> ka) @@ (pb :> kb) @@ (s1 :> k1) @@ (s2 :> k1)
MCCapableKeys == (pa :> {pa, s1}) @@ (pb :> {pb})
MCKeysAll == (pa :> {pa, s1}) @@ (pb :> {pb, s1})
MCUserEmails == (pa :> {e1}) @@ (pb :> {e2})
MCSnapResidues == {{}, {<<"by-email", e1>>}}
=============================================================================
