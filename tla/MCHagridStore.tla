---------------------------- MODULE MCHagridStore ----------------------------
(***************************************************************************)
(* Two certificates for TLC.  pa has the primary key pa and the subkeys s1 *)
(* and s2; pb has the primary key pb and the subkey s1 of pa, so merging   *)
(* one after the other meets a collision.  Each has one email of its own.  *)
(* The key ids of s1 and s2 are either distinct or equal (a 64-bit key-id  *)
(* collision).                                                             *)
(***************************************************************************)
EXTENDS ConsistencyChecker, TLC

CONSTANTS pa, pb, s1, s2, ka, kb, k1, k2, e1, e2

MCPrims == {pa, pb}
MCFprs == {pa, pb, s1, s2}
MCKeyIds == {ka, kb, k1, k2}
MCEmails == {e1, e2}
MCKeyIdOfUnique == (pa :> ka) @@ (pb :> kb) @@ (s1 :> k1) @@ (s2 :> k2)
MCKeyIdOfColliding == (pa :> ka) @@ (pb :> kb) @@ (s1 :> k1) @@ (s2 :> k1)
MCCapableKeys == (pa :> {pa, s1, s2}) @@ (pb :> {pb, s1})
MCUserEmails == (pa :> {e1}) @@ (pb :> {e2})
MCNoResidue == {{}}
=============================================================================
