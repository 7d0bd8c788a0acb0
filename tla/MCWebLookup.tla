----------------------------- MODULE MCWebLookup -----------------------------
(***************************************************************************)
(* Two request handlers against the two certificates of MCHagridStore.    *)
(* pb either has its own keys {pb, s1} or also carries pa's primary key as *)
(* a subkey (a certificate re-using an older primary key).  The queries    *)
(* are the by-fpr entries of pa and s1, the by-keyid entry of s1 and the   *)
(* email of pa.                                                            *)
(***************************************************************************)
EXTENDS WebLookup, TLC

CONSTANTS pa, pb, s1, s2, ka, kb, k1, k2, e1, e2, r1, r2

MCPrims == {pa, pb}
MCFprs == {pa, pb, s1, s2}
MCKeyIds == {ka, kb, k1, k2}
MCEmails == {e1, e2}
MCKeyIdOf == (pa :> ka) @@ (pb :> kb) @@ (s1 :> k1) @@ (s2 :> k2)
MCCapableKeys == (pa :> {pa, s1, s2}) @@ (pb :> {pb, s1})
MCCapableKeysReuse == (pa :> {pa, s1, s2}) @@ (pb :> {pb, pa})
MCUserEmails == (pa :> {e1}) @@ (pb :> {e2})
MCReaders == {r1, r2}
MCOneReader == {r1}
MCQueries == {<<"by-fpr", pa>>, <<"by-fpr", s1>>, <<"by-keyid", k1>>,
              <<"by-email", e1>>}
\* Readers never look at the quarantine tier, so the runs leave out the
\* states in which a quarantine write has happened.
MCNoQuarantine == quarantined = {}
=============================================================================
