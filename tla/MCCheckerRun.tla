----------------------------- MODULE MCCheckerRun -----------------------------
(***************************************************************************)
(* check_consistency running while two certificates are merged: pa and pb  *)
(* with their primary keys only, unique key ids, and one email for pa.     *)
(***************************************************************************)
EXTENDS CheckerRun, TLC

CONSTANTS pa, pb, ka, kb, e1

MCPrims == {pa, pb}
MCFprs == {pa, pb}
MCKeyIds == {ka, kb}
MCEmails == {e1}
MCKeyIdOf == (pa :> ka) @@ (pb :> kb)
MCCapableKeys == (pa :> {pa}) @@ (pb :> {pb})
MCUserEmails == (pa :> {e1}) @@ (pb :> {})
MCNoResidue == {{}}
\* Leaves out the behaviours in which a deletion runs.
MCNoDeletion == session.op # "delete"
=============================================================================
