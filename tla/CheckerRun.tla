------------------------------ MODULE CheckerRun ------------------------------
(***************************************************************************)
(* check_consistency (fs.rs) as a process that takes no lock, interleaved  *)
(* with the locked merges and deletions of HagridStore.  Each of its six   *)
(* perform_checks passes walks one directory with WalkDir; one step visits *)
(* one path: symlink_metadata, path_to_primary, a lookup into the TPK      *)
(* cache that lives across all six passes, and the pass's check closure,   *)
(* all read from the store as it is at that step.  A directory entry that  *)
(* is neither added nor removed while the walk runs is yielded exactly     *)
(* once; one added or removed meanwhile may or may not be yielded.         *)
(***************************************************************************)
EXTENDS ConsistencyChecker

VARIABLES
    ck,       \* the checker: pc (idle, walk, ok, err), the pass walking, the
              \* paths listed at its start, the paths visited, the tpks cache
    ckClean   \* history: some state since the run began satisfied I2-I5
              \* and held no unparsable path

ckVars == <<ck, ckClean>>
runVars == <<vars, ckVars>>

\* The directory each pass walks, in the order check_consistency runs them.
PassDir == <<"pub", "pub", "pub", "by-fpr", "by-keyid", "by-email">>

\* A record of pub/ is the path <<"pub", p>>; an index entry is its own
\* path; a leftover linkXXXX/link next to entry n is <<"tmp", n>>.
PathsIn(dir) ==
    IF dir = "pub" THEN {<<"pub", p>> : p \in published}
    ELSE IndexTree(dir) \cup {<<"tmp", n>> : n \in {m \in residue : m[1] = dir}}

\* path_to_primary: the record's own path for pub/, read_link of the entry
\* for an index tree; a leftover link's path does not parse (NoLink).
PathToPrimary(x) ==
    CASE x[1] = "pub" -> x[2]
      [] x[1] = "tmp" -> NoLink
      [] OTHER -> links[x]

\* The check closure of pass k on path x, certificate c and primary q.
PassCheck(k, x, c, q) ==
    CASE k = 1 -> PubPathMatches(x[2], c, q)
      [] k = 2 -> SubkeysLinked(x[2], c, q)
      [] k = 3 -> EmailsLinked(x[2], c, q)
      [] k = 4 -> FprEntryChecked(x, c, q)
      [] k = 5 -> KidEntryChecked(x, c, q)
      [] k = 6 -> EmailEntryChecked(x, c, q)

NoCache == [p \in Prims |-> NoLink]

RunInit == Init /\ ck = [pc |-> "idle", pass |-> 1, listed |-> {},
                         done |-> {}, cache |-> NoCache]
               /\ ckClean = FALSE

-----------------------------------------------------------------------------
(* check_consistency, one action per step of the walk.                     *)

\* check_consistency is called: an empty cache, and WalkDir opens pub/.
StartCheck ==
    /\ ck.pc = "idle"
    /\ ck' = [pc |-> "walk", pass |-> 1, listed |-> PathsIn(PassDir[1]),
              done |-> {}, cache |-> NoCache]
    /\ ckClean' = Consistent
    /\ UNCHANGED vars

\* One iteration of perform_checks' loop on path x.  symlink_metadata
\* fails on a path that has gone since the directory was read; the primary
\* is computed from the path; a primary not in the cache is loaded with
\* lookup(ByFingerprint) (its by-fpr entry, followed); then the closure
\* runs.  Any Err ends check_consistency.
VisitPath(x) ==
    LET k == ck.pass
        q == PathToPrimary(x)
        c == IF q = NoLink THEN NoLink
             ELSE IF ck.cache[q] # NoLink THEN ck.cache[q] ELSE LoadTPK(q)
        ok == /\ x \in PathsIn(PassDir[k])
              /\ c # NoLink
              /\ PassCheck(k, x, c, q)
    IN
    /\ ck.pc = "walk"
    /\ x \in (ck.listed \cup PathsIn(PassDir[k])) \ ck.done
    /\ ck' = IF ok THEN [ck EXCEPT !.done = @ \cup {x},
                                   !.cache[q] = c]
             ELSE [ck EXCEPT !.pc = "err"]
    /\ UNCHANGED <<vars, ckClean>>

\* WalkDir is exhausted once it has yielded every entry present both when
\* the directory was read and now; check_consistency goes on to the next
\* pass, or returns Ok(()) after the by-email pass.
EndPass ==
    /\ ck.pc = "walk"
    /\ ck.listed \cap PathsIn(PassDir[ck.pass]) \subseteq ck.done
    /\ ck' = IF ck.pass = 6 THEN [ck EXCEPT !.pc = "ok"]
             ELSE [ck EXCEPT !.pass = @ + 1,
                             !.listed = PathsIn(PassDir[ck.pass + 1]),
                             !.done = {}]
    /\ UNCHANGED <<vars, ckClean>>

\* A merge or deletion step under the flock; the history notes whether the
\* store it leaves is consistent while a run is under way.
StoreStep ==
    /\ Next
    /\ UNCHANGED ck
    /\ ckClean' = (ckClean \/ (ck.pc = "walk" /\ Consistent'))

RunNext ==
    \/ StoreStep
    \/ StartCheck
    \/ ck.pc = "walk" /\ \E x \in ck.listed \cup PathsIn(PassDir[ck.pass]) :
                              VisitPath(x)
    \/ EndPass

RunSpec == RunInit /\ [][RunNext]_runVars

-----------------------------------------------------------------------------
(* Properties.                                                             *)

\* An Ok from check_consistency run concurrently with merges and deletions
\* is never assembled from states none of which was consistent: although
\* each path is checked against the store as it is at that moment, and the
\* cached certificates were loaded passes earlier, some store state during
\* the run satisfied I2-I5 with no unparsable path.
CheckerOkWasConsistent == ck.pc = "ok" => ckClean

=============================================================================
