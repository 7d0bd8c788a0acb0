----------------------------- MODULE HagridStore -----------------------------
(***************************************************************************)
(* The filesystem storage engine of database/src/fs.rs: the three record   *)
(* tiers (full, quarantined, published) and the three symlink index        *)
(* families (by-fpr, by-keyid, by-email), driven by callers that hold the  *)
(* process-wide flock for one logical merge or deletion at a time.         *)
(*                                                                         *)
(* A certificate is named by its primary fingerprint; its contents are     *)
(* the constant sets CapableKeys[p] (certification- or signing-capable     *)
(* keys, the primary among them) and UserEmails[p].  A record file is      *)
(* abstracted to its presence (every write is an atomic rename of a fully  *)
(* written temp file), an index entry to the primary its relative target   *)
(* names.                                                                  *)
(***************************************************************************)
EXTENDS Naturals, Sequences, FiniteSets

CONSTANTS
    Prims,        \* primary fingerprints of the certificates callers submit
    Fprs,         \* every key fingerprint; Prims \subseteq Fprs
    KeyIds,       \* 64-bit key ids
    Emails,       \* user-id email addresses
    KeyIdOf,      \* [Fprs -> KeyIds]: Fingerprint -> KeyID (not injective)
    CapableKeys,  \* [Prims -> SUBSET Fprs]
    UserEmails,   \* [Prims -> SUBSET Emails]
    NoLink,       \* absence of an index entry (model value)
    DryRun,       \* Filesystem.dry_run
    MaxFaults     \* bound on I/O errors and crashes in one behaviour

ASSUME /\ Prims \subseteq Fprs
       /\ KeyIdOf \in [Fprs -> KeyIds]
       /\ \A p \in Prims : p \in CapableKeys[p] /\ CapableKeys[p] \subseteq Fprs
       /\ NoLink \notin Prims
       /\ DryRun \in BOOLEAN
       /\ MaxFaults \in Nat

VARIABLES
    full,         \* primaries with a record under keys_dir_full
    quarantined,  \* primaries with a record under keys_dir_quarantined
    published,    \* primaries with a record under keys_dir_published
    links,        \* index entry -> primary it points to, or NoLink
    residue,      \* entries whose shard dir holds a leftover linkXXXX/link
    session,      \* the lock holder's merge or deletion (the caller)
    faults,       \* I/O errors and crashes so far
    indexed       \* history: primaries whose last merge completed and
                  \* that have not been deleted since

storeVars == <<full, quarantined, published>>
vars == <<full, quarantined, published, links, residue, session, faults,
          indexed>>

-----------------------------------------------------------------------------
(* Path layout of the index entries (fs.rs link_by_keyid and friends).       *)

FprEntry(f) == <<"by-fpr", f>>
KidEntry(f) == <<"by-keyid", KeyIdOf[f]>>
EmailEntry(e) == <<"by-email", e>>

Entries == {FprEntry(f) : f \in Fprs} \cup
           {<<"by-keyid", k>> : k \in KeyIds} \cup
           {EmailEntry(e) : e \in Emails}

Idle == [op |-> "idle", cert |-> NoLink, stage |-> "none",
         keys |-> {}, emails |-> {}]

Session == [op : {"idle", "merge", "delete"}, cert : Prims \cup {NoLink},
            stage : {"none", "full", "pub", "index"},
            keys : SUBSET Fprs, emails : SUBSET Emails]

-----------------------------------------------------------------------------
(* The engine's operations (fs.rs).                                        *)

\* Path::canonicalize and Path::exists follow the symlink: they see an
\* entry only when the published record it names exists.
Resolves(n) == links[n] # NoLink /\ links[n] \in published

\* Mutant: check_link_fpr with no collision test at all: a missing entry is simply
\* (re)linked.
CheckLinkFprNoCollision(f, p) ==
    IF links[FprEntry(f)] # NoLink /\ links[KidEntry(f)] # NoLink
    THEN "linked" ELSE "missing"

\* Mutant: check_link_fpr with the suffix test negated, reporting a
\* collision exactly when the entry does point at the expected record.
CheckLinkFprInverted(f, p) ==
    IF Resolves(KidEntry(f)) /\ links[KidEntry(f)] = p THEN "collision"
    ELSE IF ~Resolves(FprEntry(f)) \/ ~Resolves(KidEntry(f))
         THEN "missing"
         ELSE "linked"

\* check_link_fpr: "collision" is the Err, "missing" is Ok(Some(fpr)),
\* "linked" is Ok(None).  Both collision tests canonicalize link_keyid;
\* the by-fpr entry itself is never compared with the expected target.
CheckLinkFpr(f, p) ==
    LET fprCollides == Resolves(KidEntry(f)) /\ links[KidEntry(f)] # p
        kidCollides == Resolves(KidEntry(f)) /\ links[KidEntry(f)] # p
    IN  IF fprCollides \/ kidCollides THEN "collision"
        ELSE IF ~Resolves(FprEntry(f)) \/ ~Resolves(KidEntry(f))
             THEN "missing"
             ELSE "linked"

\* The index after the first n of the symlink() calls on names, each of
\* which atomically renames a fresh link to p over the entry.
Relinked(names, n, p) ==
    [e \in Entries |-> IF \E i \in 1..n : names[i] = e THEN p ELSE links[e]]

\* The index after the first n of the read_link/compare/remove_file steps
\* on names: an entry is removed only when it points to p.
Unlinked(names, n, p) ==
    [e \in Entries |-> IF \E i \in 1..n : names[i] = e /\ links[e] = p
                       THEN NoLink ELSE links[e]]

\* A sequence of symlink() calls to p, as in link_fpr and link_email.  All
\* succeed and the caller continues with next, or the call fails after n
\* of them: an Err (the TempDir is dropped and removed) or a crash, which
\* leaves linkXXXX/link behind when it comes between the temp symlink and
\* the rename.  Either way the caller's session ends and the flock is
\* released.
Symlinks(names, p, next) ==
    \/ /\ links' = Relinked(names, Len(names), p)
       /\ session' = next
       /\ UNCHANGED <<residue, faults>>
    \/ /\ faults < MaxFaults
       /\ \E n \in 0..Len(names) - 1, leftover \in BOOLEAN :
            /\ links' = Relinked(names, n, p)
            /\ residue' = IF leftover THEN residue \cup {names[n + 1]}
                          ELSE residue
       /\ faults' = faults + 1
       /\ session' = Idle

\* A sequence of verify-and-remove steps for p, as in unlink_fpr and
\* unlink_email; a failing remove_file ends the call early.
Unlinks(names, p, next) ==
    \/ /\ links' = Unlinked(names, Len(names), p)
       /\ session' = next
       /\ UNCHANGED faults
    \/ /\ faults < MaxFaults
       /\ \E n \in 0..Len(names) - 1 : links' = Unlinked(names, n, p)
       /\ faults' = faults + 1
       /\ session' = Idle

\* write_to_temp followed by move_tmp_to_full: a no-op under dry_run.
MoveTmpToFull(p) ==
    full' = IF DryRun THEN full ELSE full \cup {p}

\* move_tmp_to_published: a no-op under dry_run.
MoveTmpToPublished(p) ==
    published' = IF DryRun THEN published ELSE published \cup {p}

\* write_to_quarantine: performed even under dry_run.
WriteToQuarantine(p) ==
    quarantined' = quarantined \cup {p}

\* Mutant: link_fpr computing the relative target from the subkey instead
\* of the primary (fingerprint_to_path_published(from)).
LinkFprToSubkey(f, p, next) ==
    IF DryRun THEN session' = next /\ UNCHANGED <<links, residue, faults>>
    ELSE Symlinks(<<FprEntry(f), KidEntry(f)>>, f, next)

\* link_fpr: by-fpr entry first, then the by-keyid entry of the same key.
LinkFpr(f, p, next) ==
    IF DryRun THEN session' = next /\ UNCHANGED <<links, residue, faults>>
    ELSE Symlinks(<<FprEntry(f), KidEntry(f)>>, p, next)

\* unlink_fpr: no dry_run check.
UnlinkFpr(f, p, next) ==
    Unlinks(<<FprEntry(f), KidEntry(f)>>, p, next) /\ UNCHANGED residue

\* link_email: the early return `link == target` compares the entry's
\* absolute path with a relative target and never holds, so the entry is
\* always re-created.
LinkEmail(e, p, next) ==
    IF DryRun THEN session' = next /\ UNCHANGED <<links, residue, faults>>
    ELSE Symlinks(<<EmailEntry(e)>>, p, next)

\* unlink_email: no dry_run check.
UnlinkEmail(e, p, next) ==
    Unlinks(<<EmailEntry(e)>>, p, next) /\ UNCHANGED residue

-----------------------------------------------------------------------------
(* The callers: one merge or deletion at a time under the flock            *)
(* (Database::lock, FlockMutexGuard); modelled from the spec.              *)

Init ==
    /\ full = {}
    /\ quarantined = {}
    /\ published = {}
    /\ links = [e \in Entries |-> NoLink]
    /\ residue = {}
    /\ session = Idle
    /\ faults = 0
    /\ indexed = {}

BeginMerge(p) ==
    /\ session.op = "idle"
    /\ session' = [op |-> "merge", cert |-> p, stage |-> "full",
                   keys |-> CapableKeys[p], emails |-> UserEmails[p]]
    /\ indexed' = indexed \ {p}
    /\ UNCHANGED <<storeVars, links, residue, faults>>

WriteFull ==
    /\ session.op = "merge" /\ session.stage = "full"
    /\ MoveTmpToFull(session.cert)
    /\ session' = [session EXCEPT !.stage = "pub"]
    /\ UNCHANGED <<quarantined, published, links, residue, faults, indexed>>

WritePublished ==
    /\ session.op = "merge" /\ session.stage = "pub"
    /\ MoveTmpToPublished(session.cert)
    /\ session' = [session EXCEPT !.stage = "index"]
    /\ UNCHANGED <<full, quarantined, links, residue, faults, indexed>>

\* One capable key: check_link_fpr, then link_fpr when it reports the key
\* missing; a collision aborts the merge with an error.
MergeLinkKey(f) ==
    LET p == session.cert
        next == [session EXCEPT !.keys = @ \ {f}]
    IN
    /\ session.op = "merge" /\ session.stage = "index"
    /\ f \in session.keys
    /\ CASE CheckLinkFpr(f, p) = "collision" ->
              session' = Idle /\ UNCHANGED <<links, residue, faults>>
         [] CheckLinkFpr(f, p) = "linked" ->
              session' = next /\ UNCHANGED <<links, residue, faults>>
         [] CheckLinkFpr(f, p) = "missing" -> LinkFpr(f, p, next)
    /\ UNCHANGED <<storeVars, indexed>>

MergeLinkEmail(e) ==
    /\ session.op = "merge" /\ session.stage = "index"
    /\ session.keys = {} /\ e \in session.emails
    /\ LinkEmail(e, session.cert, [session EXCEPT !.emails = @ \ {e}])
    /\ UNCHANGED <<storeVars, indexed>>

FinishMerge ==
    /\ session.op = "merge" /\ session.stage = "index"
    /\ session.keys = {} /\ session.emails = {}
    /\ session' = Idle
    /\ indexed' = indexed \cup {session.cert}
    /\ UNCHANGED <<storeVars, links, residue, faults>>

BeginDelete(p) ==
    /\ session.op = "idle"
    /\ session' = [op |-> "delete", cert |-> p, stage |-> "index",
                   keys |-> CapableKeys[p], emails |-> UserEmails[p]]
    /\ indexed' = indexed \ {p}
    /\ UNCHANGED <<storeVars, links, residue, faults>>

DeleteUnlinkEmail(e) ==
    /\ session.op = "delete" /\ e \in session.emails
    /\ UnlinkEmail(e, session.cert, [session EXCEPT !.emails = @ \ {e}])
    /\ UNCHANGED <<storeVars, indexed>>

DeleteUnlinkKey(f) ==
    /\ session.op = "delete" /\ f \in session.keys
    /\ UnlinkFpr(f, session.cert, [session EXCEPT !.keys = @ \ {f}])
    /\ UNCHANGED <<storeVars, indexed>>

FinishDelete ==
    /\ session.op = "delete"
    /\ session.keys = {} /\ session.emails = {}
    /\ session' = Idle
    /\ UNCHANGED <<storeVars, links, residue, faults, indexed>>

Quarantine(p) ==
    /\ session.op = "idle"
    /\ WriteToQuarantine(p)
    /\ UNCHANGED <<full, published, links, residue, session, faults, indexed>>

\* The lock holder dies between two atomic steps; the kernel drops its
\* flock.  A crash inside an atomic write leaves only a temp file in tmp_dir.
Crash ==
    /\ session.op # "idle"
    /\ faults < MaxFaults
    /\ session' = Idle
    /\ faults' = faults + 1
    /\ UNCHANGED <<storeVars, links, residue, indexed>>

Next ==
    \/ \E p \in Prims : BeginMerge(p) \/ BeginDelete(p) \/ Quarantine(p)
    \/ WriteFull \/ WritePublished \/ FinishMerge \/ FinishDelete
    \/ \E f \in Fprs : MergeLinkKey(f) \/ DeleteUnlinkKey(f)
    \/ \E e \in Emails : MergeLinkEmail(e) \/ DeleteUnlinkEmail(e)
    \/ Crash

Spec == Init /\ [][Next]_vars

-----------------------------------------------------------------------------
(* Properties.                                                             *)

TypeOK ==
    /\ full \subseteq Prims /\ quarantined \subseteq Prims
    /\ published \subseteq Prims
    /\ links \in [Entries -> Prims \cup {NoLink}]
    /\ residue \subseteq Entries
    /\ session \in Session
    /\ faults \in 0..MaxFaults
    /\ indexed \subseteq Prims

\* I2/I3 kept incrementally: once a merge of p has completed, every capable
\* key of p keeps its by-fpr and by-keyid entry and every email of p its
\* by-email entry pointing at p, whatever other merges and deletions,
\* including failed and crashed ones, do afterwards.  This is what the
\* collision test of check_link_fpr and the target test of unlink_* protect.
MergedCertIndexed ==
    \A p \in indexed :
        /\ \A f \in CapableKeys[p] :
               links[FprEntry(f)] = p /\ links[KidEntry(f)] = p
        /\ \A e \in UserEmails[p] : links[EmailEntry(e)] = p

\* The index as the abstract claim/release store: links is the owner map.
Index == INSTANCE AbstractIndex WITH Ids <- Entries, Certs <- Prims,
                                     None <- NoLink, owner <- links

\* Refinement: every step of the merges and deletions changes the index
\* as a claim by one certificate of free or own entries (check_link_fpr
\* before link_fpr, one email owner) or a release of its own entries
\* (unlink_* comparing the target), never by taking another certificate's
\* entry.
IndexRefinement == Index!Spec

=============================================================================
