------------------------- MODULE ConsistencyChecker -------------------------
(***************************************************************************)
(* Filesystem::check_consistency (fs.rs) as an operator over the store     *)
(* state of HagridStore, next to reference definitions of the invariants   *)
(* I1-I5 of spec.md section 3.  The checker is read-only, so the           *)
(* specification here ranges over bounded snapshots of the store: Init     *)
(* chooses any published set, index and leftover residue, and the          *)
(* invariants compare the checker's verdict with the reference.            *)
(***************************************************************************)
EXTENDS HagridStore

CONSTANTS
    KeysAll,      \* [Prims -> SUBSET Fprs]: every key (TPK::keys_all)
    SnapResidues  \* the residue sets the snapshots range over

ASSUME \A p \in Prims : CapableKeys[p] \subseteq KeysAll[p]

-----------------------------------------------------------------------------
(* The checker.                                                            *)

\* Database::lookup(ByFingerprint(fp)) reads by_fpr(fp): the by-fpr entry
\* of fp, followed to the published record it names.  The result is the
\* certificate stored there, or NoLink (Ok(None), "No TPK").
LoadTPK(fp) ==
    IF Resolves(FprEntry(fp)) THEN links[FprEntry(fp)] ELSE NoLink

\* The entries WalkDir yields under one index tree.  path_to_primary
\* follows the symlink, so an entry's primary is the record it names.
IndexTree(fam) == {n \in Entries : n[1] = fam /\ links[n] # NoLink}

\* perform_checks: for each walked path, compute its primary (primaryOf),
\* load the certificate (an Err if there is none) and run the check
\* closure, given as a function of <<path, certificate, primary>>.
PerformChecks(paths, primaryOf, check) ==
    \A x \in paths :
        LET c == LoadTPK(primaryOf[x]) IN
        c # NoLink /\ check[x, c, primaryOf[x]]

\* First pass over pub/: the fingerprint decoded from the path against the
\* primary computed from the same, non-symlink, path.
PubPathMatches(p, c, primary) == p = primary

\* Mutant: the subkey pass propagating check_link_fpr's collision error
\* with `?` but ignoring the Some(missing) it returns.
SubkeysLinkedIgnoringMissing(p, c, primary) ==
    \A f \in CapableKeys[c] : CheckLinkFpr(f, primary) # "collision"

\* Second pass: check_link_fpr must report every capable key of the loaded
\* certificate as linked to the record's primary.
SubkeysLinked(p, c, primary) ==
    \A f \in CapableKeys[c] : CheckLinkFpr(f, primary) = "linked"

\* Third pass: every user-id email of the loaded certificate has a by-email
\* entry that exists (Path::exists follows the symlink).
EmailsLinked(p, c, primary) ==
    \A e \in UserEmails[c] : Resolves(EmailEntry(e))

\* by-fpr tree: path_to_keyid turns the 40-hex path into a key id, which is
\* compared with the key ids of the certificate's keys.
FprEntryChecked(n, c, primary) ==
    \E g \in KeysAll[c] : KeyIdOf[g] = KeyIdOf[n[2]]

\* by-keyid tree: the key id in the path is one of the certificate's.
KidEntryChecked(n, c, primary) ==
    \E g \in KeysAll[c] : KeyIdOf[g] = n[2]

\* Mutant: the by-email closure parsing the path but never comparing the
\* email with the certificate's user ids.
EmailEntryParsedOnly(n, c, primary) == n[2] \in Emails

\* by-email tree: the email in the path is one of the certificate's.
EmailEntryChecked(n, c, primary) ==
    n[2] \in UserEmails[c]

\* check_consistency is Ok(()).  A leftover linkXXXX/link in an index tree
\* is walked like an entry, and its last three path components do not
\* parse as an identifier ("Malformed path").
CheckConsistency ==
    LET pub == [p \in published |-> p]
        tree(fam) == [n \in IndexTree(fam) |-> links[n]]
        P == Prims
    IN
    /\ PerformChecks(published, pub,
           [x \in published, c \in P, q \in P |-> PubPathMatches(x, c, q)])
    /\ PerformChecks(published, pub,
           [x \in published, c \in P, q \in P |-> SubkeysLinked(x, c, q)])
    /\ PerformChecks(published, pub,
           [x \in published, c \in P, q \in P |-> EmailsLinked(x, c, q)])
    /\ residue = {}
    /\ PerformChecks(IndexTree("by-fpr"), tree("by-fpr"),
           [x \in IndexTree("by-fpr"), c \in P, q \in P |->
               FprEntryChecked(x, c, q)])
    /\ PerformChecks(IndexTree("by-keyid"), tree("by-keyid"),
           [x \in IndexTree("by-keyid"), c \in P, q \in P |->
               KidEntryChecked(x, c, q)])
    /\ PerformChecks(IndexTree("by-email"), tree("by-email"),
           [x \in IndexTree("by-email"), c \in P, q \in P |->
               EmailEntryChecked(x, c, q)])

-----------------------------------------------------------------------------
(* Reference: the invariants of spec.md section 3.  I1 (a record lies at   *)
(* its own fingerprint's path) holds by the abstraction of pub/ to a set   *)
(* of primaries.                                                           *)

KeyEntriesOf(q) == {FprEntry(f) : f \in KeysAll[q]} \cup
                   {KidEntry(f) : f \in KeysAll[q]}

\* I2: every capable key of a published certificate has both entries,
\* resolving to that certificate.
I2 == \A p \in published : \A f \in CapableKeys[p] :
          links[FprEntry(f)] = p /\ links[KidEntry(f)] = p

\* I3: every email of a published certificate has an entry resolving to it.
I3 == \A p \in published : \A e \in UserEmails[p] :
          links[EmailEntry(e)] = p

\* I4: every key entry names a key of the published certificate it
\* resolves to.
I4 == \A n \in IndexTree("by-fpr") \cup IndexTree("by-keyid") :
          links[n] \in published /\ n \in KeyEntriesOf(links[n])

\* I5: every email entry names an email of the published certificate it
\* resolves to.
I5 == \A n \in IndexTree("by-email") :
          links[n] \in published /\ n[2] \in UserEmails[links[n]]

\* No path in the trees fails to parse.
WellFormed == residue = {}

IndexConsistent == I2 /\ I3 /\ I4 /\ I5

Consistent == WellFormed /\ IndexConsistent

-----------------------------------------------------------------------------
(* Snapshots.                                                              *)

SnapInit ==
    /\ full = {} /\ quarantined = {}
    /\ published \in SUBSET Prims
    /\ links \in [Entries -> Prims \cup {NoLink}]
    /\ residue \in SnapResidues
    /\ session = Idle /\ faults = 0 /\ indexed = {}

SnapSpec == SnapInit /\ [][UNCHANGED vars]_vars

-----------------------------------------------------------------------------
(* Properties.                                                             *)

\* Completeness: check_consistency raises no false alarm; on every snapshot
\* that satisfies I1-I5 and has no unparsable path it returns Ok.
CheckerComplete == Consistent => CheckConsistency

\* Soundness for I2: when check_consistency returns Ok, every capable key
\* of every published certificate resolves to that certificate.
CheckerEnforcesI2 == CheckConsistency => I2

\* Soundness for I4: when check_consistency returns Ok, every by-fpr and
\* by-keyid entry names a key of the certificate it resolves to.
CheckerEnforcesI4 == CheckConsistency => I4

\* Soundness for I3 and I5: when check_consistency returns Ok, the email
\* entries agree with the published certificates' user ids.
CheckerEnforcesEmails == CheckConsistency => I3 /\ I5

-----------------------------------------------------------------------------
(* The checker on the states HagridStore reaches, when no merge or         *)
(* deletion holds the lock.                                                *)

\* On every store the merges and deletions can leave behind, errors and
\* crashes included, an Ok from check_consistency means I2-I5 hold.
AtRestCheckerSound ==
    session.op = "idle" => (CheckConsistency => IndexConsistent)

\* On every store at rest whose index satisfies I2-I5, check_consistency
\* returns Ok; a crash inside symlink() must not leave the store failing
\* the check although every entry is right.
AtRestCheckerComplete ==
    session.op = "idle" /\ IndexConsistent => CheckConsistency

=============================================================================
