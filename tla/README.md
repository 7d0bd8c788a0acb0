# TLA+ models of the hagrid storage engine

This directory models the filesystem storage engine of the key server
(`src/database/src/fs.rs`) and the web lookups that read it
(`src/src/web/mod.rs`). It holds the TLA+ modules, the TLC configurations
that check them, and `PROJECT.json`. That file lists the components, the
runs, the mutants, the map from definitions to source lines, the findings
and the hazards.

## 1. Inventory

### Components and their state

| Component | Source | State it keeps | Operations |
|---|---|---|---|
| Path layout | `fs.rs` `path_split`, `path_merge`, `fingerprint_to_path_*`, `link_by_*`, `path_to_*` | none (pure) | identifier to path: 2/2/rest sharding, emails percent-encoded; path to identifier: last three components joined; `path_to_primary` follows one symlink |
| Store tiers | `fs.rs` `write_to_temp`, `move_tmp_to_full`, `move_tmp_to_published`, `write_to_quarantine`, `by_fpr_full`, `by_primary_fpr`, `read_from_path` | files under `full/`, `quarantined/`, `pub/`; temp files in `tmp_dir` | write a temp file, set its mode, rename it into place (skipped under `dry_run` except quarantine); read with a path-confinement panic |
| Index manager | `fs.rs` `check_link_fpr`, `link_fpr`, `unlink_fpr`, `link_email`, `unlink_email`, `symlink` | symlinks under `links/by-fpr`, `links/by-keyid`, `links/by-email` | check for a collision before linking a subkey; link = create a temp symlink in a `linkXXXX` dir next to the entry and rename it over the entry; unlink = `read_link`, compare with the expected target, `remove_file` |
| Lock | `fs.rs` `lock` (`FlockMutexGuard`) | a flock on `keys_internal_dir` | blocking acquire; released on drop or process death |
| Consistency checker | `fs.rs` `check_consistency`, `perform_checks` | a cache of loaded certificates shared by the six passes | walk `pub/` (I1, I2, I3), then each index tree (I4, I5) |
| Lookups | `fs.rs` `lookup_primary_fingerprint`, `lookup_path`, `by_fpr`, `by_kid`, `by_email` | none | read an index entry, follow it |
| Web front end | `web/mod.rs` `key_to_response`, `key_to_hkp_index`, `by_fingerprint`, `by_keyid`, `by_email`, `lookup` with `Hkp::from_request`, `x_accel_redirect` | none | resolve a query to a primary fingerprint, then serve `by_fpr(fp)` or redirect nginx to `lookup_path(query)` |
| Callers (merge, deletion) | not in `src/` (lib.rs); spec.md §4.4, §5 | the lock for one logical operation | merge: write full, write published, check+link every capable key, link every email; deletion: unlink per identifier |
| Presentation | `web/mod.rs` templates, HKP index text, mail, rocket setup | none | formatting only; not modelled |

### How they interact

* Callers mutate the store only while they hold the flock. So merges and
  deletions are serialised, and each runs as a sequence of separate engine
  calls. A failed call returns an `Err` that aborts the caller. A crash
  kills the process, and the kernel drops the flock.
* Readers (the web routes) and the consistency checker take no lock. They
  interleave with the lock holder's steps. Every single file or symlink
  change is an atomic rename, so they never see a torn entry. They can see
  a state in the middle of a merge or deletion.
* The index entries are the only link from secondary identifiers to
  primaries. `check_link_fpr` is the only guard against collisions (I6).
  The target comparison in `unlink_*` is the only guard against removing
  an entry that now belongs to another certificate.

### What is hard

* **Partial multi-step operations.** `link_fpr` and `unlink_fpr` each
  touch two entries. A fault between the two leaves a by-fpr entry and a
  by-keyid entry that disagree.
* **Crash inside `symlink()`.** The crash leaves a `linkXXXX/link`
  directory inside the index tree.
* **Key-id collisions.** Two fingerprints share one by-keyid entry.
* **Unlocked readers.** `key_to_response` does two reads, and a merge or
  deletion can run between them. The checker also reads without the lock.
* **Path arithmetic.** Sharding, reverse parsing and the relative symlink
  targets must agree, and so must the `public/` prefix that the
  X-Accel-Redirect path is expected to have.

### What makes each component correct (spec.md §3 and §4)

* Index manager: I4/I5 (reverse soundness) and I6 (a collision fails and
  never silently re-points an entry). Unlink removes only the entries the
  caller owns. A merge that completes leaves I2/I3 true for its
  certificate.
* Store: a record appears only fully written. Reads stay inside the
  configured roots.
* Checker: it accepts exactly the snapshots that satisfy I1–I5 (sound and
  complete).
* Lookups: a served key is the key that the query resolves to.
* Path layout: `path_merge(path_split(s)) = s`. Email encoding round-trips.

## 2. Plan

The modules are listed in order of importance. All six are built and
checked. What remains open is listed in section 4.

1. **HagridStore**. The store tiers, the index manager and the
   `symlink()` helper, driven by locked caller sessions. The sessions are
   modelled from the spec. Faults are I/O errors and crashes.
2. **WebLookup**. Unlocked `key_to_response` readers racing HagridStore.
3. **ConsistencyChecker**. `check_consistency` over bounded snapshots,
   against reference definitions of I2-I5. It is also composed with
   HagridStore: `MCHagridStore` EXTENDS it and evaluates the checker on
   every state the merges, deletions and faults reach at rest.
4. **AbstractIndex** with a refinement. What the index promises: an entry
   is claimed only when it is free or already the claimer's, and released
   only by its owner. HagridStore implements it through
   `INSTANCE AbstractIndex WITH owner <- links`.
5. **PathLayout**. The string and path arithmetic behind the abstract
   entry names of modules 1-4.
6. **CheckerRun**. `check_consistency` as an unlocked process, one path
   per step, interleaved with HagridStore's merges and deletions.

## 3. What is modelled now

### HagridStore.tla

* **State.** `full`, `quarantined` and `published` are the primaries that
  have a record in each tier. `links` maps every index entry
  `<<family, identifier>>` to the primary its relative target names, or to
  `NoLink`. `residue` is the set of entries whose shard directory holds a
  leftover `linkXXXX/link`. `session` is the lock holder's merge or
  deletion. `faults` counts errors and crashes. `indexed` is a history
  variable: the certificates whose last merge completed.
* **Engine operations**, one operator per function of `fs.rs`:
  * `CheckLinkFpr` is `check_link_fpr`. Both collision tests canonicalize
    `link_keyid`, as the code does.
  * `LinkFpr` and `LinkEmail` are built on `Symlinks` (`symlink()`). It
    either succeeds, or fails after n of its renames. The failure is an
    `Err`, or a crash that may leave residue.
  * `UnlinkFpr` and `UnlinkEmail` are built on `Unlinks`: compare the
    target, then remove.
  * `MoveTmpToFull`, `MoveTmpToPublished` and `WriteToQuarantine` are the
    tier writes. `dry_run` is honoured exactly where the code checks it.
  * `Resolves` is the symlink-following `canonicalize`/`exists`.
* **Callers** (spec-modelled, because lib.rs is not in `src/`):
  * `BeginMerge`, `WriteFull`, `WritePublished`, `MergeLinkKey`,
    `MergeLinkEmail` and `FinishMerge` form a merge. `MergeLinkKey` checks
    a key, links it when the check says missing, and aborts on a
    collision.
  * `BeginDelete`, `DeleteUnlinkEmail`, `DeleteUnlinkKey` and
    `FinishDelete` form a deletion.
  * `Quarantine` is the caller that writes to quarantine.
  * `Crash` kills the lock holder between two steps.
  * The flock is modelled by allowing at most one session at a time. The
    sessions visit the keys and emails in any order.
* **Properties.**
  * `TypeOK`.
  * `MergedCertIndexed` (I2/I3, kept incrementally): the entries of every
    certificate whose merge completed still point at it.
  * `IndexRefinement`: HagridStore implements `AbstractIndex!Spec`.
    `Index == INSTANCE AbstractIndex WITH owner <- links` maps the index
    to the abstract owner map. Each step of the store is a stutter, a
    `Claim` of free or own entries (`check_link_fpr` before `link_fpr`, or
    one email owner), or a `Release` of the releaser's own entries (the
    target comparison in `unlink_*`).

### Runs (MCHagridStore.tla)

The model has two certificates. `pa` owns the keys {pa, s1, s2} and the
email e1. `pb` owns the keys {pb, s1} and the email e2. The shared subkey s1
makes the second merge meet a collision. `MCKeyIdOfColliding` gives s1 and
s2 the same key id. One email per certificate keeps emails unique, as spec
I6 requires of the merge logic.

| Run | Bounds | Result |
|---|---|---|
| `store_faults` | unique key ids, ≤ 2 faults | pass (514k states): `TypeOK`, `MergedCertIndexed`, `AtRestCheckerSound` |
| `store_relink` | unique key ids, ≤ 1 fault | **violation** of `IndexRefinement` |
| `store_stolen` | key-id collision, ≤ 2 faults | **violation** of `MergedCertIndexed` |
| `store_crash` | unique key ids, ≤ 2 faults | **violation** of `AtRestCheckerComplete` |

How to read the runs together:

* The slip at `fs.rs:320` (the by-fpr collision test reads the by-keyid
  entry) is invisible while the two entries of a key always move
  together, and one fault is enough to separate them. In `store_relink`,
  pa's `link_fpr(s1)` fails after by-fpr/s1 and before by-keyid/k1.
  pb's merge then finds by-keyid/k1 absent, so `check_link_fpr` returns
  `Some(s1)` and `link_fpr` overwrites by-fpr/s1 with pb, with no error.
  That step is neither a claim of a free entry nor a release, and spec
  §4 says `check` compares both entries and fails rather than overwrite.
* `MergedCertIndexed` is the property the target comparison in
  `unlink_*` protects: a blind `remove_file` lets the deletion of pb, after
  pb's merge met pa's s1 and aborted, remove pa's s1 entries.
* In `store_stolen`, pb's `link_fpr(s1)` fails after by-fpr/s1, and the
  orphaned entry meets a key-id collision: pa's merge links s2 onto
  by-keyid/k1, then `check_link_fpr(s1)` reads that entry, reports s1 as
  linked, and pa's merge completes. Meanwhile by-fpr/s1 still serves pb.

* `store_crash` composes the checker with the store. A merge of pb
  crashes inside `symlink()` and leaves `linkXXXX/link` in a by-fpr shard.
  A later merge completes, and every entry is right. `check_consistency`
  still fails, on the leftover, and no step of the code ever removes it
  (`fs.rs:260`).
* `AtRestCheckerSound` holds in `store_faults`. The soundness gaps of the
  snapshot runs below need coordinated corruption of two entries that the
  modelled merges and deletions never produce, even with faults.

Two faults are enough: one fault creates the orphan and one leaves
residue. The properties are about two certificates and one shared key, so
a third certificate adds no new case.

### ConsistencyChecker.tla

`check_consistency` and `perform_checks` as operators over the state of
HagridStore (the module EXTENDS it).

* `LoadTPK(fp)` is `lookup(ByFingerprint(fp))`, i.e. `by_fpr`. It follows
  the by-fpr entry of `fp` and yields the certificate stored in the record
  that entry names. It does not read `pub/<fp>`.
* `PerformChecks(paths, primaryOf, check)` is the walk. For every
  non-directory path it computes the primary, loads the certificate (an
  error if there is none) and applies the check closure. The closure is a
  function of `<<path, certificate, primary>>`. The per-pass cache does not
  change a result on a fixed snapshot, so it is left out.
* There is one operator per closure: `PubPathMatches` (the I1 pass, which
  compares a path with itself), `SubkeysLinked` (`check_link_fpr` on every
  capable key), `EmailsLinked` (the by-email entry exists),
  `FprEntryChecked` (key-id comparison), `KidEntryChecked` and
  `EmailEntryChecked`. A leftover `linkXXXX/link` fails the walk as a
  malformed path.
* `I2`, `I3`, `I4`, `I5`, `WellFormed` and `Consistent` are reference
  definitions of spec §3.
* `SnapSpec` enumerates snapshots. The published set is any subset of the
  certificates. Every index entry is absent or names any certificate.
  Residue is absent or one leftover. The checker takes no step, so
  `Next` is stuttering.
* `AtRestCheckerSound` and `AtRestCheckerComplete` compare the checker's
  verdict with `IndexConsistent` (I2-I5) in the states HagridStore
  reaches when no session holds the lock. `MCHagridStore` checks them
  (runs `store_faults` and `store_crash`).

Runs (`MCConsistencyChecker.tla`). `pa` has the capable keys {pa, s1}.
`pb` has the capable key pb and s1 as a non-capable key. `s2` belongs to
nobody, and in the colliding configuration it shares s1's key id.

| Run | Bounds | Result |
|---|---|---|
| `checker_complete` | key-id collision, 472k snapshots | pass: `CheckerComplete` (no false alarm on a consistent snapshot) |
| `checker_i4` | key-id collision | **violation** of `CheckerEnforcesI4`: by-fpr/s2 names pa, whose s1 has the same key id (`fs.rs:547`) |
| `checker_swapped` | unique key ids | **violation** of `CheckerEnforcesEmails`: by-fpr/pa names pb and by-fpr/pb names pa. Every pass then checks the other certificate, consistently, and returns Ok (`fs.rs:230`) |

Every gap needs a snapshot that breaks at least two entries in a
coordinated way. A unit test that corrupts one entry at a time would not
find one. Two certificates, one shared key and one colliding key id are
the smallest setting in which each gap shows.

### CheckerRun.tla

`check_consistency` as it really runs: a process that takes no lock,
interleaved with HagridStore's locked merges and deletions (the module
EXTENDS ConsistencyChecker, which EXTENDS HagridStore). `ck` holds the
checker's program counter, the pass it is in (`PassDir`: pub/ three times,
then by-fpr, by-keyid and by-email), the paths listed when WalkDir opened
the directory, the paths visited, and the `tpks` cache.

* `StartCheck`: an empty cache, and the walk of pub/ begins.
* `VisitPath(x)`: one iteration of `perform_checks`. `symlink_metadata`
  fails on a path that has gone; `PathToPrimary` is the record's own path
  for pub/, the link target for an index entry, and no primary for a
  leftover `linkXXXX/link`; a primary missing from the cache is loaded
  with `lookup(ByFingerprint)`; then the pass's closure (`PassCheck`,
  the same closures ConsistencyChecker defines) runs on the store as it
  is at this step. Any `Err` ends the run.
* `EndPass`: WalkDir is exhausted. It must have yielded every entry
  present both when the directory was read and now; an entry added or
  removed during the walk may or may not be yielded, which is what
  `readdir` guarantees.
* `StoreStep`: one step of HagridStore's `Next`. The history variable
  `ckClean` records whether some store state during the run was
  consistent.

| Run | Bounds | Result |
|---|---|---|
| `checker_race` | two certificates with one key each, pa with e1, ≤ 2 faults, no deletions | **violation** of `CheckerOkWasConsistent` |

* `CheckerOkWasConsistent` is violated, and this is a finding
  (`fs.rs:480`). pa's merge fails before its email is linked; the checker
  lists pub/ = {pa}; pb is published after the listing and its merge
  fails before linking; pa is merged again. The walk of pub/ never sees
  pb, and the index passes see only pa's entries, so the checker returns
  Ok while pb is published with no entries. No state during the run was
  consistent. Spec §4.5 presents the checker as a tool for operational
  auditing; its Ok means something only when no merge runs meanwhile.
  The code takes no lock, and its doc comment (`fs.rs:476-479`) calls the
  check slow and generally only useful for testing, without saying that.
  No deletion is needed, so `MCNoDeletion` keeps the run small.

### WebLookup.tla

The lookup routes of `web/mod.rs` as reader processes next to HagridStore
(the module EXTENDS it). `StoreStep` is one step of HagridStore's `Next`,
and readers take no lock.

* `VksLookup(r, fam, t)` is a `/vks/v1/by-fingerprint`, `by-keyid` or
  `by-email` request for the term t. A term that does not parse as the
  route's identifier (`IdsOf`) gets a 500. Any other term goes to
  `key_to_response` with `machine_readable = true`.
* `HkpLookup(r, req)` is `/pks/lookup`. `HkpFromRequest` is
  `queries::Hkp::from_request`:
  * With fewer than two fields, or an op other than get or index, the
    request guard fails, and the `Option` guard turns that into "not
    found".
  * Otherwise the search term is tried as a fingerprint, then as a key id,
    then as an email. A term that is none of them is `Invalid`, which
    also answers "not found".
  * `op=index` goes to `HkpIndex`. That is `key_to_hkp_index`, whose
    `Database::lookup` reads the entry through its symlink in one read.
    The index text is abstracted to the certificate it lists.
  * `op=get` goes to `key_to_response`. It is machine-readable only when
    `options` contains mr and the search is not an email (`web/mod.rs:559`).
  * `HkpRequests` enumerates the op, options and search fields, each given
    or absent.
* `Request` is `key_to_response` up to its first read.
  `LookupPrimaryFingerprint` is `read_link` of the query's entry. The
  target does not need to exist. A missing entry answers "not found". The
  search page (`machine_readable = false`) is rendered from the fingerprint
  alone.
* `RedirectStep` is the X-Accel-Redirect branch. `LookupPath` yields
  `<<"links", family, id>>`, the entry's path relative to
  `keys_external_dir`. `XAccelRedirect` checks the `public/` assertion. If
  the entry is gone, the handler falls back to `Serve`.
* `Serve` is `by_fpr(fp)` (`ByFpr`), which serves the key or answers "not
  found".
* `xaccel` is the rocket-managed setting. It is chosen at launch from
  `XAccelModes` and never changes.
* `seen` is a history variable. It holds what a one-step lookup of the
  query (`Current`) would have returned in each store state the request
  overlapped.

Runs (`MCWebLookup.tla`) use one handler, because handlers share nothing
but the store. Each read is atomic, because every change to the store is a
single rename. There are no faults. `web_owner` leaves out the states
after a quarantine write (`CONSTRAINT MCNoQuarantine`). No route reads the
quarantine tier, and those states multiply the state space by four without
adding a case. `Quarantine` itself fires in `store_faults`.

| Run | Bounds | Result |
|---|---|---|
| `web_owner` | X-Accel on or off, no quarantine writes, 123k states | pass: `WebTypeOK`, `ServedKeyOwnsQuery` (a certificate served or listed by any route claims the queried identifier) |
| `web_reuse` | pb carries pa's primary as a subkey | **violation** of `ServedKeyOwnsQuery`. e1 resolves to pa. pa is deleted and pb merged. `by_fpr(pa)` now serves pb for e1. |
| `web_xaccel` | X-Accel on | **violation** of `NoRedirectPanic`. Every path from `lookup_path` starts with `links/`, so the assertion at `web/mod.rs:100` fails. |

### AbstractIndex.tla

This module is the contract of the index, written from spec §3 (I6) and §4
and not from code. `owner` maps each entry to a certificate or `None`.
There are two actions:

* `Claim(S, c)` sets the entries in S to c, provided each is free or
  already c's.
* `Release(S, c)` frees those entries in S that are c's.

HagridStore's `IndexRefinement` is checked against this module in the
`store_relink` run, where one fault inside `link_fpr` is enough for the
code not to implement it (see the HagridStore runs).

### PathLayout.tla

The other modules name an entry `<<family, identifier>>`. This module
checks that naming against the real path arithmetic of `fs.rs`:

* **Representation.** A string is a sequence of one-character strings. A
  path is a sequence of components.
* **Operators.**
  * `PathSplit` and `PathMerge` are `path_split` and `path_merge`.
  * `ByteSerialize` is `form_urlencoded::byte_serialize`. It keeps
    alphanumerics and `*-._`, turns a space into `+`, and writes `%XX` for
    the rest.
  * `FormDecode` is `form_urlencoded::parse(..).next()?.0`.
  * `LinkByFingerprint`, `LinkByKeyid`, `LinkByEmail` and
    `FingerprintToPathPublished` build the paths.
  * `PathToFingerprint`, `PathToKeyid`, `PathToEmail` and `PathToPrimary`
    parse them back.
  * `LinkFprTarget` and `LinkEmailTarget` are the `diff_paths` targets
    written by `link_fpr` and `link_email`.
  * `Resolve` is where the filesystem takes such a target, with `..` as an
    ordinary component name.
* **Spec.** `LayoutSpec` picks one identifier and a primary in its initial
  state and then stutters.

Two properties are checked:

* `EntryNamesItsIdentifier`: every entry path, and every published path,
  decodes back to its identifier. The parsing in the checker's walks and
  in `path_to_primary` depends on this.
* `LinkTargetResolves`: the target written into the by-fpr, by-keyid and
  by-email entries leads from the entry's directory to the primary's
  record in `pub/`, and `path_to_primary` on it yields that primary.
  `link_fpr` computes the target once, from the by-fpr directory, and
  writes it into the by-keyid entry as well.

| Run | Bounds | Result |
|---|---|---|
| `path_layout` | 6-char fingerprints over {0, a}, their 5-char key ids, valid emails of ≤ 4 chars over {a . @ space + % & =}; every primary (34k states) | pass: `EntryNamesItsIdentifier`, `LinkTargetResolves` |

Why these bounds are enough:

* The lengths only need to exceed the 4 characters below which
  `path_split` does not shard. Real identifiers have 40 and 16 hex
  characters.
* The email alphabet contains each class that `byte_serialize` treats
  differently: kept as is, turned into `+`, or `%`-escaped. It also
  contains `%` and `+`, the two characters whose decoding could be
  confused.
* The mutants show that the bounds bite. A `byte_serialize` that keeps `+`
  breaks the email round trip. A target computed from the entry instead of
  its directory dangles.

Two assumptions come from `Email::from_str`, which is outside `src/`:

* `ValidEmail` says the local part and domain are non-empty, with non-empty
  dot-separated labels.
* If an email could be a bare `@`, its encoding would be 4 characters and
  would not be sharded. If it could contain `..`, such as `..@.`, the `..`
  would become a path component. The entry would then sit outside
  by-email/xx/yy, and its target would resolve outside `pub/`. A run
  without the assumption finds exactly this violation; whether
  `Email::from_str` admits such an email is outside `src/`.

### Fairness

No run checks a liveness property. Every handler and every engine call
is straight-line code with no loop and no wait, so a request is answered
and a session releases the flock by the shape of the code, and a
liveness property would hold whatever the code does. The flock itself is
a blocking `flock(2)` without fairness between waiters.

## 4. Not modelled

* Record contents, file modes, and the temp files left in `tmp_dir` after
  a crash. No reader observes them.
* Template rendering, HKP index text, mail and rocket setup.
* The content of a published record. The checker's I1 pass is vacuous
  (`fs.rs:493`), but showing that needs records whose content can differ
  from their path. This is listed as a hazard.
* What `Database::lookup` does inside lib.rs, which is outside `src/`.
  `key_to_hkp_index` and `manage_post` call it. `HkpIndex` takes it to be
  one read through the entry's symlink, as spec §5 describes reads.
* The verification and deletion-token routes (`verify`, `manage_post`,
  `confirm`). Their state lives behind `Database::verify_token`,
  `request_deletion` and `confirm_deletion` in lib.rs, outside `src/`.
  The route code itself only renders the result.
* Directory entries of `pub/` and the index trees that are not records
  or links (the shard directories). `perform_checks` skips directories,
  and their creation by `ensure_parent` changes no check.
* `fingerprint_to_path_full` and `fingerprint_to_path_quarantined`. They
  use the same `path_split` and join as the published path, and no reader
  parses them back.
* `dry_run = true`. Its asymmetry is listed as a hazard. The spec leaves
  the policy open.
