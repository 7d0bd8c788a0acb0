----------------------------- MODULE WebLookup -----------------------------
(***************************************************************************)
(* The web front end's key lookups (web/mod.rs key_to_response) as reader  *)
(* processes that take no lock, interleaved with the locked merges and     *)
(* deletions of HagridStore.  A request reads the store in separate steps: *)
(* lookup_primary_fingerprint, then lookup_path (with X-Accel-Redirect)    *)
(* or by_fpr.  Each read is one atomic step, because every change to an    *)
(* index entry or record is a single rename.                               *)
(***************************************************************************)
EXTENDS HagridStore

CONSTANTS
    Readers,   \* concurrent request handlers
    Queries,   \* the index entries queried (a subset of Entries)
    XAccelModes, \* the XAccelRedirect settings the server may start with
    Garbage,   \* a search term no identifier parser accepts
    Absent     \* a query-string field that is not given

ASSUME Queries \subseteq Entries /\ XAccelModes \subseteq BOOLEAN

VARIABLES
    rpc,       \* [Readers -> {"idle", "path", "fpr"}]: the next read
    rq,        \* [Readers -> Queries]: the query being answered
    rfp,       \* [Readers -> Prims \cup {NoLink}]: the resolved primary
    resp,      \* [Readers -> Response]: the last response sent
    xaccel     \* the XAccelRedirect managed state, fixed at launch

readerVars == <<rpc, rq, rfp, resp, xaccel>>
webVars == <<vars, readerVars>>

Response == [kind : {"none", "notfound", "ise"}, cert : {NoLink}] \cup
            [kind : {"key", "page", "redirect", "panic", "index"}, cert : Prims]
NoResponse == [kind |-> "none", cert |-> NoLink]

-----------------------------------------------------------------------------
(* Reads of the store.                                                     *)

\* lookup_primary_fingerprint: read_link of the query's entry and parse its
\* target.  The target is not required to exist.
LookupPrimaryFingerprint(q) == links[q]

\* read_from_path: the record a path names, followed through its symlink
\* in the index l over the published set pub; None when it does not exist.
ByFprIn(l, pub, fp) ==
    IF l[FprEntry(fp)] \in pub THEN l[FprEntry(fp)] ELSE NoLink

\* by_fpr: read_from_path of fp's by-fpr entry.
ByFpr(fp) == ByFprIn(links, published, fp)

\* lookup_path: the entry's path relative to keys_external_dir, i.e.
\* links/<family>/<identifier>, when the entry exists (following the link).
LookupPath(q) == IF Resolves(q) THEN <<"links", q[1], q[2]>> ELSE <<>>

\* Database::lookup of q in one read through the entry's symlink, which
\* names the published record directly.
Current(q) == IF links[q] \in published THEN links[q] ELSE NoLink

\* x_accel_redirect asserts that the path starts with public/ and drops
\* that component; a failed assert panics the handler.
XAccelRedirect(path, fp) ==
    IF path[1] = "public"
    THEN [kind |-> "redirect", cert |-> fp]
    ELSE [kind |-> "panic", cert |-> fp]

\* The search terms a client may send: the identifiers of the queries, and
\* one that is none of them.
Terms == {q[2] : q \in Queries} \cup {Garbage}

\* Fingerprint::from_str, KeyID::from_str and Email::from_str: the
\* identifiers of each index family.
IdsOf(fam) == CASE fam = "by-fpr" -> Fprs
                [] fam = "by-keyid" -> KeyIds
                [] fam = "by-email" -> Emails

\* The query string of a /pks/lookup request: its op, options and search
\* fields, each given or not.  Other fields, and options without mr, only
\* add to the field count, which these already take through every case.
HkpRequests == [op : {"get", "index", "vindex", Absent},
                options : {"mr", Absent},
                search : Terms \cup {Absent}]

\* queries::Hkp::from_request.  Fewer than two fields, or an op other than
\* get and index, is a Failure (the Option<Hkp> guard yields None).  The
\* search term is tried as a fingerprint, a key id, then an email.
HkpFromRequest(req) ==
    LET given == {k \in DOMAIN req : req[k] # Absent}
        s == IF req.search = Absent THEN Garbage ELSE req.search
        parsed(kind, fam) == [kind |-> kind, q |-> <<fam, s>>,
                              index |-> req.op = "index",
                              mr |-> req.options = "mr"]
    IN
    CASE Cardinality(given) < 2 \/ req.op \notin {"get", "index"} ->
             [kind |-> "failure"]
      [] s \in Fprs -> parsed("fpr", "by-fpr")
      [] s \in KeyIds -> parsed("keyid", "by-keyid")
      [] s \in Emails -> parsed("email", "by-email")
      [] OTHER -> [kind |-> "invalid"]

-----------------------------------------------------------------------------
(* key_to_response, one action per read.                                   *)

WebInit ==
    /\ Init
    /\ rpc = [r \in Readers |-> "idle"]
    /\ rq \in [Readers -> Queries]
    /\ rfp = [r \in Readers |-> NoLink]
    /\ resp = [r \in Readers |-> NoResponse]
    /\ xaccel \in XAccelModes

\* Mutant: a missing entry does not end the request, which goes on with
\* the primary resolved by the reader's previous request.
RequestKeepStale(r, q, machineReadable) ==
    LET fp == IF LookupPrimaryFingerprint(q) = NoLink THEN rfp[r]
              ELSE LookupPrimaryFingerprint(q) IN
    /\ rpc[r] = "idle"
    /\ rq' = [rq EXCEPT ![r] = q]
    /\ rfp' = [rfp EXCEPT ![r] = fp]
    /\ \/ /\ fp = NoLink
          /\ resp' = [resp EXCEPT ![r] = [kind |-> "notfound", cert |-> NoLink]]
          /\ UNCHANGED rpc
       \/ /\ fp # NoLink /\ ~machineReadable
          /\ resp' = [resp EXCEPT ![r] = [kind |-> "page", cert |-> fp]]
          /\ UNCHANGED rpc
       \/ /\ fp # NoLink /\ machineReadable
          /\ rpc' = [rpc EXCEPT ![r] = IF xaccel THEN "path" ELSE "fpr"]
          /\ UNCHANGED resp
    /\ UNCHANGED <<vars, xaccel>>

\* A route calls key_to_response: the first read resolves the query to a
\* primary fingerprint.  A missing entry answers "not found"; the search
\* page (machine_readable = false) is rendered from the fingerprint alone.
Request(r, q, machineReadable) ==
    LET fp == LookupPrimaryFingerprint(q) IN
    /\ rpc[r] = "idle"
    /\ rq' = [rq EXCEPT ![r] = q]
    /\ rfp' = [rfp EXCEPT ![r] = fp]
    /\ \/ /\ fp = NoLink
          /\ resp' = [resp EXCEPT ![r] = [kind |-> "notfound", cert |-> NoLink]]
          /\ UNCHANGED rpc
       \/ /\ fp # NoLink /\ ~machineReadable
          /\ resp' = [resp EXCEPT ![r] = [kind |-> "page", cert |-> fp]]
          /\ UNCHANGED rpc
       \/ /\ fp # NoLink /\ machineReadable
          /\ rpc' = [rpc EXCEPT ![r] = IF xaccel THEN "path" ELSE "fpr"]
          /\ UNCHANGED resp
    /\ UNCHANGED <<vars, xaccel>>

\* /vks/v1/by-fingerprint, by-keyid and by-email: the path segment is
\* parsed as the route's identifier (an Err is a 500) and answered
\* machine-readably.
VksLookup(r, fam, t) ==
    \/ /\ t \notin IdsOf(fam)
       /\ rpc[r] = "idle"
       /\ resp' = [resp EXCEPT ![r] = [kind |-> "ise", cert |-> NoLink]]
       /\ UNCHANGED <<vars, rpc, rq, rfp, xaccel>>
    \/ /\ t \in IdsOf(fam)
       /\ Request(r, <<fam, t>>, TRUE)

\* key_to_hkp_index: Database::lookup reads the query's entry through the
\* symlink in one read; the certificate found is listed, or "not found".
HkpIndex(r, q) ==
    LET c == Current(q) IN
    /\ rpc[r] = "idle"
    /\ rq' = [rq EXCEPT ![r] = q]
    /\ resp' = [resp EXCEPT ![r] =
                  IF c = NoLink THEN [kind |-> "notfound", cert |-> NoLink]
                  ELSE [kind |-> "index", cert |-> c]]
    /\ UNCHANGED <<vars, rpc, rfp, xaccel>>

\* /pks/lookup: a Failure or an Invalid search is "not found"; op=index
\* lists the certificate, op=get goes to key_to_response, machine-readable
\* only when options contain mr and the search is not an email.
HkpLookup(r, req) ==
    LET k == HkpFromRequest(req) IN
    \/ /\ k.kind \in {"failure", "invalid"}
       /\ rpc[r] = "idle"
       /\ resp' = [resp EXCEPT ![r] = [kind |-> "notfound", cert |-> NoLink]]
       /\ UNCHANGED <<vars, rpc, rq, rfp, xaccel>>
    \/ /\ k.kind \in {"fpr", "keyid", "email"} /\ k.index
       /\ HkpIndex(r, k.q)
    \/ /\ k.kind \in {"fpr", "keyid", "email"} /\ ~k.index
       /\ Request(r, k.q, k.mr /\ k.kind # "email")

\* With X-Accel-Redirect enabled: the second read is lookup_path; if the
\* entry exists the handler redirects, otherwise it falls back to by_fpr.
RedirectStep(r) ==
    LET path == LookupPath(rq[r]) IN
    /\ rpc[r] = "path"
    /\ \/ /\ path # <<>>
          /\ resp' = [resp EXCEPT ![r] = XAccelRedirect(path, rfp[r])]
          /\ rpc' = [rpc EXCEPT ![r] = "idle"]
       \/ /\ path = <<>>
          /\ rpc' = [rpc EXCEPT ![r] = "fpr"]
          /\ UNCHANGED resp
    /\ UNCHANGED <<vars, rq, rfp, xaccel>>

\* Mutant: the key is sent whatever by_fpr returned, None included.
ServeUnchecked(r) ==
    /\ rpc[r] = "fpr"
    /\ resp' = [resp EXCEPT ![r] = [kind |-> "key",
                                    cert |-> ByFpr(rfp[r])]]
    /\ rpc' = [rpc EXCEPT ![r] = "idle"]
    /\ UNCHANGED <<vars, rq, rfp, xaccel>>

\* The last read: by_fpr of the resolved primary, served as the key or
\* answered "not found".
Serve(r) ==
    LET c == ByFpr(rfp[r]) IN
    /\ rpc[r] = "fpr"
    /\ resp' = [resp EXCEPT ![r] =
                  IF c = NoLink THEN [kind |-> "notfound", cert |-> NoLink]
                  ELSE [kind |-> "key", cert |-> c]]
    /\ rpc' = [rpc EXCEPT ![r] = "idle"]
    /\ UNCHANGED <<vars, rq, rfp, xaccel>>

\* A locked merge or deletion step runs between the readers' steps.
StoreStep ==
    /\ Next
    /\ UNCHANGED readerVars

WebNext ==
    \/ StoreStep
    \/ \E r \in Readers :
          \/ \E fam \in {"by-fpr", "by-keyid", "by-email"}, t \in Terms :
                VksLookup(r, fam, t)
          \/ \E req \in HkpRequests : HkpLookup(r, req)
          \/ RedirectStep(r)
          \/ Serve(r)

WebSpec == WebInit /\ [][WebNext]_webVars

-----------------------------------------------------------------------------
(* Properties.                                                             *)

WebTypeOK ==
    /\ TypeOK
    /\ rpc \in [Readers -> {"idle", "path", "fpr"}]
    /\ rq \in [Readers -> Queries]
    /\ rfp \in [Readers -> Prims \cup {NoLink}]
    /\ resp \in [Readers -> Response]
    /\ xaccel \in BOOLEAN

\* The index entries a certificate claims: its capable keys' by-fpr and
\* by-keyid entries and its emails' entries.
IdentifiersOf(c) == {FprEntry(f) : f \in CapableKeys[c]} \cup
                    {KidEntry(f) : f \in CapableKeys[c]} \cup
                    {EmailEntry(e) : e \in UserEmails[c]}

\* A key served or listed for a query is a certificate that claims the
\* queried identifier: whatever merges and deletions run between
\* lookup_primary_fingerprint and by_fpr, no route sends a certificate
\* unrelated to the query.
ServedKeyOwnsQuery ==
    \A r \in Readers :
        /\ resp[r].kind \in {"key", "index"} /\ rpc[r] = "idle"
        /\ resp[r].cert \in Prims
        => rq[r] \in IdentifiersOf(resp[r].cert)

\* x_accel_redirect never panics on a path lookup_path returned.
NoRedirectPanic == \A r \in Readers : resp[r].kind # "panic"

=============================================================================
