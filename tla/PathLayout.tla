----------------------------- MODULE PathLayout -----------------------------
(***************************************************************************)
(* The path arithmetic of fs.rs: identifier strings are sharded into       *)
(* 2/2/rest directories (path_split), emails are percent-encoded first     *)
(* (form_urlencoded::byte_serialize), paths are turned back into           *)
(* identifiers by joining their last three components (path_merge) and     *)
(* decoding, and an index entry's relative target is computed with         *)
(* diff_paths.  A string is a sequence of one-character strings; a path is *)
(* a sequence of components, each a string.  The fixed directory names     *)
(* (ext, pub, links, by-fpr, ...) are one-token components.                *)
(***************************************************************************)
EXTENDS Naturals, Sequences, FiniteSets, SequencesExt, TLC

CONSTANTS
    HexChars,     \* the characters of a hex identifier
    EmailChars,   \* the characters emails are drawn from
    FprLen,       \* length of a fingerprint's hex form (40 in OpenPGP v4)
    KidLen,       \* length of a key id's hex form (16)
    MaxEmailLen,  \* bound on the length of the emails enumerated
    None          \* a failed parse

\* A string of any length over cs, up to n characters.
Strings(cs, n) == SeqOf(cs, n) \ {<<>>}

Fprs == [1..FprLen -> HexChars]
KeyIds == [1..KidLen -> HexChars]
EmailsUpTo == Strings(EmailChars, MaxEmailLen)

\* KeyID::from(&Fingerprint): the last KidLen hex characters.
KeyIdOf(f) == SubSeq(f, FprLen - KidLen + 1, FprLen)

-----------------------------------------------------------------------------
(* Strings and paths.                                                      *)

\* path_split: strings longer than 4 become three components.
PathSplit(s) ==
    IF Len(s) > 4 THEN <<SubSeq(s, 1, 2), SubSeq(s, 3, 4), SubSeq(s, 5, Len(s))>>
    ELSE <<s>>

\* Mutant: path_merge joining only the last two components.
PathMergeLastTwo(path) ==
    FlattenSeq(SubSeq(path, IF Len(path) > 2 THEN Len(path) - 1 ELSE 1, Len(path)))

\* path_merge: the last three components (fewer if the path is shorter),
\* in order, joined.
PathMerge(path) ==
    FlattenSeq(SubSeq(path, IF Len(path) > 3 THEN Len(path) - 2 ELSE 1, Len(path)))

\* The bytes byte_serialize leaves alone (the url crate keeps ASCII
\* alphanumerics and * - . _); a space becomes +, anything else %XX.
Unreserved == {"a", "b", "0", "*", "-", ".", "_"}
PctCode == ("@" :> <<"%", "4", "0">>) @@ ("+" :> <<"%", "2", "B">>) @@
           ("%" :> <<"%", "2", "5">>) @@ ("&" :> <<"%", "2", "6">>) @@
           ("=" :> <<"%", "3", "D">>)

\* Mutant: + treated as a byte that needs no escaping.
ByteSerializeKeepPlus(s) ==
    FlattenSeq([i \in 1..Len(s) |->
        IF s[i] \in Unreserved \cup {"+"} THEN <<s[i]>>
        ELSE IF s[i] = " " THEN <<"+">> ELSE PctCode[s[i]]])

\* url::form_urlencoded::byte_serialize.
ByteSerialize(s) ==
    FlattenSeq([i \in 1..Len(s) |->
        IF s[i] \in Unreserved THEN <<s[i]>>
        ELSE IF s[i] = " " THEN <<"+">> ELSE PctCode[s[i]]])

\* The prefix of s before the first c (all of s if there is none).
BeforeFirst(s, c) ==
    IF \E i \in 1..Len(s) : s[i] = c
    THEN SubSeq(s, 1, Min({i \in 1..Len(s) : s[i] = c}) - 1)
    ELSE s

\* Percent-decoding after + has become a space; %XX is decoded when XX is
\* one of the codes above (an encoded string holds no other, since % is
\* itself escaped), any other byte is kept.
RECURSIVE PercentDecode(_)
PercentDecode(s) ==
    IF s = <<>> THEN <<>>
    ELSE IF Len(s) >= 3 /\ s[1] = "%" /\
            \E c \in DOMAIN PctCode : PctCode[c] = SubSeq(s, 1, 3)
    THEN << CHOOSE c \in DOMAIN PctCode : PctCode[c] = SubSeq(s, 1, 3) >>
         \o PercentDecode(SubSeq(s, 4, Len(s)))
    ELSE <<IF s[1] = "+" THEN " " ELSE s[1]>> \o PercentDecode(Tail(s))

\* form_urlencoded::parse(merged).next()?.0: the name of the first
\* name=value pair of the first &-separated piece, decoded; None if there is
\* no piece.
FormDecode(s) ==
    LET name == BeforeFirst(BeforeFirst(s, "&"), "=") IN
    IF BeforeFirst(s, "&") = <<>> THEN None ELSE PercentDecode(name)

\* The directories of Filesystem::new_internal under keys_external_dir.
PubDir == << <<"ext">>, <<"pub">> >>
LinksDir(fam) == << <<"ext">>, <<"links">>, <<fam>> >>

FingerprintToPathPublished(f) == PubDir \o PathSplit(f)
LinkByFingerprint(f) == LinksDir("by-fpr") \o PathSplit(f)
LinkByKeyid(k) == LinksDir("by-keyid") \o PathSplit(k)
LinkByEmail(e) == LinksDir("by-email") \o PathSplit(ByteSerialize(e))

\* Parsing a hex identifier of length n (Fingerprint/KeyID::from_str).
ParseHex(s, n) ==
    IF Len(s) = n /\ \A i \in 1..Len(s) : s[i] \in HexChars THEN s ELSE None

PathToFingerprint(path) == ParseHex(PathMerge(path), FprLen)
PathToKeyid(path) == ParseHex(PathMerge(path), KidLen)

\* path_to_email; Email::from_str is taken to accept any non-empty string.
PathToEmail(path) ==
    LET d == FormDecode(PathMerge(path)) IN
    IF d = None \/ d = <<>> THEN None ELSE d

\* path_to_primary on a symlink: read_link, then path_to_fingerprint of
\* the relative target.
PathToPrimary(target) == PathToFingerprint(target)

\* The parent-directory component "..", spelled as any other string.
DotDot == <<".", ".">>

\* pathdiff::diff_paths(path, base) for two absolute paths: one ".." per
\* component of base after the common prefix, then the rest of path.
DiffPaths(path, base) ==
    LET k == Max({i \in 0..Len(base) :
                    i <= Len(path) /\ SubSeq(path, 1, i) = SubSeq(base, 1, i)})
    IN [j \in 1..(Len(base) - k) |-> DotDot] \o SubSeq(path, k + 1, Len(path))

Parent(path) == SubSeq(path, 1, Len(path) - 1)

\* Mutant: the target computed relative to the by-fpr entry itself
\* instead of its directory.
LinkFprTargetFromLink(f, p) ==
    DiffPaths(FingerprintToPathPublished(p), LinkByFingerprint(f))

\* link_fpr: the target is computed once, relative to the by-fpr entry's
\* directory, and used for both the by-fpr and the by-keyid symlink.
LinkFprTarget(f, p) ==
    DiffPaths(FingerprintToPathPublished(p), Parent(LinkByFingerprint(f)))

\* link_email: the target relative to the email entry's directory.
LinkEmailTarget(e, p) ==
    DiffPaths(FingerprintToPathPublished(p), Parent(LinkByEmail(e)))

\* The location the filesystem reaches from the start of path (no
\* directory on the way is a symlink): ".." drops the component before it.
RECURSIVE Walk(_, _)
Walk(at, path) ==
    IF path = <<>> THEN at
    ELSE IF Head(path) = DotDot THEN Walk(Parent(at), Tail(path))
    ELSE Walk(Append(at, Head(path)), Tail(path))

\* Where a symlink in directory dir with the relative target rel leads.
Resolve(dir, rel) == Walk(<<>>, dir \o rel)

-----------------------------------------------------------------------------
(* The identifiers the store is asked to link, one per behaviour: a        *)
(* fingerprint (linked under by-fpr and, by its key id, by-keyid) or an    *)
(* email, with the primary whose record the entries point at.              *)

\* Email::from_str (not part of fs.rs) accepts addr-specs: one @ between a
\* non-empty local part and domain, whose dot-separated labels are
\* non-empty.
ValidEmail(e) ==
    LET at == {i \in 1..Len(e) : e[i] = "@"}
        dots == {i \in 1..Len(e) : e[i] = "."}
    IN /\ Cardinality(at) = 1
       /\ \A i \in at : 1 < i /\ i < Len(e)
       /\ \A i \in dots : /\ i > 1 /\ i < Len(e)
                         /\ e[i - 1] \notin {".", "@"} /\ e[i + 1] \notin {".", "@"}

Emails == {e \in EmailsUpTo : ValidEmail(e)}

Idents == [kind : {"fpr"}, id : Fprs] \cup [kind : {"email"}, id : Emails]

VARIABLES
    ident,    \* the identifier linked
    primary   \* the primary fingerprint its entries point at

layoutVars == <<ident, primary>>

LayoutInit == ident \in Idents /\ primary \in Fprs

\* The layout is a pure function of the identifier: nothing changes.
LayoutNext == UNCHANGED layoutVars

LayoutSpec == LayoutInit /\ [][LayoutNext]_layoutVars

-----------------------------------------------------------------------------
(* Properties.                                                             *)

\* Reverse mapping is exact (spec section 2, path layout): path_to_fingerprint
\* of link_by_fingerprint, path_to_keyid of link_by_keyid, path_to_email of
\* link_by_email and path_to_fingerprint of fingerprint_to_path_published
\* all give back the identifier they were built from, so the checker's
\* walks decode every entry path correctly.
EntryNamesItsIdentifier ==
    /\ ident.kind = "fpr" =>
          /\ PathToFingerprint(LinkByFingerprint(ident.id)) = ident.id
          /\ PathToKeyid(LinkByKeyid(KeyIdOf(ident.id))) = KeyIdOf(ident.id)
    /\ ident.kind = "email" => PathToEmail(LinkByEmail(ident.id)) = ident.id
    /\ PathToFingerprint(FingerprintToPathPublished(primary)) = primary

\* The relative target link_fpr writes into both the by-fpr and the by-keyid
\* entry (computed once, from the by-fpr entry's directory), and the one
\* link_email writes, resolve from the entry's own directory to the
\* primary's published record, and path_to_primary on the target gives the
\* primary back: a link is never dangling or pointing at another record.
LinkTargetResolves ==
    LET T == IF ident.kind = "fpr" THEN LinkFprTarget(ident.id, primary)
             ELSE LinkEmailTarget(ident.id, primary)
        dirs == IF ident.kind = "fpr"
                THEN {Parent(LinkByFingerprint(ident.id)),
                      Parent(LinkByKeyid(KeyIdOf(ident.id)))}
                ELSE {Parent(LinkByEmail(ident.id))}
    IN /\ \A d \in dirs : Resolve(d, T) = FingerprintToPathPublished(primary)
       /\ PathToPrimary(T) = primary

=============================================================================
