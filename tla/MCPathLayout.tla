---------------------------- MODULE MCPathLayout ----------------------------
(***************************************************************************)
(* Identifiers short enough to enumerate but longer than the four          *)
(* characters below which path_split leaves a string unsharded: 6-char     *)
(* fingerprints and their 5-char key ids over two hex digits, and emails   *)
(* of up to four characters over letters, ".", "@", and the characters     *)
(* byte_serialize escapes or turns into "+".                               *)
(***************************************************************************)
EXTENDS PathLayout

MCHexChars == {"0", "a"}
MCEmailChars == {"a", ".", "@", " ", "+", "%", "&", "="}
=============================================================================
