--------------------------- MODULE HashValidation ---------------------------
(***************************************************************************)
(* From the path segment of a request to the S3 key: the percent-decoding  *)
(* of axum's Path extractor and validate_hash (src/server/validation.rs).  *)
(* A segment is a sequence of pieces, a decoded hash one of characters;    *)
(* characters that the code treats alike are one.                          *)
(***************************************************************************)
EXTENDS Naturals, Sequences, FiniteSets

CONSTANT MAX_BYTES  \* 128: the longest hash, counted by String::len

ASSUME MaxBytesAssumption == MAX_BYTES \in Nat

(* An ASCII letter or digit; `-` or `_`; a letter or digit beyond ASCII,   *)
(* two bytes of UTF-8; `.`; `/`.                                           *)
Chars == {"alnum", "dash", "letter", "dot", "slash"}

(* What a URI can hold in one segment: some characters as they are, any    *)
(* percent-encoded, and bytes that are not UTF-8.                          *)
Raw == [char : {"alnum", "dash", "dot"}, encoded : {FALSE}]
       \cup [char : Chars \cup {"notUtf8"}, encoded : {TRUE}]

Decodable(path) == \A i \in DOMAIN path : path[i].char # "notUtf8"
Decode(path)    == [i \in DOMAIN path |-> path[i].char]

(* String::len counts bytes.                                               *)
Bytes(hash) == Len(hash) + Cardinality({i \in DOMAIN hash : hash[i] = "letter"})

(* Mutant: hash.chars().count() in place of hash.len().                    *)
ValidByChars(hash) ==
  /\ hash # <<>>
  /\ \A i \in DOMAIN hash : hash[i] \in {"alnum", "letter", "dash"}
  /\ Len(hash) <= MAX_BYTES

(* validate_hash returns Ok; char::is_alphanumeric is not ASCII's.         *)
Valid(hash) ==
  /\ hash # <<>>
  /\ \A i \in DOMAIN hash : hash[i] \in {"alnum", "letter", "dash"}
  /\ Bytes(hash) <= MAX_BYTES
=============================================================================
