----------------------------- MODULE PathSanitizer -----------------------------
(***************************************************************************)
(* Common.Utilities.FileSystemPathSanitizer: from a key of the storage to  *)
(* the name of its file.  A name is a sequence of characters.  The hash of *)
(* what is cut off is any function of the whole.                           *)
(*                                                                         *)
(* Which names are one to the file system is not the sanitizer's affair:   *)
(* where the server runs, those that differ in case only                   *)
(* (PhysicalStorageClass.cs 100-112).  Fold says which characters do.      *)
(***************************************************************************)
EXTENDS Naturals, Sequences, SequencesExt

CONSTANTS
  Character,
  Path,               \* the keys there may be, sequences of characters
  InvalidCharacters,  \* a sequence: the hash set in the order of its foreach
  Code,               \* Code[c]: the two hex digits of an invalid character
  PartialHash(_),     \* of a sequence of characters: so many hex digits ...
  HashLength,         \* ... as this
  MaxLength,
  Fold                \* to one character, for those that differ in case

EscapeCharacter == "_"

(* Hex digits are valid, and invalid characters have codes below 256 (the   *)
(* cast to byte in line 35).                                                *)
ASSUME SanitizerAssumption ==
  /\ EscapeCharacter \in Character /\ Path \subseteq Seq(Character)
  /\ InvalidCharacters \in Seq(Character \ {EscapeCharacter})
  /\ \A c \in ToSet(InvalidCharacters) :
       /\ Code[c] \in Seq(Character \ ({EscapeCharacter} \union ToSet(InvalidCharacters)))
       /\ Len(Code[c]) = 2
  /\ HashLength \in Nat /\ MaxLength \in Nat /\ MaxLength >= HashLength + 2

Folded(s) == [i \in DOMAIN s |-> Fold[s[i]]]

(* The characters of codes are all lower case, so that they still tell      *)
(* which is meant, and what is escaped is no letter.                        *)
ASSUME FoldAssumption ==
  LET special == {EscapeCharacter} \union ToSet(InvalidCharacters)
  IN  /\ Fold \in [Character -> Character]
      /\ \A c \in special : Fold[c] = c
      /\ \A c \in Character \ special : Fold[c] \notin special
      /\ \A c, d \in ToSet(InvalidCharacters) : Folded(Code[c]) = Folded(Code[d]) => c = d

(* Mutant: the code is forgotten. *)
EscapeOnly(c) == IF c \in ToSet(InvalidCharacters) THEN <<EscapeCharacter>> ELSE <<c>>

Escape(c) ==
  IF c \in ToSet(InvalidCharacters) THEN <<EscapeCharacter>> \o Code[c] ELSE <<c>>

Replace(path, c, s) ==
  FlattenSeq([i \in DOMAIN path |-> IF path[i] = c THEN s ELSE <<path[i]>>])

(* The escape character goes first, and Escape leaves it as it is. *)
Escaped(path) ==
  LET escape(p, c) == Replace(p, c, Escape(c))
  IN  FoldLeft(escape, path, <<EscapeCharacter>> \o InvalidCharacters)

Shorten(path) ==
  IF Len(path) > MaxLength
  THEN SubSeq(path, 1, MaxLength - HashLength - 2)
         \o <<EscapeCharacter, EscapeCharacter>> \o PartialHash(path)
  ELSE path

SanitizeAsync(path) == Shorten(Escaped(path))

ASSUME HashAssumption ==
  \A path \in Path :
    LET hash == PartialHash(Escaped(path))
    IN  hash \in Seq(Character \ ToSet(InvalidCharacters)) /\ Len(hash) = HashLength

-----------------------------------------------------------------------------

IsLong(name) == Len(Escaped(name)) > MaxLength

HasEscape(name) == EscapeCharacter \in ToSet(name)

(* A file's name: neither too long nor with a character that must be escaped. *)
IsSafe(path) ==
  Len(path) <= MaxLength /\ ToSet(path) \intersect ToSet(InvalidCharacters) = {}

(* A file is that of one name only, unless                                  *)
(*   the other differs in case only; or                                     *)
(*   one has the escape character in it, which is not escaped though line   *)
(*   48 means to; or                                                        *)
(*   both are long.                                                         *)
PathsAreApart ==
  LET fileOf == [n \in Path |-> Folded(SanitizeAsync(n))]
  IN  \A m, n \in Path :
        fileOf[m] = fileOf[n]
        => \/ Folded(m) = Folded(n)
           \/ HasEscape(m) \/ HasEscape(n)
           \/ IsLong(m) /\ IsLong(n)

=============================================================================
