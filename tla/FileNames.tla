------------------------------- MODULE FileNames -------------------------------
(***************************************************************************)
(* The name under which a file that DirListing shows is asked from         *)
(* Dropbox: get_file_path and utf16_to_utf8 (dbfat.c), which make the path *)
(* that the block cache takes, and db_url_escape (dbapi.c), which makes    *)
(* the URL of a request from it.                                           *)
(***************************************************************************)
EXTENDS DirListing

CONSTANTS
  ParentNames,   \* the names of the directory and of those above it
  CHAR_SIGNED    \* whether char is a signed type: on x86 it is, on ARM not

ASSUME NamesAssumption ==
  /\ ParentNames \in Seq(Seq(1 .. UINT16 - 1)) \ {<<>>}
  /\ ParentIsRoot <=> Len(ParentNames) = 1
  /\ CHAR_SIGNED \in BOOLEAN

PATH_SEPARATOR == 47
PERCENT        == 37

\* get_file_path, of child i: from its name up to the root.
FilePath(i) ==
  LET names == <<children[i].name>> \o (IF is_root THEN <<>> ELSE ParentNames)
      path[k \in 0 .. Len(names)] ==
        IF k = 0 THEN <<>> ELSE <<PATH_SEPARATOR>> \o names[k] \o path[k - 1]
  IN  path[Len(names)]

\* iconv, of a character in the basic plane.
Utf8Char(unit) ==
  IF unit < 2 ^ 7 THEN <<unit>>
  ELSE IF unit < 2 ^ 11 THEN <<192 + unit \div 64, 128 + (unit % 64)>>
  ELSE <<224 + unit \div 4096, 128 + ((unit \div 64) % 64), 128 + (unit % 64)>>

\* utf16_to_utf8
Utf8(path) == FlattenSeq([k \in DOMAIN path |-> Utf8Char(path[k])])

\* A byte read as a char, and its division by 16: C rounds towards 0.
AsChar(byte) == IF CHAR_SIGNED /\ byte >= 128 THEN byte - UINT8 ELSE byte
High(char)   == IF char < 0 THEN -((-char) \div 16) ELSE char \div 16
Low(char)    == char - 16 * High(char)

\* Mutant: the escape character itself is not escaped.
UnescapedPercent ==
  (48 .. 57) \cup (65 .. 90) \cup (97 .. 122) \cup {45, 46, 95, 47, PERCENT}

\* Digits, letters, "-", ".", "_" and "/".
Unescaped == (48 .. 57) \cup (65 .. 90) \cup (97 .. 122) \cup {45, 46, 95, 47}

\* hex_char
HexChar(hex_digit) == IF hex_digit < 10 THEN 48 + hex_digit ELSE 87 + hex_digit

\* db_url_escape
DbUrlEscape(url) ==
  FlattenSeq(
    [k \in DOMAIN url |->
       LET char == AsChar(url[k])
       IN  IF char \in Unescaped THEN <<char>>
           ELSE <<PERCENT, HexChar(High(char)), HexChar(Low(char))>>])

(***************************************************************************)
(* Properties.                                                             *)
(***************************************************************************)

Files == {i \in DOMAIN children : ~children[i].is_dir}

\* The assertions of hex_char hold for every file that can be asked for.
HexDigitsHold ==
  \A i \in Files : \A byte \in ToSet(Utf8(FilePath(i))) :
    LET char == AsChar(byte)
    IN  char \notin Unescaped => High(char) \in 0 .. 15 /\ Low(char) \in 0 .. 15

\* What a server makes of an escaped URL, character by character: the bytes so far,
\* how many digits are due of the next one, and the first of them.
Digit(char) == IF char < 58 THEN char - 48 ELSE char - 87

DecodeNext(read, char) ==
  IF read.due = 2
  THEN [bytes |-> read.bytes, due |-> 1, high |-> Digit(char)]
  ELSE IF read.due = 1
  THEN [bytes |-> Append(read.bytes, 16 * read.high + Digit(char)), due |-> 0,
        high |-> 0]
  ELSE IF char = PERCENT
  THEN [bytes |-> read.bytes, due |-> 2, high |-> 0]
  ELSE [bytes |-> Append(read.bytes, char), due |-> 0, high |-> 0]

Decoded(url) ==
  LET read[k \in 0 .. Len(url)] ==
        IF k = 0 THEN [bytes |-> <<>>, due |-> 0, high |-> 0]
        ELSE DecodeNext(read[k - 1], url[k])
  IN  read[Len(url)].bytes

\* The directory as a path: the names of those above it and its own.
DirectoryPath ==
  IF is_root THEN <<>>
  ELSE FlattenSeq([k \in DOMAIN ParentNames |->
                     <<PATH_SEPARATOR>> \o Reverse(ParentNames)[k]])

\* The request for a file names the file that the listing shows: the URL, which
\* has only characters that a URL may have, decodes to the path of the directory
\* and the name that a driver reads from the directory entries.
RequestNamesListed ==
  LET listing == Listing
  IN  \A n \in ShortEntries(listing) :
        LET i == Ordinal(listing, n)
            url == DbUrlEscape(Utf8(FilePath(i)))
        IN  i \in Files =>
              /\ ToSet(url) \subseteq Unescaped \cup {PERCENT}
              /\ Decoded(url) =
                   Utf8(DirectoryPath \o <<PATH_SEPARATOR>> \o NameBefore(listing, n))

================================================================================
