------------------------------- MODULE Names -------------------------------
(***************************************************************************)
(* The names of files: what a caller writes, the interchange level 1       *)
(* identifiers the builder masters (create.go), and the name the reader    *)
(* shows for an identifier (dirrecord.go). Whether two siblings collide,   *)
(* and in which order they are found, is decided by these conversions, so  *)
(* a name is a sequence of characters here.                                *)
(***************************************************************************)
EXTENDS Integers, Sequences, FiniteSets, TLC

CONSTANTS
  NameWidth,   \* characters of an identifier's base: 8 in the code
  ExtWidth     \* characters of its extension: 3 in the code

ASSUME NamesAssumption ==
  /\ NameWidth \in Nat \ {0, 1}
  /\ ExtWidth \in Nat

\* The characters names are made of, and their bytes.
Alphabet == << "-", ".", "/", "0", "1", "2", "3", "4", "5", "6", "7", "8", "9", ";",
               "A", "B", "C", "O", "_", "a", "b", "c", "o", "~" >>
Codes == << 45, 46, 47, 48, 49, 50, 51, 52, 53, 54, 55, 56, 57, 59,
            65, 66, 67, 79, 95, 97, 98, 99, 111, 126 >>

Byte == [ch \in {Alphabet[i] : i \in 1..Len(Alphabet)} |->
           Codes[CHOOSE i \in 1..Len(Alphabet) : Alphabet[i] = ch]]

\* Go's string(bytes); a byte outside the alphabet is a character of its own.
Text(bytes) ==
  [k \in 1..Len(bytes) |->
     IF \E i \in 1..Len(Codes) : Codes[i] = bytes[k]
     THEN Alphabet[CHOOSE i \in 1..Len(Codes) : Codes[i] = bytes[k]]
     ELSE ToString(bytes[k])]

Lower == [a |-> "A", b |-> "B", c |-> "C", o |-> "O"]

DChars == {"0", "1", "2", "3", "4", "5", "6", "7", "8", "9", "A", "B", "C", "O", "_"}

\* Go's < on strings.
Below(s, t) ==
  \E i \in 1..Len(t) :
    /\ \A j \in 1..(i - 1) : j <= Len(s) /\ s[j] = t[j]
    /\ i > Len(s) \/ Byte[s[i]] < Byte[t[i]]

ToUpper(ch) == IF ch \in DOMAIN Lower THEN Lower[ch] ELSE ch

Folded(s) == [i \in 1..Len(s) |-> ToUpper(s[i])]

EqualFold(s, t) == Folded(s) = Folded(t)

\* The components of a path between its slashes; ".." is a name like another.
SplitPath(path) ==
  LET kept[i \in 0..Len(path)] ==
        IF i = 0 THEN << >>
        ELSE IF path[i] \in {<< >>, <<".">>} THEN kept[i - 1]
        ELSE Append(kept[i - 1], path[i])
  IN kept[Len(path)]

---------------------------------------------------------------------------
(* create.go *)

Sanitize(s) ==
  [i \in 1..Len(s) |-> IF ToUpper(s[i]) \in DChars THEN ToUpper(s[i]) ELSE "_"]

ClampField(s, n) == SubSeq(s, 1, IF n < 0 THEN 0 ELSE IF Len(s) > n THEN n ELSE Len(s))

Places(s, ch) == {i \in 1..Len(s) : s[i] = ch}

\* The extension follows the last dot, unless the name begins with it.
Stem(s) ==
  IF \E i \in Places(s, ".") : i > 1
  THEN SubSeq(s, 1, (CHOOSE i \in Places(s, ".") : \A j \in Places(s, ".") : j <= i) - 1)
  ELSE s
Extension(s) == SubSeq(s, Len(Stem(s)) + 2, Len(s))

Version == <<";", "1">>

IsoIdentifier(name, isDir) ==
  IF isDir THEN ClampField(Sanitize(name), NameWidth)
  ELSE LET base == ClampField(Sanitize(Stem(name)), NameWidth)
           ext == ClampField(Sanitize(Extension(name)), ExtWidth)
       IN (IF base = << >> THEN <<"_">> ELSE base)
          \o (IF ext = << >> THEN << >> ELSE <<".">> \o ext)
          \o Version

Digits == << "0", "1", "2", "3", "4", "5", "6", "7", "8", "9" >>

\* A number as Sprintf writes it.
Decimal(k) ==
  LET digits[n \in 0..k] ==
        IF n < 10 THEN <<Digits[n + 1]>> ELSE Append(digits[n \div 10], Digits[(n % 10) + 1])
  IN digits[k]

\* Mutation of Disambiguate: the suffix is added to the whole base.
DisambiguateUnclamped(base, isDir, k) ==
  LET cuts == Places(base, ".") \cup Places(base, ";")
      cut == IF isDir \/ cuts = {} THEN Len(base) + 1
             ELSE CHOOSE i \in cuts : \A j \in cuts : i <= j
  IN SubSeq(base, 1, cut - 1) \o <<"~">> \o Decimal(k) \o SubSeq(base, cut, Len(base))

\* The k-th variant of an identifier.
Disambiguate(base, isDir, k) ==
  LET suffix == <<"~">> \o Decimal(k)
      cuts == Places(base, ".") \cup Places(base, ";")
      cut == IF isDir \/ cuts = {} THEN Len(base) + 1
             ELSE CHOOSE i \in cuts : \A j \in cuts : i <= j
  IN ClampField(SubSeq(base, 1, cut - 1), NameWidth - Len(suffix))
     \o suffix \o SubSeq(base, cut, Len(base))

---------------------------------------------------------------------------
(* dirrecord.go *)

\* The identifiers of one byte, "." and ".." of every directory.
Self == <<"0x00">>
Parent == <<"0x01">>

\* What precedes the version, without the dot of an empty extension.
Unversioned(s) ==
  LET cuts == Places(s, ";")
      t == IF cuts = {} THEN s
           ELSE SubSeq(s, 1, (CHOOSE i \in cuts : \A j \in cuts : i <= j) - 1)
  IN IF t # << >> /\ t[Len(t)] = "." THEN SubSeq(t, 1, Len(t) - 1) ELSE t

CleanName(id) ==
  CASE id = Self -> <<".">> [] id = Parent -> <<".", ".">> [] OTHER -> Unversioned(id)

\* Two bytes to a character, the higher first, and a byte left over is dropped;
\* a character outside the alphabet is written as its two bytes.
Ucs2(id) ==
  [k \in 1..(Len(id) \div 2) |->
     IF id[2 * k - 1] = "0x00" THEN id[2 * k] ELSE id[2 * k - 1] \o id[2 * k]]

JolietName(id) ==
  CASE id = Self -> <<".">> [] id = Parent -> <<".", ".">> [] OTHER -> Unversioned(Ucs2(id))
=============================================================================
