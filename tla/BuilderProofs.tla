---------------------------- MODULE BuilderProofs ----------------------------
(***************************************************************************)
(* The builder gives siblings distinct identifiers, writes the sectors of  *)
(* the volume one after another, and the image it leaves reads back as the *)
(* tree, for every tree and every name.                                    *)
(*                                                                         *)
(* Sprintf writes different numbers differently, so the variants of an     *)
(* identifier are pairwise different, whatever they are clamped to; among  *)
(* one more of them than there are siblings one is free, which is the one  *)
(* assignIdentifiers takes. No directory has more children than there were *)
(* calls of AddDir and AddFile, so the number of a variant fits.           *)
(*                                                                         *)
(* Distinct identifiers order the nodes, so layout visits each node once,  *)
(* and gives it the sectors behind those of the node before it; WriteTo    *)
(* writes the nodes in the same order, and of each as much as layout left  *)
(* room for, unless a size wraps around.                                   *)
(*                                                                         *)
(* Later writes are behind the earlier ones, so every write of a WriteTo   *)
(* that returned nil is in the image, whatever was there before; the       *)
(* reader finds in each directory the records written for it, and level by *)
(* level the nodes of the tree.                                            *)
(***************************************************************************)
EXTENDS Builder, DataLemmas

---------------------------------------------------------------------------
(* Sequences, and the decimals of numbers *)

\* Names, as a caller writes them.
Strings == Seq(STRING)

DigitSet == {Digits[i] : i \in 1..10}

\* f holds the decimals of 0..m.
Table(m, f) ==
  /\ f \in [0..m -> Seq(DigitSet)]
  /\ \A n \in 0..m : 
       f[n] = IF n < 10 THEN <<Digits[n + 1]>> ELSE Append(f[n \div 10], Digits[(n % 10) + 1])

\* A number is told by its quotient and its remainder by ten.
LEMMA ByTen ==
  ASSUME NEW n \in Nat, n >= 10
  PROVE  /\ n \div 10 \in 1..(n - 1)
         /\ n % 10 \in 0..9
         /\ n = (n \div 10) * 10 + (n % 10)
OBVIOUS

\* The recursion of Decimal defines a function.
LEMMA TableExists ==
  ASSUME NEW k \in Nat
  PROVE  \E f : Table(k, f)
<1> DEFINE Tabled == {m \in 0..k : \E f : Table(m, f)}
<1>d. \A n \in 0..9 : Digits[n + 1] \in DigitSet
  BY DEF DigitSet
<1>1. 0 \in Tabled
  <2> DEFINE f == [n \in 0..0 |-> <<Digits[n + 1]>>]
  <2>1. f \in [0..0 -> Seq(DigitSet)]
    BY <1>d
  <2>2. Table(0, f)
    BY <2>1 DEF Table
  <2> HIDE DEF f
  <2> QED BY <2>2
<1>2. ASSUME NEW m \in 1..k, m - 1 \in Tabled
      PROVE  m \in Tabled
  <2>1. PICK f : Table(m - 1, f)
    BY <1>2
  <2> DEFINE last == IF m < 10 THEN <<Digits[m + 1]>> ELSE Append(f[m \div 10], Digits[(m % 10) + 1])
             h == [n \in 0..m |-> IF n = m THEN last ELSE f[n]]
  <2>2. f \in [0..(m - 1) -> Seq(DigitSet)]
    BY <2>1 DEF Table
  <2>3. last \in Seq(DigitSet)
    <3>1. CASE m < 10
      BY <3>1, <1>d
    <3>2. CASE m >= 10
      <4>1. m \div 10 \in 0..(m - 1) /\ m % 10 \in 0..9
        BY <3>2, ByTen
      <4>2. f[m \div 10] \in Seq(DigitSet) /\ Digits[(m % 10) + 1] \in DigitSet
        BY <4>1, <2>2, <1>d
      <4> HIDE DEF DigitSet
      <4> QED BY <4>2, <3>2
    <3> QED BY <3>1, <3>2
  <2>4. h \in [0..m -> Seq(DigitSet)]
    <3> HIDE DEF last
    <3> QED BY <2>2, <2>3
  <2>5. \A n \in 0..m :
          h[n] = IF n < 10 THEN <<Digits[n + 1]>> ELSE Append(h[n \div 10], Digits[(n % 10) + 1])
    <3> TAKE n \in 0..m
    <3>1. n >= 10 => n \div 10 \in 0..(m - 1) /\ h[n \div 10] = f[n \div 10]
      <4> HIDE DEF last
      <4> QED BY ByTen
    <3>2. CASE n = m
      BY <3>1, <3>2
    <3>3. CASE n # m
      <4>1. n \in 0..(m - 1) /\ h[n] = f[n]
        BY <3>3
      <4>2. f[n] = IF n < 10 THEN <<Digits[n + 1]>> ELSE Append(f[n \div 10], Digits[(n % 10) + 1])
        BY <4>1, <2>1 DEF Table
      <4> HIDE DEF h
      <4> QED BY <3>1, <4>1, <4>2
    <3> QED BY <3>2, <3>3
  <2>6. Table(m, h)
    BY <2>4, <2>5 DEF Table
  <2> HIDE DEF h
  <2> QED BY <2>6
<1> HIDE DEF Tabled
<1>3. \A m \in 0..k : m \in Tabled
  BY <1>1, <1>2, InductionTo
<1>4. k \in Tabled
  BY <1>3
<1> QED BY <1>4 DEF Tabled

\* Two tables agree where both are defined.
LEMMA TablesAgree ==
  ASSUME NEW k \in Nat, NEW l \in Nat, NEW f, NEW h, Table(k, f), Table(l, h), l <= k
  PROVE  \A n \in 0..l : f[n] = h[n]
<1> DEFINE Bad == {n \in 0..l : f[n] # h[n]}
<1>1. SUFFICES ASSUME Bad # {} PROVE FALSE
  OBVIOUS
<1>2. Bad \in SUBSET Nat
  BY SMT
<1>3. PICK n \in Bad : \A m \in Bad : n <= m
  <2> HIDE DEF Bad
  <2> QED BY <1>1, <1>2, LeastNatural
<1>4. n \in 0..l /\ n \in 0..k /\ n \in Nat
  BY SMT
<1>5. /\ f[n] = IF n < 10 THEN <<Digits[n + 1]>> ELSE Append(f[n \div 10], Digits[(n % 10) + 1])
      /\ h[n] = IF n < 10 THEN <<Digits[n + 1]>> ELSE Append(h[n \div 10], Digits[(n % 10) + 1])
  BY <1>4 DEF Table
<1>6. n >= 10 => f[n \div 10] = h[n \div 10]
  <2> SUFFICES ASSUME n >= 10 PROVE f[n \div 10] = h[n \div 10]
    OBVIOUS
  <2>1. n \div 10 \in 0..l /\ n \div 10 < n
    BY <1>4, ByTen
  <2> QED BY <1>3, <1>4, <2>1
<1>7. f[n] = h[n]
  BY <1>4, <1>5, <1>6
<1> QED BY <1>7

\* Decimal writes a digit, or one more behind those of the quotient.
LEMMA DecimalSteps ==
  ASSUME NEW k \in Nat
  PROVE  /\ Decimal(k) \in Seq(DigitSet)
         /\ k < 10 => Decimal(k) = <<Digits[k + 1]>>
         /\ k >= 10 => Decimal(k) = Append(Decimal(k \div 10), Digits[(k % 10) + 1])
<1> DEFINE Rec(m, f) == f = [n \in 0..m |-> 
              IF n < 10 THEN <<Digits[n + 1]>> ELSE Append(f[n \div 10], Digits[(n % 10) + 1])]
           digits(m) == CHOOSE f : Rec(m, f)
<1>1. \A m \in Nat : Table(m, digits(m))
  <2> TAKE m \in Nat
  <2>1. PICK f : Table(m, f)
    BY TableExists
  <2>2. Rec(m, f)
    BY <2>1 DEF Table
  <2>3. Rec(m, digits(m))
    <3> HIDE DEF Rec
    <3> QED BY <2>2
  <2> HIDE DEF digits
  <2>5. \A n \in 0..m : digits(m)[n] = IF n < 10 THEN <<Digits[n + 1]>>
            ELSE Append(digits(m)[n \div 10], Digits[(n % 10) + 1])
    BY <2>3
  <2>4. digits(m) = [n \in 0..m |-> digits(m)[n]]
    BY <2>3
  <2>6. \A n \in 0..m : digits(m)[n] = f[n]
    <3> DEFINE Bad == {n \in 0..m : digits(m)[n] # f[n]}
    <3>1. SUFFICES ASSUME Bad # {} PROVE FALSE
      OBVIOUS
    <3>2. Bad \in SUBSET Nat
      BY SMT
    <3>3. PICK n \in Bad : \A l \in Bad : n <= l
      <4> HIDE DEF Bad
      <4> QED BY <3>1, <3>2, LeastNatural
    <3>4. n \in 0..m /\ n \in Nat
      BY SMT
    <3>5. f[n] = IF n < 10 THEN <<Digits[n + 1]>> ELSE Append(f[n \div 10], Digits[(n % 10) + 1])
      BY <2>1, <3>4 DEF Table
    <3>6. n >= 10 => f[n \div 10] = digits(m)[n \div 10]
      <4> SUFFICES ASSUME n >= 10 PROVE f[n \div 10] = digits(m)[n \div 10]
        OBVIOUS
      <4>1. n \div 10 \in 0..m /\ n \div 10 < n
        BY <3>4, ByTen
      <4> QED BY <3>3, <3>4, <4>1
    <3>7. digits(m)[n] = f[n]
      BY <3>4, <3>5, <3>6, <2>5
    <3> QED BY <3>7
  <2>7. digits(m) = f
    <3>1. f = [n \in 0..m |-> f[n]]
      BY <2>1 DEF Table
    <3> QED BY <3>1, <2>4, <2>6
  <2> QED BY <2>1, <2>7
<1>2. \A m \in Nat : Decimal(m) = digits(m)[m]
  BY DEF Decimal
<1> HIDE DEF digits
<1>3. digits(k) \in [0..k -> Seq(DigitSet)]
  BY <1>1 DEF Table
<1>4. digits(k)[k] = IF k < 10 THEN <<Digits[k + 1]>>
                     ELSE Append(digits(k)[k \div 10], Digits[(k % 10) + 1])
  <2>1. k \in 0..k
    OBVIOUS
  <2> QED BY <1>1, <2>1 DEF Table
<1>5. ASSUME k >= 10
      PROVE  digits(k)[k \div 10] = digits(k \div 10)[k \div 10]
  <2>1. k \div 10 \in Nat /\ k \div 10 <= k /\ k \div 10 \in 0..(k \div 10)
    BY <1>5, ByTen
  <2> QED BY <2>1, <1>1, TablesAgree
<1>6. k >= 10 => k \div 10 \in Nat
  BY ByTen
<1>7. k \in 0..k
  OBVIOUS
<1> HIDE DEF DigitSet
<1>8. digits(k)[k] \in Seq(DigitSet)
  BY <1>3, <1>7
<1>9. ASSUME k >= 10
      PROVE  Decimal(k) = Append(Decimal(k \div 10), Digits[(k % 10) + 1])
  <2>1. Decimal(k) = digits(k)[k] /\ Decimal(k \div 10) = digits(k \div 10)[k \div 10]
    BY <1>2, <1>6, <1>9
  <2>2. digits(k)[k] = Append(digits(k)[k \div 10], Digits[(k % 10) + 1])
    BY <1>4, <1>9
  <2> QED BY <2>1, <2>2, <1>5, <1>9
<1> QED BY <1>2, <1>4, <1>8, <1>9

\* No digit is written twice in Digits.
LEMMA DigitsDiffer == \A i, j \in 1..10 : Digits[i] = Digits[j] => i = j
BY DEF Digits

\* A number has digits.
LEMMA DecimalLength ==
  ASSUME NEW k \in Nat
  PROVE  /\ Len(Decimal(k)) \in Nat /\ Len(Decimal(k)) >= 1
         /\ k >= 10 => Len(Decimal(k)) >= 2
         /\ k < 10 => Len(Decimal(k)) = 1
<1>0. \A n \in Nat : Decimal(n) \in Seq(DigitSet)
  BY DecimalSteps
<1>d. \A n \in 0..9 : Digits[n + 1] \in DigitSet
  BY DEF DigitSet
<1> HIDE DEF DigitSet
<1>1. \A n \in Nat : n < 10 => Len(Decimal(n)) = 1
  BY DecimalSteps
<1>2. \A n \in Nat : n >= 10 => Len(Decimal(n)) = Len(Decimal(n \div 10)) + 1
  <2> TAKE n \in Nat
  <2> SUFFICES ASSUME n >= 10 PROVE Len(Decimal(n)) = Len(Decimal(n \div 10)) + 1
    OBVIOUS
  <2>1. n \div 10 \in Nat /\ n % 10 \in 0..9
    BY ByTen
  <2>2. Decimal(n \div 10) \in Seq(DigitSet) /\ Digits[(n % 10) + 1] \in DigitSet
    BY <2>1, <1>0, <1>d
  <2>3. Decimal(n) = Append(Decimal(n \div 10), Digits[(n % 10) + 1])
    BY DecimalSteps
  <2> QED BY <2>2, <2>3
<1>3. \A n \in Nat : Len(Decimal(n)) \in Nat
  BY <1>0
<1>4. \A n \in Nat : n >= 10 => n \div 10 \in Nat
  BY ByTen
<1>5. \A n \in Nat : Len(Decimal(n)) >= 1
  <2> TAKE n \in Nat
  <2>1. CASE n < 10
    BY <2>1, <1>1
  <2>2. CASE n >= 10
    BY <2>2, <1>2, <1>3, <1>4
  <2> QED BY <2>1, <2>2
<1>6. ASSUME k >= 10
      PROVE  Len(Decimal(k)) >= 2
  <2>1. k \div 10 \in Nat
    BY <1>4, <1>6
  <2>2. Len(Decimal(k \div 10)) >= 1 /\ Len(Decimal(k \div 10)) \in Nat
    BY <1>3, <1>5, <2>1
  <2>3. Len(Decimal(k)) = Len(Decimal(k \div 10)) + 1
    BY <1>2, <1>6
  <2> QED BY <2>2, <2>3
<1> QED BY <1>1, <1>3, <1>5, <1>6

\* Sprintf writes different numbers differently: what the variants rest on.
LEMMA DecimalsDiffer ==
  ASSUME NEW k \in Nat, NEW l \in Nat, Decimal(k) = Decimal(l)
  PROVE  k = l
<1> DEFINE Bad == {n \in Nat : \E m \in Nat : m # n /\ Decimal(n) = Decimal(m)}
<1>1. SUFFICES ASSUME Bad # {} PROVE FALSE
  <2>1. Bad = {}
    BY <1>1
  <2> QED BY <2>1
<1>2. PICK n \in Bad : \A m \in Bad : n <= m
  <2>1. Bad \in SUBSET Nat
    BY SMT
  <2> HIDE DEF Bad
  <2> QED BY <1>1, <2>1, LeastNatural
<1>3. PICK m \in Nat : m # n /\ Decimal(n) = Decimal(m)
  OBVIOUS
<1>4. n \in Nat
  BY SMT
<1>7. Len(Decimal(n)) = Len(Decimal(m))
  BY <1>3
<1>8. /\ n >= 10 => Len(Decimal(n)) >= 2 
      /\ n < 10 => Len(Decimal(n)) = 1
      /\ m >= 10 => Len(Decimal(m)) >= 2
      /\ m < 10 => Len(Decimal(m)) = 1
  BY <1>4, DecimalLength
<1>5. CASE n < 10
  <2>1. m < 10
    <3> HIDE DEF Bad
    <3>1. Len(Decimal(m)) = 1
      BY <1>5, <1>7, <1>8, Zenon
    <3> QED BY <3>1, <1>8
  <2>2. <<Digits[n + 1]>> = <<Digits[m + 1]>>
    BY <1>3, <1>4, <1>5, <2>1, DecimalSteps
  <2>3. Digits[n + 1] = Digits[m + 1]
    BY <2>2
  <2> QED BY <1>3, <1>4, <1>5, <2>1, <2>3, DigitsDiffer
<1>6. CASE n >= 10
  <2> DEFINE a == Decimal(n \div 10)
             b == Decimal(m \div 10)
             c == Digits[(n % 10) + 1]
             d == Digits[(m % 10) + 1]
  <2>1. m >= 10
    BY <1>6, <1>7, <1>8
  <2>2. /\ n \div 10 \in Nat /\ n \div 10 < n /\ n % 10 \in 0..9 /\ n = (n \div 10) * 10 + (n % 10)
        /\ m \div 10 \in Nat /\ m % 10 \in 0..9 /\ m = (m \div 10) * 10 + (m % 10)
    BY <1>4, <1>6, <2>1, ByTen
  <2>3. Append(a, c) = Append(b, d)
    BY <1>3, <1>4, <1>6, <2>1, DecimalSteps
  <2>4. a \in Seq(DigitSet) /\ b \in Seq(DigitSet) /\ c \in DigitSet /\ d \in DigitSet
    <3>1. a \in Seq(DigitSet) /\ b \in Seq(DigitSet)
      BY <2>2, DecimalSteps
    <3>2. (n % 10) + 1 \in 1..10 /\ (m % 10) + 1 \in 1..10
      BY <2>2
    <3>3. c \in DigitSet /\ d \in DigitSet
      BY <3>2, Zenon DEF DigitSet
    <3> QED BY <3>1, <3>3, Zenon
  <2>5. a = b /\ c = d
    <3> HIDE DEF a, b, c, d
    <3> QED BY <2>3, <2>4, AppendTells
  <2>6. n % 10 = m % 10
    BY <2>2, <2>5, DigitsDiffer
  <2>7. n \div 10 # m \div 10
    BY <2>2, <2>6, <1>3
  <2>8. n \div 10 \in Bad
    BY <2>2, <2>5, <2>7
  <2> HIDE DEF Bad, a, b, c, d
  <2> QED BY <1>2, <1>4, <2>2, <2>8
<1> QED BY <1>4, <1>5, <1>6

---------------------------------------------------------------------------
(* The characters of identifiers *)

\* The characters of a base that has been made a variant.
VChars == DChars \cup {"~"}

\* What tells the characters of identifiers apart.
LEMMA Apart ==
  /\ "." \notin VChars /\ ";" \notin VChars /\ "~" \notin DChars
  /\ "0x00" \notin VChars /\ "0x01" \notin VChars
  /\ "_" \in DChars /\ DigitSet \subseteq DChars
<1>1. \A i \in 1..10 : Digits[i] \in {"0", "1", "2", "3", "4", "5", "6", "7", "8", "9"}
  BY DEF Digits
<1>2. {"0", "1", "2", "3", "4", "5", "6", "7", "8", "9"} \subseteq DChars
  BY DEF DChars
<1>3. DigitSet \subseteq DChars
  BY <1>1, <1>2 DEF DigitSet
<1>4. "." \notin VChars /\ ";" \notin VChars /\ "~" \notin DChars
  BY DEF VChars, DChars
<1>5. "0x00" \notin VChars /\ "0x01" \notin VChars /\ "_" \in DChars
  BY DEF VChars, DChars
<1> QED BY <1>3, <1>4, <1>5

\* sanitize leaves characters of level 1, one for each of the name.
LEMMA SanitizeTyped ==
  ASSUME NEW s \in Strings
  PROVE  Sanitize(s) \in Seq(DChars) /\ Len(Sanitize(s)) = Len(s)
<1>1. \A c \in STRING : (IF ToUpper(c) \in DChars THEN ToUpper(c) ELSE "_") \in DChars
  BY DEF DChars
<1>2. Len(s) \in Nat /\ \A i \in 1..Len(s) : s[i] \in STRING
  BY DEF Strings
<1>3. Sanitize(s) \in [1..Len(s) -> DChars]
  <2>1. \A i \in 1..Len(s) : (IF ToUpper(s[i]) \in DChars THEN ToUpper(s[i]) ELSE "_") \in DChars
    BY <1>1, <1>2
  <2> QED BY <2>1 DEF Sanitize
<1> QED BY <1>2, <1>3

\* clampField cuts at the end.
LEMMA ClampTyped ==
  ASSUME NEW S, NEW s \in Seq(S), NEW n \in Int
  PROVE  /\ ClampField(s, n) \in Seq(S)
         /\ Len(ClampField(s, n)) = IF n < 0 THEN 0 ELSE IF Len(s) > n THEN n ELSE Len(s)
         /\ \A i \in 1..Len(ClampField(s, n)) : ClampField(s, n)[i] = s[i]
BY DEF ClampField

\* The two parts splitExt makes of a name.
LEMMA StemTyped ==
  ASSUME NEW s \in Strings
  PROVE  Stem(s) \in Strings /\ Extension(s) \in Strings
<1>1. Stem(s) \in Strings
  <2>1. CASE \E i \in Places(s, ".") : i > 1
    <3> DEFINE P == Places(s, ".")
               cut == CHOOSE i \in P : \A j \in P : j <= i
    <3>1. P \in SUBSET Nat /\ P \in SUBSET (1..Len(s)) /\ Len(s) \in Nat
      BY DEF Places, Strings
    <3>2. P # {}
      BY <2>1
    <3>3. \E i \in P : \A j \in P : j <= i
      <4> HIDE DEF P
      <4>1. \A x \in P : x <= Len(s)
        BY <3>1
      <4> QED BY <3>1, <3>2, <4>1, GreatestNatural
    <3>4. cut \in P
      <4> HIDE DEF P
      <4> QED BY <3>3
    <3>5. Stem(s) = SubSeq(s, 1, cut - 1)
      BY <2>1 DEF Stem
    <3> HIDE DEF P, cut
    <3>6. cut - 1 \in 0..Len(s)
      BY <3>1, <3>4
    <3> QED BY <3>5, <3>6 DEF Strings
  <2>2. CASE ~\E i \in Places(s, ".") : i > 1
    BY <2>2 DEF Stem
  <2> QED BY <2>1, <2>2
<1>2. Len(Stem(s)) \in Nat
  BY <1>1 DEF Strings
<1>3. SubSeq(s, Len(Stem(s)) + 2, Len(s)) \in Strings
  BY <1>2 DEF Strings
<1> QED BY <1>1, <1>3 DEF Extension

\* An identifier of a file: its base, its extension if it has one, its version.
Dotted(ext) == IF ext = << >> THEN << >> ELSE <<".">> \o ext

FileId(body, ext) == body \o Dotted(ext) \o Version

\* The characters of identifiers.
Chars == VChars \cup {".", ";"}

\* A base and an extension, as wide as level 1 lets them be.
IsBody(v) == v \in Seq(VChars) /\ Len(v) \in 1..NameWidth

IsExt(e) == e \in Seq(DChars) /\ Len(e) \in 0..ExtWidth

\* isoIdentifier of a directory: up to NameWidth characters of level 1.
LEMMA DirIdentifier ==
  ASSUME NEW name \in Strings, name # << >>
  PROVE  /\ IsoIdentifier(name, TRUE) \in Seq(DChars)
         /\ Len(IsoIdentifier(name, TRUE)) \in 1..NameWidth
<1>1. Len(name) \in Nat /\ Len(name) # 0
  BY EmptySequence DEF Strings
<1>2. Sanitize(name) \in Seq(DChars) /\ Len(Sanitize(name)) = Len(name)
  BY SanitizeTyped
<1>3. NameWidth \in Nat /\ NameWidth > 1
  BY NamesAssumption
<1>4. IsoIdentifier(name, TRUE) = ClampField(Sanitize(name), NameWidth)
  BY DEF IsoIdentifier
<1> DEFINE w == Sanitize(name)
           c == ClampField(w, NameWidth)
<1>5. w \in Seq(DChars) /\ Len(w) \in Nat /\ Len(w) # 0
  BY <1>1, <1>2
<1>6. /\ c \in Seq(DChars)
      /\ Len(c) = IF NameWidth < 0 THEN 0 ELSE IF Len(w) > NameWidth THEN NameWidth ELSE Len(w)
  <2> HIDE DEF w
  <2> QED BY <1>3, <1>5, ClampTyped
<1>7. Len(c) \in 1..NameWidth
  <2> HIDE DEF w, c
  <2> QED BY <1>3, <1>5, <1>6
<1> QED BY <1>4, <1>6, <1>7

\* isoIdentifier of a file: a base, perhaps an extension, a version.
LEMMA FileIdentifier ==
  ASSUME NEW name \in Strings
  PROVE  \E body \in Seq(DChars), ext \in Seq(DChars) :
           /\ Len(body) \in 1..NameWidth
           /\ IsExt(ext)
           /\ IsoIdentifier(name, FALSE) = FileId(body, ext)
<1> DEFINE base == ClampField(Sanitize(Stem(name)), NameWidth)
           body == IF base = << >> THEN <<"_">> ELSE base
           ext == ClampField(Sanitize(Extension(name)), ExtWidth)
<1>1. NameWidth \in Nat /\ NameWidth > 1 /\ ExtWidth \in Nat
  BY NamesAssumption
<1>2. base \in Seq(DChars) /\ Len(base) \in 0..NameWidth
  <2>1. Sanitize(Stem(name)) \in Seq(DChars)
    BY StemTyped, SanitizeTyped
  <2> QED BY <1>1, <2>1, ClampTyped
<1>3. ext \in Seq(DChars) /\ Len(ext) \in 0..ExtWidth
  <2>1. PICK w \in Seq(DChars) : w = Sanitize(Extension(name))
    BY StemTyped, SanitizeTyped
  <2>2. /\ ClampField(w, ExtWidth) \in Seq(DChars)
        /\ Len(ClampField(w, ExtWidth)) = IF ExtWidth < 0 THEN 0 ELSE IF Len(w) > ExtWidth THEN ExtWidth ELSE Len(w)
    BY <1>1, ClampTyped
  <2>3. Len(ClampField(w, ExtWidth)) \in 0..ExtWidth
    BY <1>1, <2>2
  <2>4. ext = ClampField(w, ExtWidth)
    BY <2>1
  <2> QED BY <2>2, <2>3, <2>4, Zenon
<1>4. body \in Seq(DChars) /\ Len(body) \in 1..NameWidth
  <2>0. "_" \in DChars
    BY Apart
  <2>1. <<"_">> \in Seq(DChars) /\ Len(<<"_">>) = 1
    BY <2>0, OneElement, Zenon
  <2>2. base # << >> => Len(base) # 0
    BY <1>2, EmptySequence
  <2> HIDE DEF base
  <2>3. CASE base = << >>
    <3>1. body = <<"_">>
      BY <2>3
    <3> HIDE DEF body
    <3>2. 1 \in 1..NameWidth
      BY <1>1
    <3> QED BY <2>1, <3>1, <3>2, Zenon
  <2>4. CASE base # << >>
    BY <1>1, <1>2, <2>2, <2>4
  <2> QED BY <2>3, <2>4
<1>5. IsoIdentifier(name, FALSE) = FileId(body, ext)
  BY DEF IsoIdentifier, FileId, Dotted
<1> HIDE DEF body, ext
<1> QED BY <1>3, <1>4, <1>5 DEF IsExt

\* What FileId puts behind a base.
Rest(ext) == Dotted(ext) \o Version

\* The version and the characters it is made of.
LEMMA VersionTyped ==
  /\ Version \in Seq(Chars) /\ Len(Version) = 2 /\ Version[1] = ";" /\ Version[2] = "1"
  /\ VChars \subseteq Chars /\ DChars \subseteq VChars
  /\ "." \in Chars /\ "." # ";" /\ "1" # ";" /\ "1" # "."
<1>1. "1" \in Chars /\ ";" \in Chars /\ "." \in Chars /\ "." # ";" /\ "1" # ";" /\ "1" # "."
  BY DEF Chars, VChars, DChars
<1>2. VChars \subseteq Chars /\ DChars \subseteq VChars
  BY DEF Chars, VChars
<1>3. \A c, d \in Chars : <<c, d>> \in Seq(Chars) /\ Len(<<c, d>>) = 2
  OBVIOUS
<1>4. Version \in Seq(Chars) /\ Len(Version) = 2
  BY <1>1, <1>3, Zenon DEF Version
<1>5. Version[1] = ";" /\ Version[2] = "1"
  BY DEF Version
<1> QED BY <1>1, <1>2, <1>4, <1>5

\* An extension and its dot, if there is one.
LEMMA DottedTyped ==
  ASSUME NEW ext \in Seq(DChars)
  PROVE  /\ Dotted(ext) \in Seq(Chars)
         /\ ext = << >> => Dotted(ext) = << >>
         /\ ext # << >> => Len(Dotted(ext)) = Len(ext) + 1
         /\ ext # << >> => Dotted(ext)[1] = "."
         /\ ext # << >> => \A i \in 1..Len(ext) : Dotted(ext)[i + 1] = ext[i]
<1>1. ext \in Seq(Chars)
  <2>1. DChars \subseteq Chars
    BY VersionTyped
  <2> QED BY <2>1, Widened
<1>2. PICK dot : dot = "."
  OBVIOUS
<1>5. dot \in Chars
  BY <1>2, VersionTyped
<1>3. CASE ext = << >>
  <2>1. Dotted(ext) = << >>
    BY <1>3 DEF Dotted
  <2> QED BY <1>1, <1>3, <2>1, Zenon
<1>4. CASE ext # << >>
  <2>1. Dotted(ext) = <<dot>> \o ext
    BY <1>2, <1>4 DEF Dotted
  <2>2. /\ <<dot>> \o ext \in Seq(Chars) /\ Len(<<dot>> \o ext) = Len(ext) + 1
        /\ (<<dot>> \o ext)[1] = dot
        /\ \A i \in 1..Len(ext) : (<<dot>> \o ext)[i + 1] = ext[i]
    BY <1>1, <1>5, JoinAtMark
  <2> QED BY <1>2, <1>4, <2>1, <2>2, Zenon
<1> QED BY <1>3, <1>4

\* A base ends where a dot or a semicolon stands.
LEMMA TailTyped ==
  ASSUME NEW ext \in Seq(DChars)
  PROVE  /\ Rest(ext) \in Seq(Chars)
         /\ Len(Rest(ext)) \in Nat /\ Len(Rest(ext)) >= 2
         /\ Rest(ext)[1] \in {".", ";"}
<1>1. /\ Dotted(ext) \in Seq(Chars) /\ Version \in Seq(Chars)
      /\ Len(Version) = 2 /\ Version[1] = ";" /\ Len(Dotted(ext)) \in Nat
  BY DottedTyped, VersionTyped, EmptySequence
<1>2. Dotted(ext) # << >> => Dotted(ext)[1] = "."
  BY DottedTyped
<1>3. PICK d : d = Dotted(ext)
  OBVIOUS
<1>4. PICK v : v = Version
  OBVIOUS
<1>5. d \in Seq(Chars) /\ v \in Seq(Chars) /\ Len(v) = 2 /\ Len(d) \in Nat
  BY <1>1, <1>3, <1>4
<1>6. Len(v) > 0
  BY <1>5
<1>7. /\ d \o v \in Seq(Chars) /\ Len(d \o v) = Len(d) + Len(v)
      /\ (d \o v)[1] = IF d = << >> THEN v[1] ELSE d[1]
  <2>1. d \o v \in Seq(Chars) /\ Len(d \o v) = Len(d) + Len(v)
    BY <1>5, Joined
  <2>2. (d \o v)[1] = IF d = << >> THEN v[1] ELSE d[1]
    BY <1>5, <1>6, JoinStarts
  <2> QED BY <2>1, <2>2, Zenon
<1>8. (d \o v)[1] \in {".", ";"}
  BY <1>1, <1>2, <1>3, <1>4, <1>7, Zenon
<1>9. Len(d \o v) \in Nat /\ Len(d \o v) >= 2
  BY <1>5, <1>7
<1>10. Rest(ext) = d \o v
  BY <1>3, <1>4 DEF Rest
<1> QED BY <1>7, <1>8, <1>9, <1>10, Zenon

\* An identifier of a file is its base and the rest.
LEMMA FileIdIs ==
  ASSUME NEW body \in Seq(Chars), NEW ext \in Seq(DChars)
  PROVE  FileId(body, ext) = body \o Rest(ext)
<1>1. Dotted(ext) \in Seq(Chars) /\ Version \in Seq(Chars)
  BY DottedTyped, VersionTyped
<1> QED BY <1>1, JoinAgain DEF FileId, Rest

---------------------------------------------------------------------------
(* What the reader shows for an identifier *)

\* The first place of a character that does not occur before it.
LEMMA Mark ==
  ASSUME NEW S, NEW m, NEW w \in Seq(S), NEW r \in Seq(S), Len(r) >= 1, r[1] = m,
         \A i \in 1..Len(w) : w[i] # m
  PROVE  /\ Places(w \o r, m) \in SUBSET Int
         /\ Len(w) + 1 \in Places(w \o r, m)
         /\ \A j \in Places(w \o r, m) : Len(w) + 1 <= j
<1> DEFINE s == w \o r
<1>1. /\ Len(s) = Len(w) + Len(r) /\ Len(w) \in Nat /\ Len(r) \in Nat
      /\ \A i \in 1..Len(w) : s[i] = w[i]
      /\ s[Len(w) + 1] = r[1]
  OBVIOUS
<1> HIDE DEF s
<1>2. Places(s, m) \in SUBSET Int
  BY DEF Places
<1>3. Len(w) + 1 \in Places(s, m)
  BY <1>1 DEF Places
<1>4. \A j \in Places(s, m) : Len(w) + 1 <= j
  BY <1>1 DEF Places
<1> QED BY <1>2, <1>3, <1>4 DEF s

\* What is left of an identifier without its version.
IsName(w) ==
  /\ w \in Seq(Chars) /\ w # << >>
  /\ \A i \in 1..Len(w) : w[i] # ";"
  /\ w[Len(w)] # "."

\* cleanName cuts a version that is there, and nothing else.
LEMMA UnversionedIs ==
  ASSUME NEW w, IsName(w)
  PROVE  Unversioned(w \o Version) = w /\ Unversioned(w) = w
<1>0. w \in Seq(Chars)
  BY DEF IsName
<1>1. PICK m : m = ";"
  OBVIOUS
<1>2. PICK v : v = Version
  OBVIOUS
<1>3. v \in Seq(Chars) /\ Len(v) >= 1 /\ v[1] = m
  <2>1. v \in Seq(Chars) /\ v[1] = m /\ Len(v) = 2
    BY <1>1, <1>2, VersionTyped, Zenon
  <2> QED BY <2>1
<1>4. \A i \in 1..Len(w) : w[i] # m
  BY <1>1, Zenon DEF IsName
<1> DEFINE P == Places(w \o v, m)
<1>5. P \in SUBSET Int /\ Len(w) + 1 \in P /\ \A j \in P : Len(w) + 1 <= j
  BY <1>0, <1>3, <1>4, Mark
<1>6. (CHOOSE i \in P : \A j \in P : i <= j) = Len(w) + 1
  <2> HIDE DEF P
  <2> QED BY <1>5, ChosenLeast
<1>7. P # {}
  BY <1>5
<1>8. PICK u : u = w \o v
  OBVIOUS
<1>15. PICK c : c = CHOOSE i \in Places(u, ";") : \A j \in Places(u, ";") : i <= j
  OBVIOUS
<1>16. Places(u, ";") # {} /\ c = Len(w) + 1
  BY <1>1, <1>6, <1>7, <1>8, <1>15, Zenon
<1>17. PICK t : t = SubSeq(u, 1, c - 1)
  OBVIOUS
<1>9. t = w
  <2>1. Len(w) + 1 - 1 = Len(w)
    BY <1>0
  <2>2. SubSeq(w \o v, 1, Len(w)) = w
    BY <1>0, <1>3, TakenApart
  <2>3. c - 1 = Len(w)
    <3>1. PICK n \in Nat : n = Len(w)
      BY <1>0
    <3>2. c = n + 1
      BY <1>16, <3>1, Zenon
    <3>3. c - 1 = n
      BY <3>2
    <3> QED BY <3>1, <3>3, Zenon
  <2> QED BY <1>8, <1>17, <2>2, <2>3, Zenon
<1>10. Unversioned(w \o v) = IF t # << >> /\ t[Len(t)] = "." THEN SubSeq(t, 1, Len(t) - 1) ELSE t
  <2>1. Unversioned(u) = IF t # << >> /\ t[Len(t)] = "." THEN SubSeq(t, 1, Len(t) - 1) ELSE t
    <3> DEFINE cuts == Places(u, ";")
               r == IF cuts = {} THEN u
                    ELSE SubSeq(u, 1, (CHOOSE i \in cuts : \A j \in cuts : i <= j) - 1)
    <3>1. Unversioned(u) = IF r # << >> /\ r[Len(r)] = "." THEN SubSeq(r, 1, Len(r) - 1) ELSE r
      BY DEF Unversioned
    <3>2. r = t
      BY <1>15, <1>16, <1>17, Zenon
    <3> HIDE DEF r
    <3> QED BY <3>1, <3>2, Zenon
  <2> QED BY <1>8, <2>1, Zenon
<1>11. Unversioned(w \o v) = w
  BY <1>9, <1>10, Zenon DEF IsName
<1>12. Places(w, m) = {}
  BY <1>4 DEF Places
<1>13. Unversioned(w) = IF w # << >> /\ w[Len(w)] = "." THEN SubSeq(w, 1, Len(w) - 1) ELSE w
  BY <1>1, <1>12, Zenon DEF Unversioned
<1>14. Unversioned(w) = w
  BY <1>13, Zenon DEF IsName
<1> QED BY <1>2, <1>11, <1>14

\* No character of a base or an extension is one that a name is cut at.
LEMMA NoCuts ==
  /\ \A c \in VChars : c # "." /\ c # ";" /\ c # "0x00" /\ c # "0x01"
  /\ DChars \subseteq VChars /\ VChars \subseteq Chars
<1>1. "." \notin VChars /\ ";" \notin VChars /\ "0x00" \notin VChars /\ "0x01" \notin VChars
  BY Apart
<1>2. DChars \subseteq VChars /\ VChars \subseteq Chars
  BY VersionTyped
<1> QED BY <1>1, <1>2, Zenon

\* A base is a name that cleanName leaves alone.
LEMMA BodyName ==
  ASSUME NEW v, IsBody(v)
  PROVE  IsName(v)
<1>1. v \in Seq(VChars) /\ Len(v) \in 1..NameWidth /\ NameWidth \in Nat
  BY NamesAssumption DEF IsBody
<1>2. v \in Seq(Chars)
  BY <1>1, NoCuts, Widened
<1>3. v # << >> /\ Len(v) \in 1..Len(v)
  BY <1>1
<1>4. \A i \in 1..Len(v) : v[i] \in VChars
  BY <1>1
<1> QED BY <1>2, <1>3, <1>4, NoCuts, Zenon DEF IsName

\* So is a base with its extension.
LEMMA FileName ==
  ASSUME NEW v, NEW e, IsBody(v), IsExt(e)
  PROVE  IsName(v \o Dotted(e))
<1>1. v \in Seq(VChars) /\ Len(v) \in 1..NameWidth /\ NameWidth \in Nat
  BY NamesAssumption DEF IsBody
<1>2. v \in Seq(Chars) /\ e \in Seq(DChars)
  BY <1>1, NoCuts, Widened DEF IsExt
<1>3. PICK r : r = Dotted(e)
  OBVIOUS
<1>4. r \in Seq(Chars) /\ (e = << >> => r = << >>)
  BY <1>2, <1>3, DottedTyped
<1>5. \A i \in 1..Len(v) : v[i] # "." /\ v[i] # ";"
  <2>1. \A i \in 1..Len(v) : v[i] \in VChars
    BY <1>1
  <2> QED BY <2>1, NoCuts, Zenon
<1>6. CASE e = << >>
  <2>1. v \o r = v
    BY <1>4, <1>6, <1>2
  <2> QED BY <2>1, <1>3, BodyName
<1>7. CASE e # << >>
  <2>1. /\ Len(r) = Len(e) + 1
        /\ r[1] = "."
        /\ \A i \in 1..Len(e) : r[i + 1] = e[i]
    BY <1>2, <1>3, <1>7, DottedTyped, Zenon
  <2>2. \A i \in 1..Len(e) : e[i] \in VChars
    <3>1. e \in Seq(VChars)
      BY <1>2, NoCuts, Widened
    <3> QED BY <3>1
  <2>3. \A i \in 1..Len(e) : e[i] # "." /\ e[i] # ";"
    BY <2>2, NoCuts, Zenon
  <2>4. Len(e) \in Nat /\ Len(e) # 0
    BY <1>2, <1>7, EmptySequence
  <2>5. PICK w : w = v \o r
    OBVIOUS
  <2>6. /\ w \in Seq(Chars) /\ Len(w) = Len(v) + Len(r)
        /\ \A i \in 1..Len(v) : w[i] = v[i]
        /\ \A i \in (Len(v) + 1)..(Len(v) + Len(r)) : w[i] = r[i - Len(v)]
    BY <1>2, <1>4, <2>5, Joined
  <2>7. Len(v) \in Nat /\ Len(r) \in Nat
    BY <1>2, <1>4, EmptySequence
  <2>8. \A i \in 1..Len(r) : r[i] # ";"
    <3> TAKE i \in 1..Len(r)
    <3>1. i # 1 => i - 1 \in 1..Len(e) /\ i - 1 + 1 = i
      BY <2>1, <2>4
    <3>2. i # 1 => r[i] = e[i - 1]
      BY <2>1, <3>1
    <3>3. "." # ";"
      OBVIOUS
    <3> QED BY <2>1, <2>3, <3>1, <3>2, <3>3, Zenon
  <2>9. ASSUME NEW i \in 1..Len(w)
        PROVE  w[i] # ";"
    <3>1. CASE i \in 1..Len(v)
      BY <3>1, <1>5, <2>6, Zenon
    <3>2. CASE i \notin 1..Len(v)
      <4>1. i \in (Len(v) + 1)..(Len(v) + Len(r)) /\ i - Len(v) \in 1..Len(r)
        BY <3>2, <2>6, <2>7
      <4> QED BY <4>1, <2>6, <2>8, Zenon
    <3> QED BY <3>1, <3>2
  <2>10. w[Len(w)] # "."
    <3>1. /\ Len(w) \in (Len(v) + 1)..(Len(v) + Len(r)) /\ Len(w) - Len(v) = Len(e) + 1
          /\ Len(e) \in 1..Len(e)
      BY <2>1, <2>4, <2>6, <2>7
    <3>2. w[Len(w)] = r[Len(e) + 1]
      BY <3>1, <2>6
    <3> QED BY <3>1, <3>2, <2>1, <2>3, Zenon
  <2>11. w # << >>
    BY <2>1, <2>4, <2>6, <2>7
  <2> QED BY <1>3, <2>5, <2>6, <2>9, <2>10, <2>11 DEF IsName
<1> QED BY <1>6, <1>7

\* A base without an extension is its own stem.
LEMMA StemOfBody ==
  ASSUME NEW v, IsBody(v)
  PROVE  Stem(v) = v /\ Extension(v) = << >>
<1>1. v \in Seq(VChars) /\ Len(v) \in Nat
  BY EmptySequence DEF IsBody
<1>2. \A i \in 1..Len(v) : v[i] # "."
  <2>1. \A i \in 1..Len(v) : v[i] \in VChars
    BY <1>1
  <2> QED BY <2>1, NoCuts, Zenon
<1>3. Places(v, ".") = {}
  BY <1>2 DEF Places
<1>4. Stem(v) = v
  BY <1>3 DEF Stem
<1>5. SubSeq(v, Len(v) + 2, Len(v)) = << >>
  BY <1>1
<1> QED BY <1>4, <1>5 DEF Extension

\* The parts of a shown name are the base and the extension.
LEMMA StemOfFile ==
  ASSUME NEW v, NEW e, IsBody(v), IsExt(e)
  PROVE  Stem(v \o Dotted(e)) = v /\ Extension(v \o Dotted(e)) = e
<1>1. v \in Seq(VChars) /\ Len(v) \in 1..NameWidth /\ NameWidth \in Nat
  BY NamesAssumption DEF IsBody
<1>2. v \in Seq(Chars) /\ e \in Seq(DChars) /\ Len(e) \in Nat /\ Len(v) \in Nat /\ Len(v) >= 1
  <2>1. e \in Seq(DChars) /\ Len(e) \in Nat
    BY EmptySequence DEF IsExt
  <2>2. v \in Seq(Chars)
    BY <1>1, NoCuts, Widened
  <2> QED BY <1>1, <2>1, <2>2
<1>3. PICK r : r = Dotted(e)
  OBVIOUS
<1>4. r \in Seq(Chars) /\ (e = << >> => r = << >>)
  BY <1>2, <1>3, DottedTyped
<1>6. CASE e = << >>
  <2>1. v \o r = v
    BY <1>4, <1>6, <1>2
  <2> QED BY <2>1, <1>3, <1>6, StemOfBody, Zenon
<1>7. CASE e # << >>
  <2>1. /\ Len(r) = Len(e) + 1
        /\ r[1] = "."
        /\ \A i \in 1..Len(e) : r[i + 1] = e[i]
    BY <1>2, <1>3, <1>7, DottedTyped, Zenon
  <2>2. \A i \in 1..Len(e) : e[i] # "."
    <3>1. e \in Seq(VChars)
      BY <1>2, NoCuts, Widened
    <3>2. \A i \in 1..Len(e) : e[i] \in VChars
      BY <3>1
    <3> QED BY <3>2, NoCuts, Zenon
  <2>3. \A i \in 1..Len(v) : v[i] # "."
    <3>1. \A i \in 1..Len(v) : v[i] \in VChars
      BY <1>1
    <3> QED BY <3>1, NoCuts, Zenon
  <2>4. PICK dot : dot = "."
    OBVIOUS
  <2>5. PICK w : w = v \o r
    OBVIOUS
  <2>6. /\ w \in Seq(Chars) /\ Len(w) = Len(v) + Len(r)
        /\ \A i \in 1..Len(v) : w[i] = v[i]
        /\ \A i \in 1..Len(r) : w[Len(v) + i] = r[i]
        /\ \A i \in (Len(v) + 1)..(Len(v) + Len(r)) : w[i] = r[i - Len(v)]
    BY <1>2, <1>4, <2>5, Joined
  <2>7. /\ Len(r) >= 1
        /\ r[1] = dot
        /\ \A i \in 1..Len(v) : v[i] # dot
    <3>1. Len(r) >= 1
      BY <1>2, <2>1
    <3> QED BY <3>1, <2>1, <2>3, <2>4, Zenon
  <2> DEFINE P == Places(w, dot)
  <2>8. P \in SUBSET Int /\ Len(v) + 1 \in P
    BY <1>2, <1>4, <2>5, <2>7, Mark
  <2>9. \A j \in P : j <= Len(v) + 1
    <3> SUFFICES ASSUME NEW j \in 1..Len(w), w[j] = dot, j > Len(v) + 1
                 PROVE  FALSE
      BY <1>2 DEF Places
    <3>1. j - Len(v) - 1 \in 1..Len(e) /\ j - Len(v) - 1 + 1 = j - Len(v)
          /\ j \in (Len(v) + 1)..(Len(v) + Len(r))
      BY <1>2, <2>1, <2>6
    <3>2. w[j] = r[j - Len(v)] /\ r[j - Len(v)] = e[j - Len(v) - 1]
      BY <3>1, <2>1, <2>6
    <3> QED BY <3>1, <3>2, <2>2, <2>4, Zenon
  <2>10. PICK c : c = CHOOSE i \in P : \A j \in P : j <= i
    OBVIOUS
  <2>11. c = Len(v) + 1
    <3> HIDE DEF P
    <3> QED BY <2>8, <2>9, <2>10, ChosenGreatest
  <2>12. \E i \in P : i > 1
    BY <1>2, <2>8
  <2>13. Stem(w) = SubSeq(w, 1, c - 1)
    BY <2>4, <2>10, <2>12 DEF Stem
  <2>14. SubSeq(w, 1, Len(v)) = v
    BY <1>2, <1>4, <2>5, TakenApart
  <2>15. c - 1 = Len(v)
    <3> HIDE DEF P
    <3>1. PICK n \in Nat : n = Len(v)
      BY <1>2
    <3>2. c = n + 1
      BY <2>11, <3>1, Zenon
    <3>3. c - 1 = n
      BY <3>2
    <3> QED BY <3>1, <3>3, Zenon
  <2>16. Stem(w) = v
    BY <2>13, <2>14, <2>15, Zenon
  <2>17. Extension(w) = SubSeq(w, Len(v) + 2, Len(w))
    BY <2>16 DEF Extension
  <2>18. PICK x : x = SubSeq(w, Len(v) + 2, Len(w))
    OBVIOUS
  <2>19. x \in Seq(Chars) /\ Len(x) = Len(e)
    BY <1>2, <2>1, <2>6, <2>18
  <2>20. \A i \in 1..Len(x) : x[i] = w[Len(v) + 1 + i]
    BY <1>2, <2>1, <2>6, <2>18
  <2>21. \A i \in 1..Len(x) : x[i] = e[i]
    <3> TAKE i \in 1..Len(x)
    <3>1. i \in 1..Len(e) /\ i + 1 \in 1..Len(r) /\ Len(v) + (i + 1) = Len(v) + 1 + i
      BY <1>2, <2>1, <2>19
    <3>2. w[Len(v) + (i + 1)] = r[i + 1] /\ r[i + 1] = e[i]
      BY <3>1, <2>1, <2>6
    <3> QED BY <3>1, <3>2, <2>20
  <2>22. e \in Seq(Chars)
    <3>1. DChars \subseteq Chars
      BY NoCuts
    <3> QED BY <3>1, <1>2, Widened
  <2>23. x = e
    BY <2>19, <2>21, <2>22, SameElements
  <2> QED BY <1>3, <2>5, <2>16, <2>17, <2>18, <2>23, Zenon
<1> QED BY <1>6, <1>7

\* The name shown for a directory is its identifier, within the width.
LEMMA ShownDir ==
  ASSUME NEW v, IsBody(v)
  PROVE  CleanName(v) = v
<1>1. v \in Seq(VChars) /\ 1 \in 1..Len(v)
  BY NamesAssumption DEF IsBody
<1>2. v[1] \in VChars
  BY <1>1
<1>3. v[1] # "0x00" /\ v[1] # "0x01"
  BY <1>2, NoCuts, Zenon
<1>4. Self[1] = "0x00" /\ Parent[1] = "0x01"
  BY DEF Self, Parent
<1>5. v # Self /\ v # Parent
  BY <1>3, <1>4, Zenon
<1>6. CleanName(v) = Unversioned(v)
  BY <1>5 DEF CleanName
<1> QED BY <1>6, BodyName, UnversionedIs

\* The name shown for a file is its base and extension, within the widths.
LEMMA ShownFile ==
  ASSUME NEW v, NEW e, IsBody(v), IsExt(e)
  PROVE  CleanName(FileId(v, e)) = v \o Dotted(e)
<1>1. PICK w : w = v \o Dotted(e)
  OBVIOUS
<1>2. IsName(w)
  BY <1>1, FileName
<1>3. FileId(v, e) = w \o Version
  BY <1>1 DEF FileId
<1>4. PICK u : u = Version
  OBVIOUS
<1>5. u \in Seq(Chars) /\ Len(u) = 2 /\ w \in Seq(Chars)
  BY <1>2, <1>4, VersionTyped, Zenon DEF IsName
<1>6. Len(w \o u) # 1
  <2>1. Len(w \o u) = Len(w) + Len(u) /\ Len(w) \in Nat
    BY <1>5, Joined, EmptySequence
  <2> QED BY <1>5, <2>1
<1>7. Len(Self) = 1 /\ Len(Parent) = 1
  BY DEF Self, Parent
<1>8. w \o u # Self /\ w \o u # Parent
  BY <1>6, <1>7, Zenon
<1>9. CleanName(w \o u) = Unversioned(w \o u)
  BY <1>8 DEF CleanName
<1> QED BY <1>1, <1>2, <1>3, <1>4, <1>9, UnversionedIs, Zenon

---------------------------------------------------------------------------
(* The variants of an identifier *)

\* What disambiguate adds to a base.
Suffix(k) == <<"~">> \o Decimal(k)

\* The k-th variant of a base.
Variant(v, k) == IF k = 1 THEN v ELSE ClampField(v, NameWidth - Len(Suffix(k))) \o Suffix(k)

\* The suffix of a variant: its mark and its number.
LEMMA SuffixTyped ==
  ASSUME NEW k \in Nat
  PROVE  /\ Suffix(k) \in Seq(VChars) /\ Len(Suffix(k)) = Len(Decimal(k)) + 1
         /\ Len(Decimal(k)) \in Nat /\ Decimal(k) \in Seq(DChars)
         /\ Suffix(k)[1] = "~"
<1>1. PICK m : m = "~"
  OBVIOUS
<1>2. m \in VChars
  BY <1>1 DEF VChars
<1>3. PICK d : d = Decimal(k)
  OBVIOUS
<1>4. d \in Seq(DChars)
  <2>1. d \in Seq(DigitSet) /\ DigitSet \subseteq DChars
    BY <1>3, DecimalSteps, Apart
  <2> QED BY <2>1, Widened
<1>5. d \in Seq(VChars) /\ Len(d) \in Nat
  <2>1. DChars \subseteq VChars
    BY NoCuts
  <2> QED BY <1>4, <2>1, Widened
<1>6. <<m>> \o d \in Seq(VChars) /\ Len(<<m>> \o d) = Len(d) + 1 /\ (<<m>> \o d)[1] = m
  BY <1>2, <1>5, JoinAtMark
<1>7. Suffix(k) = <<m>> \o d
  BY <1>1, <1>3 DEF Suffix
<1> QED BY <1>1, <1>3, <1>4, <1>5, <1>6, <1>7, Zenon

\* A variant of a base is as wide as level 1 lets a base be.
LEMMA VariantBody ==
  ASSUME NEW v \in Seq(DChars), Len(v) \in 1..NameWidth, NEW k \in Nat,
         k = 1 \/ Len(Decimal(k)) < NameWidth
  PROVE  IsBody(Variant(v, k))
<1>1. NameWidth \in Nat /\ NameWidth > 1 /\ v \in Seq(VChars)
  <2>1. DChars \subseteq VChars
    BY NoCuts
  <2> QED BY <2>1, NamesAssumption, Widened
<1>2. CASE k = 1
  BY <1>1, <1>2 DEF Variant, IsBody
<1>3. CASE k # 1
  <2>1. PICK x : x = Suffix(k)
    OBVIOUS
  <2>2. x \in Seq(VChars) /\ Len(x) = Len(Decimal(k)) + 1 /\ Len(Decimal(k)) \in Nat
    BY <2>1, SuffixTyped
  <2>9. PICK w \in Nat : w = Len(Decimal(k))
    BY <2>2
  <2>10. Len(x) = w + 1 /\ w < NameWidth
    BY <1>3, <2>2, <2>9, Zenon
  <2>3. PICK n \in Int : n = NameWidth - Len(x) /\ n >= 0
    BY <1>1, <2>10
  <2>4. PICK c : c = ClampField(v, n)
    OBVIOUS
  <2>5. c \in Seq(VChars) /\ Len(c) = IF n < 0 THEN 0 ELSE IF Len(v) > n THEN n ELSE Len(v)
    BY <1>1, <2>4, ClampTyped
  <2>6. c \o x \in Seq(VChars) /\ Len(c \o x) = Len(c) + Len(x)
    BY <2>2, <2>5, Joined
  <2>11. Len(c) \in Nat /\ Len(c) <= n
    BY <2>3, <2>5, EmptySequence
  <2>7. Len(c \o x) \in 1..NameWidth
    BY <1>1, <2>3, <2>6, <2>10, <2>11
  <2>8. Variant(v, k) = c \o x
    BY <1>3, <2>1, <2>3, <2>4 DEF Variant
  <2> QED BY <2>6, <2>7, <2>8 DEF IsBody
<1> QED BY <1>2, <1>3

\* From the second on, a variant ends in its suffix.
LEMMA VariantForm ==
  ASSUME NEW v \in Seq(DChars), NEW k \in Nat, k # 1
  PROVE  \E c \in Seq(DChars) : Variant(v, k) = c \o Suffix(k)
<1>1. NameWidth \in Nat /\ Len(Suffix(k)) \in Nat
  BY NamesAssumption, SuffixTyped
<1>2. ClampField(v, NameWidth - Len(Suffix(k))) \in Seq(DChars)
  BY <1>1, ClampTyped
<1> QED BY <1>2 DEF Variant

\* No two variants are equal, of one base or of two, if their numbers differ.
LEMMA VariantsDiffer ==
  ASSUME NEW v \in Seq(DChars), NEW k \in Nat, NEW l \in Nat, Variant(v, k) = Variant(v, l)
  PROVE  k = l
<1>1. PICK m : m = "~"
  OBVIOUS
<1>2. m \notin DChars
  BY <1>1, Apart
<1>3. ASSUME NEW n \in Nat, n # 1
      PROVE  \E c \in Seq(DChars) : Variant(v, n) = c \o (<<m>> \o Decimal(n))
  BY <1>1, <1>3, VariantForm DEF Suffix
<1>4. \A n \in Nat : Decimal(n) \in Seq(DChars)
  BY SuffixTyped
<1>5. ASSUME NEW n \in Nat, n # 1
      PROVE  Variant(v, n) # Variant(v, 1)
  <2>1. PICK c \in Seq(DChars) : Variant(v, n) = c \o (<<m>> \o Decimal(n))
    BY <1>3, <1>5
  <2>2. v # c \o (<<m>> \o Decimal(n))
    BY <1>2, <1>4, <2>1, MarkTells
  <2>3. Variant(v, 1) = v
    BY DEF Variant
  <2> QED BY <2>1, <2>2, <2>3
<1>6. ASSUME k # 1, l # 1
      PROVE  k = l
  <2>1. PICK c \in Seq(DChars) : Variant(v, k) = c \o (<<m>> \o Decimal(k))
    BY <1>3, <1>6
  <2>2. PICK b \in Seq(DChars) : Variant(v, l) = b \o (<<m>> \o Decimal(l))
    BY <1>3, <1>6
  <2>3. PICK d : d = Decimal(k)
    OBVIOUS
  <2>4. PICK e : e = Decimal(l)
    OBVIOUS
  <2>5. d \in Seq(DChars) /\ e \in Seq(DChars) /\ c \o (<<m>> \o d) = b \o (<<m>> \o e)
    BY <1>4, <2>1, <2>2, <2>3, <2>4, Zenon
  <2> HIDE DEF Variant
  <2>6. d = e
    BY ONLY <1>2, <2>5, SameBehindMark
  <2> QED BY <2>3, <2>4, <2>6, DecimalsDiffer
<1> QED BY <1>5, <1>6

\* disambiguate of a directory replaces the whole identifier by its variant.
LEMMA DirVariant ==
  ASSUME NEW v \in Seq(DChars), NEW k \in Nat, k # 1
  PROVE  Disambiguate(v, TRUE, k) = Variant(v, k)
<1>1. Len(v) \in Nat
  BY EmptySequence
<1>2. PICK n : n = Len(v) + 1
  OBVIOUS
<1>3. PICK a : a = ClampField(SubSeq(v, 1, n - 1), NameWidth - Len(Suffix(k))) \o Suffix(k)
  OBVIOUS
<1>4. Disambiguate(v, TRUE, k) = a \o SubSeq(v, n, Len(v))
  BY <1>2, <1>3 DEF Disambiguate, Suffix
<1>5. SubSeq(v, n, Len(v)) = << >>
  BY <1>1, <1>2
<1>6. n - 1 = Len(v)
  BY <1>1, <1>2
<1>7. SubSeq(v, 1, Len(v)) = v
  OBVIOUS
<1>8. a = Variant(v, k)
  BY <1>3, <1>6, <1>7 DEF Variant
<1>9. a \in Seq(VChars)
  <2>1. PICK c \in Seq(DChars) : Variant(v, k) = c \o Suffix(k)
    BY VariantForm
  <2>2. c \in Seq(VChars)
    BY NoCuts, Widened
  <2> QED BY <1>8, <2>1, <2>2, SuffixTyped, Joined
<1>10. a \o << >> = a
  BY <1>9
<1> QED BY <1>4, <1>5, <1>8, <1>10, Zenon

\* disambiguate of a file replaces its base, and keeps the extension.
LEMMA FileVariant ==
  ASSUME NEW v \in Seq(DChars), NEW e \in Seq(DChars), NEW k \in Nat, k # 1
  PROVE  Disambiguate(FileId(v, e), FALSE, k) = FileId(Variant(v, k), e)
<1>1. Len(v) \in Nat
  BY EmptySequence
<1>2. PICK r : r = Rest(e)
  OBVIOUS
<1>3. r \in Seq(Chars) /\ Len(r) \in Nat /\ Len(r) >= 1
  <2>1. r \in Seq(Chars) /\ Len(r) \in Nat /\ Len(r) >= 2
    BY <1>2, TailTyped, Zenon
  <2> QED BY <2>1
<1>23. PICK dot : dot = "."
  OBVIOUS
<1>24. PICK semi : semi = ";"
  OBVIOUS
<1>4. r[1] = dot \/ r[1] = semi
  BY <1>2, <1>23, <1>24, TailTyped
<1>5. v \in Seq(Chars)
  <2>1. v \in Seq(VChars)
    BY NoCuts, Widened
  <2> QED BY <2>1, NoCuts, Widened
<1>22. \A i \in 1..Len(v) : v[i] # dot /\ v[i] # semi
  <2>1. v \in Seq(VChars)
    BY NoCuts, Widened
  <2>2. \A i \in 1..Len(v) : v[i] \in VChars
    BY <2>1
  <2> QED BY <1>23, <1>24, <2>2, NoCuts, Zenon
<1>6. PICK s : s = v \o r
  OBVIOUS
<1>7. s = FileId(v, e)
  BY <1>2, <1>5, <1>6, FileIdIs
<1>8. /\ Len(s) = Len(v) + Len(r)
      /\ \A i \in 1..Len(v) : s[i] = v[i]
      /\ \A i \in 1..Len(r) : s[Len(v) + i] = r[i]
  BY <1>3, <1>5, <1>6, Joined
<1>9. s[Len(v) + 1] = dot \/ s[Len(v) + 1] = semi
  <2>1. s[Len(v) + 1] = r[1]
    BY <1>1, <1>3, <1>8
  <2> QED BY <2>1, <1>4, Zenon
<1> DEFINE cuts == Places(s, dot) \cup Places(s, semi)
<1>10. cuts \in SUBSET Int
  BY DEF Places
<1>11. Len(v) + 1 \in cuts
  <2>1. Len(v) + 1 \in 1..Len(s)
    BY <1>1, <1>3, <1>8
  <2> QED BY <2>1, <1>9, Zenon DEF Places
<1>12. \A j \in cuts : Len(v) + 1 <= j
  <2> SUFFICES ASSUME NEW j \in 1..Len(s), s[j] = dot \/ s[j] = semi, ~(Len(v) + 1 <= j)
               PROVE  FALSE
    BY DEF Places
  <2>1. j \in 1..Len(v)
    BY <1>1
  <2> QED BY <2>1, <1>22, <1>8, Zenon
<1>13. PICK n : n = CHOOSE i \in cuts : \A j \in cuts : i <= j
  OBVIOUS
<1>14. n = Len(v) + 1
  <2> HIDE DEF cuts
  <2> QED BY <1>10, <1>11, <1>12, <1>13, ChosenLeast
<1>15. PICK a : a = ClampField(SubSeq(s, 1, n - 1), NameWidth - Len(Suffix(k))) \o Suffix(k)
  OBVIOUS
<1>16. Disambiguate(s, FALSE, k) = a \o SubSeq(s, n, Len(s))
  <2> DEFINE places == Places(s, ".") \cup Places(s, ";")
             cut == IF FALSE \/ places = {} THEN Len(s) + 1
                    ELSE CHOOSE i \in places : \A j \in places : i <= j
  <2>1. cuts # {}
    BY <1>11
  <2>2. places = cuts
    BY <1>23, <1>24, Zenon
  <2>3. cut = n
    <3> HIDE DEF cuts, places
    <3>1. places # {}
      BY <2>1, <2>2, Zenon
    <3>2. n = CHOOSE i \in places : \A j \in places : i <= j
      BY <1>13, <2>2, Zenon
    <3> QED BY <3>1, <3>2
  <2>4. Disambiguate(s, FALSE, k) =
          ClampField(SubSeq(s, 1, cut - 1), NameWidth - Len(Suffix(k))) \o Suffix(k) \o SubSeq(s, cut, Len(s))
    BY DEF Disambiguate, Suffix
  <2> HIDE DEF cut
  <2> QED BY <1>15, <2>3, <2>4, Zenon
<1>17. SubSeq(s, 1, Len(v)) = v /\ SubSeq(s, Len(v) + 1, Len(s)) = r
  BY <1>3, <1>5, <1>6, TakenApart
<1>18. n - 1 = Len(v)
  BY <1>1, <1>14
<1>19. a = Variant(v, k)
  BY <1>15, <1>17, <1>18, Zenon DEF Variant
<1>20. a \in Seq(Chars)
  <2>1. PICK c \in Seq(DChars) : Variant(v, k) = c \o Suffix(k)
    BY VariantForm
  <2>2. c \in Seq(VChars)
    BY NoCuts, Widened
  <2>3. a \in Seq(VChars)
    BY <1>19, <2>1, <2>2, SuffixTyped, Joined
  <2> QED BY <2>3, NoCuts, Widened
<1>21. FileId(a, e) = a \o r
  BY <1>2, <1>20, FileIdIs
<1> QED BY <1>7, <1>14, <1>16, <1>17, <1>19, <1>21, Zenon

\* The base v and the extension e that the candidates of p are made of.
Shape(t, p, v, e) ==
  /\ v \in Seq(DChars) /\ Len(v) \in 1..NameWidth
  /\ IsExt(e)
  /\ \A k \in Nat \ {0} :
       Candidate(t, p, k) = IF t[p].isDir THEN Variant(v, k) ELSE FileId(Variant(v, k), e)

\* Every candidate is made of a variant of one base and one extension.
LEMMA CandidateShape ==
  ASSUME NEW t, NEW p, t[p].isDir \in BOOLEAN, Last(p) \in Strings, Last(p) # << >>
  PROVE  \E v, e : Shape(t, p, v, e)
<1>1. PICK name : name = Last(p)
  OBVIOUS
<1>2. name \in Strings /\ name # << >>
  BY <1>1
<1>3. CASE t[p].isDir = TRUE
  <2>1. PICK v : v = IsoIdentifier(name, TRUE)
    OBVIOUS
  <2>2. v \in Seq(DChars) /\ Len(v) \in 1..NameWidth
    BY <1>2, <2>1, DirIdentifier
  <2>3. \A k \in Nat \ {0} : Candidate(t, p, k) = Variant(v, k)
    <3> TAKE k \in Nat \ {0}
    <3>1. Candidate(t, p, k) = IF k = 1 THEN v ELSE Disambiguate(v, TRUE, k)
      BY <1>1, <1>3, <2>1 DEF Candidate
    <3>2. k # 1 => Disambiguate(v, TRUE, k) = Variant(v, k)
      BY <2>2, DirVariant
    <3>3. k = 1 => Variant(v, k) = v
      BY DEF Variant
    <3> QED BY <3>1, <3>2, <3>3
  <2>4. IsExt(<< >>)
    BY NamesAssumption DEF IsExt
  <2>5. Shape(t, p, v, << >>)
    BY <1>3, <2>2, <2>3, <2>4, Zenon DEF Shape
  <2> QED BY <2>5
<1>4. CASE t[p].isDir = FALSE
  <2>1. PICK v \in Seq(DChars), e \in Seq(DChars) :
          Len(v) \in 1..NameWidth /\ IsExt(e) /\ IsoIdentifier(name, FALSE) = FileId(v, e)
    BY <1>2, FileIdentifier
  <2>2. \A k \in Nat \ {0} : Candidate(t, p, k) = FileId(Variant(v, k), e)
    <3> TAKE k \in Nat \ {0}
    <3>1. Candidate(t, p, k) = IF k = 1 THEN FileId(v, e) ELSE Disambiguate(FileId(v, e), FALSE, k)
      BY <1>1, <1>4, <2>1 DEF Candidate
    <3>2. k # 1 => Disambiguate(FileId(v, e), FALSE, k) = FileId(Variant(v, k), e)
      BY <2>1, FileVariant
    <3>3. k = 1 => Variant(v, k) = v
      BY DEF Variant
    <3>4. CASE k = 1
      BY <3>1, <3>3, <3>4, Zenon
    <3>5. CASE k # 1
      BY <3>1, <3>2, <3>5, Zenon
    <3> QED BY <3>4, <3>5
  <2>3. Shape(t, p, v, e)
    BY <1>4, <2>1, <2>2, Zenon DEF Shape
  <2> QED BY <2>3
<1> QED BY <1>3, <1>4

\* The characters of a variant.
LEMMA VariantTyped ==
  ASSUME NEW v \in Seq(DChars), NEW k \in Nat
  PROVE  Variant(v, k) \in Seq(Chars)
<1>1. DChars \subseteq VChars /\ VChars \subseteq Chars
  BY NoCuts
<1>2. CASE k = 1
  <2>1. Variant(v, k) = v
    BY <1>2 DEF Variant
  <2> QED BY <1>1, <2>1, Widened
<1>3. CASE k # 1
  <2>1. PICK c \in Seq(DChars) : Variant(v, k) = c \o Suffix(k)
    BY <1>3, VariantForm
  <2>2. c \in Seq(VChars)
    BY <1>1, Widened
  <2>3. Variant(v, k) \in Seq(VChars)
    BY <2>1, <2>2, SuffixTyped, Joined
  <2> QED BY <1>1, <2>3, Widened
<1> QED BY <1>2, <1>3

\* The candidates of a node are different from each other.
LEMMA CandidatesDiffer ==
  ASSUME NEW t, NEW p, t[p].isDir \in BOOLEAN, Last(p) \in Strings, Last(p) # << >>,
         NEW k \in Nat \ {0}, NEW l \in Nat \ {0}, Candidate(t, p, k) = Candidate(t, p, l)
  PROVE  k = l
<1>1. PICK v, e : Shape(t, p, v, e)
  BY CandidateShape
<1>2. PICK x : x = Variant(v, k)
  OBVIOUS
<1>3. PICK y : y = Variant(v, l)
  OBVIOUS
<1>4. x \in Seq(Chars) /\ y \in Seq(Chars) /\ v \in Seq(DChars) /\ e \in Seq(DChars)
  <2>1. v \in Seq(DChars) /\ e \in Seq(DChars)
    BY <1>1 DEF Shape, IsExt
  <2> QED BY <1>2, <1>3, <2>1, VariantTyped
<1>5. CASE t[p].isDir
  <2>1. x = y
    BY <1>1, <1>2, <1>3, <1>5 DEF Shape
  <2> QED BY <1>2, <1>3, <1>4, <2>1, VariantsDiffer
<1>6. CASE ~t[p].isDir
  <2>1. FileId(x, e) = FileId(y, e)
    BY <1>1, <1>2, <1>3, <1>6 DEF Shape
  <2>2. PICK r : r = Rest(e)
    OBVIOUS
  <2>3. r \in Seq(Chars)
    BY <1>4, <2>2, TailTyped
  <2>4. x \o r = y \o r
    BY <1>4, <2>1, <2>2, FileIdIs
  <2>5. x = y
    BY <1>4, <2>3, <2>4, SameTail
  <2> QED BY <1>2, <1>3, <1>4, <2>5, VariantsDiffer
<1> QED BY <1>5, <1>6

\* An identifier of level 1.
Fits(id) ==
  /\ id # << >>
  /\ Len(Stem(CleanName(id))) <= NameWidth
  /\ Len(Extension(CleanName(id))) <= ExtWidth

\* Every candidate is of level 1 while its number fits into a base.
LEMMA CandidateFits ==
  ASSUME NEW t, NEW p, t[p].isDir \in BOOLEAN, Last(p) \in Strings, Last(p) # << >>,
         NEW k \in Nat \ {0}, k = 1 \/ Len(Decimal(k)) < NameWidth
  PROVE  Fits(Candidate(t, p, k)) /\ Candidate(t, p, k) \in Seq(Chars)
<1>1. PICK v, e : Shape(t, p, v, e)
  BY CandidateShape
<1>2. PICK x : x = Variant(v, k)
  OBVIOUS
<1>3. IsBody(x) /\ IsExt(e) /\ e \in Seq(DChars)
  BY <1>1, <1>2, VariantBody DEF Shape, IsExt
<1>4. x \in Seq(Chars) /\ x # << >> /\ Len(x) <= NameWidth /\ Len(e) <= ExtWidth
  <2>1. v \in Seq(DChars)
    BY <1>1 DEF Shape
  <2>2. x \in Seq(Chars)
    BY <1>2, <2>1, VariantTyped
  <2>3. Len(x) \in 1..NameWidth /\ Len(e) \in 0..ExtWidth
    BY <1>3 DEF IsBody, IsExt
  <2> QED BY <2>2, <2>3, NamesAssumption
<1>5. CASE t[p].isDir
  <2>1. Candidate(t, p, k) = x
    BY <1>1, <1>2, <1>5 DEF Shape
  <2>2. CleanName(x) = x /\ Stem(x) = x /\ Extension(x) = << >>
    BY <1>3, ShownDir, StemOfBody
  <2>3. Len(<< >>) <= ExtWidth
    BY NamesAssumption
  <2> QED BY <1>4, <2>1, <2>2, <2>3, Zenon DEF Fits
<1>6. CASE ~t[p].isDir
  <2>1. Candidate(t, p, k) = FileId(x, e)
    BY <1>1, <1>2, <1>6 DEF Shape
  <2>2. CleanName(FileId(x, e)) = x \o Dotted(e) /\ Stem(x \o Dotted(e)) = x /\ Extension(x \o Dotted(e)) = e
    BY <1>3, ShownFile, StemOfFile
  <2>3. FileId(x, e) \in Seq(Chars) /\ FileId(x, e) # << >>
    <3>1. PICK r : r = Rest(e)
      OBVIOUS
    <3>2. r \in Seq(Chars)
      BY <1>3, <3>1, TailTyped
    <3>3. FileId(x, e) = x \o r
      BY <1>3, <1>4, <3>1, FileIdIs
    <3>4. x \o r \in Seq(Chars) /\ x \o r # << >>
      BY <1>4, <3>2
    <3> QED BY <3>3, <3>4
  <2> QED BY <1>4, <2>1, <2>2, <2>3, Zenon DEF Fits
<1> QED BY <1>5, <1>6

---------------------------------------------------------------------------
(* The identifiers of siblings *)

\* The nodes of C have names that identifiers can be made of.
Nameable(t, C) ==
  \A p \in C : t[p].isDir \in BOOLEAN /\ Last(p) \in Strings /\ Last(p) # << >>

\* Of one more candidates than there are siblings before it, one is free.
LEMMA FreeVariantIs ==
  ASSUME NEW t, NEW p, Nameable(t, {p}), NEW ids, IsFiniteSet(DOMAIN ids)
  PROVE  /\ FreeVariant(t, ids, p) \in 1..(Cardinality(DOMAIN ids) + 1)
         /\ \A q \in DOMAIN ids : ids[q] # Candidate(t, p, FreeVariant(t, ids, p))
<1> DEFINE n == Cardinality(DOMAIN ids)
           free == {k \in 1..(n + 1) : \A q \in DOMAIN ids : ids[q] # Candidate(t, p, k)}
<1>1. n \in Nat
  BY FS_CardinalityType
<1>2. free # {}
  <2> SUFFICES ASSUME free = {} PROVE FALSE
    OBVIOUS
  <2> DEFINE g == [k \in 1..(n + 1) |-> CHOOSE q \in DOMAIN ids : ids[q] = Candidate(t, p, k)]
  <2>1. \A k \in 1..(n + 1) : \E q \in DOMAIN ids : ids[q] = Candidate(t, p, k)
    OBVIOUS
  <2>2. \A k \in 1..(n + 1) : g[k] \in DOMAIN ids /\ ids[g[k]] = Candidate(t, p, k)
    <3> HIDE DEF n
    <3> QED BY <2>1
  <2>3. g \in [1..(n + 1) -> DOMAIN ids]
    BY <2>2
  <2> HIDE DEF g
  <2>4. IsFiniteSet(1..(n + 1)) /\ Cardinality(1..(n + 1)) = n + 1
    <3> HIDE DEF n
    <3> QED BY <1>1, FS_Interval
  <2>5. Cardinality(DOMAIN ids) < Cardinality(1..(n + 1))
    BY <1>1, <2>4
  <2>6. PICK k \in 1..(n + 1), l \in 1..(n + 1) : k # l /\ g[k] = g[l]
    <3> HIDE DEF n, free
    <3>1. PICK S : S = 1..(n + 1)
      OBVIOUS
    <3>2. g \in [S -> DOMAIN ids] /\ IsFiniteSet(S) /\ Cardinality(DOMAIN ids) < Cardinality(S)
      BY <2>3, <2>4, <2>5, <3>1
    <3>3. \E k, l \in S : k # l /\ g[k] = g[l]
      BY <3>2, FS_PigeonHole
    <3> QED BY <3>1, <3>3
  <2>7. Candidate(t, p, k) = Candidate(t, p, l)
    BY <2>2, <2>6
  <2>8. k \in Nat \ {0} /\ l \in Nat \ {0}
    BY <1>1
  <2>9. t[p].isDir \in BOOLEAN /\ Last(p) \in Strings /\ Last(p) # << >>
    BY DEF Nameable
  <2> QED BY <2>6, <2>7, <2>8, <2>9, CandidatesDiffer
<1>3. free \in SUBSET Nat
  BY <1>1
<1>4. FreeVariant(t, ids, p) = CHOOSE k \in free : \A j \in free : k <= j
  BY DEF FreeVariant
<1>5. FreeVariant(t, ids, p) \in free
  <2> HIDE DEF free
  <2>1. \E k \in free : \A j \in free : k <= j
    BY <1>2, <1>3, LeastNatural
  <2> QED BY <1>4, <2>1
<1> QED BY <1>5

\* f is what the first i nodes of order were assigned.
Numbered(t, order, i, f) ==
  /\ DOMAIN f = {order[j] : j \in 1..i}
  /\ IsFiniteSet(DOMAIN f) /\ Cardinality(DOMAIN f) <= i
  /\ \A q \in DOMAIN f : \E k \in 1..i : f[q] = Candidate(t, q, k)
  /\ \A q, r \in DOMAIN f : q # r => f[q] # f[r]

\* One iteration of assignIdentifiers keeps the identifiers distinct.
LEMMA NumberedStep ==
  ASSUME NEW t, NEW C, Nameable(t, C), NEW order \in Seq(C), NEW i \in 1..Len(order),
         NEW f, Numbered(t, order, i - 1, f)
  PROVE  Numbered(t, order, i, AssignIdentifier(t, f, order[i]))
<1> DEFINE D == DOMAIN f
<1>1. PICK p : p = order[i]
  OBVIOUS
<1>2. p \in C /\ Nameable(t, {p}) /\ i \in Nat
  BY <1>1 DEF Nameable
<1>3. D = {order[j] : j \in 1..(i - 1)} /\ IsFiniteSet(D) /\ Cardinality(D) <= i - 1 /\ Cardinality(D) \in Nat
  BY FS_CardinalityType DEF Numbered
<1>4. PICK k : k = FreeVariant(t, f, p)
  OBVIOUS
<1>5. k \in 1..(Cardinality(D) + 1) /\ \A q \in D : f[q] # Candidate(t, p, k)
  BY <1>2, <1>3, <1>4, FreeVariantIs
<1>6. k \in 1..i
  BY <1>2, <1>3, <1>5
<1>7. PICK h : h = AssignIdentifier(t, f, order[i])
  OBVIOUS
<1>8. /\ DOMAIN h = D \cup {p}
      /\ \A q \in D \cup {p} : h[q] = IF q = p THEN Candidate(t, p, k) ELSE f[q]
  BY <1>1, <1>4, <1>7 DEF AssignIdentifier, With
<1>9. D \cup {p} = {order[j] : j \in 1..i}
  <2>1. \A j \in 1..i : j = i \/ j \in 1..(i - 1)
    BY <1>2
  <2>2. i \in 1..i /\ \A j \in 1..(i - 1) : j \in 1..i
    BY <1>2
  <2> HIDE DEF D
  <2> QED BY <1>1, <1>3, <2>1, <2>2, Zenon
<1>10. IsFiniteSet(D \cup {p}) /\ Cardinality(D \cup {p}) <= i
  <2> HIDE DEF D
  <2>1. IsFiniteSet(D \cup {p}) /\ Cardinality(D \cup {p}) = IF p \in D THEN Cardinality(D) ELSE Cardinality(D) + 1
    BY <1>3, FS_AddElement
  <2> QED BY <1>2, <1>3, <2>1
<1>11. \A q \in D \cup {p} : \E l \in 1..i : h[q] = Candidate(t, q, l)
  <2> TAKE q \in D \cup {p}
  <2>1. CASE q = p
    BY <1>6, <1>8, <2>1
  <2>2. CASE q # p
    <3>1. PICK l \in 1..(i - 1) : f[q] = Candidate(t, q, l)
      BY <2>2 DEF Numbered
    <3>2. l \in 1..i
      BY <1>2
    <3> QED BY <3>1, <3>2, <2>2, <1>8
  <2> QED BY <2>1, <2>2
<1>12. \A q, r \in D \cup {p} : q # r => h[q] # h[r]
  <2>1. \A q, r \in D : q # r => f[q] # f[r]
    BY DEF Numbered
  <2> HIDE DEF D
  <2> QED BY <2>1, <1>5, <1>8, Zenon
<1> QED BY <1>7, <1>8, <1>9, <1>10, <1>11, <1>12 DEF Numbered

\* So do all of them.
LEMMA AssignedNumbered ==
  ASSUME NEW t, NEW C, Nameable(t, C), NEW order \in Seq(C)
  PROVE  Numbered(t, order, Len(order), Assigned(t, order))
<1> DEFINE n == Len(order)
           V == {Candidate(t, p, k) : p \in C, k \in Nat}
           F == {f \in UNION {[A -> V] : A \in SUBSET C} : IsFiniteSet(DOMAIN f)}
           step == [i \in 1..n |-> [f \in F |-> AssignIdentifier(t, f, order[i])]]
           Rec(f) == f = [i \in 0..n |-> IF i = 0 THEN << >> ELSE AssignIdentifier(t, f[i - 1], order[i])]
           ids == CHOOSE f : Rec(f)
<1>1. n \in Nat /\ \A i \in 1..n : order[i] \in C
  OBVIOUS
<1>2. << >> \in F
  <2>1. << >> \in [{} -> V] /\ DOMAIN << >> = {}
    OBVIOUS
  <2>2. IsFiniteSet({})
    BY FS_EmptySet
  <2> HIDE DEF V
  <2> QED BY <2>1, <2>2
<1>3. ASSUME NEW f \in F, NEW p \in C
      PROVE  AssignIdentifier(t, f, p) \in F
  <2>1. PICK A \in SUBSET C : f \in [A -> V]
    BY <1>3
  <2>2. IsFiniteSet(A)
    BY <1>3, <2>1
  <2>3. Nameable(t, {p})
    BY DEF Nameable
  <2>4. FreeVariant(t, f, p) \in Nat
    <3>1. IsFiniteSet(DOMAIN f)
      OBVIOUS
    <3>2. FreeVariant(t, f, p) \in 1..(Cardinality(DOMAIN f) + 1)
      BY <2>3, <3>1, FreeVariantIs
    <3> QED BY <3>2
  <2>5. PICK v \in V : v = Candidate(t, p, FreeVariant(t, f, p))
    BY <2>4
  <2> HIDE DEF V
  <2>6. With(f, p, v) \in [A \cup {p} -> V]
    BY <2>1 DEF With
  <2>7. IsFiniteSet(A \cup {p})
    BY <2>2, FS_AddElement
  <2>8. AssignIdentifier(t, f, p) = With(f, p, v)
    BY <2>5 DEF AssignIdentifier
  <2>9. DOMAIN With(f, p, v) = A \cup {p} /\ A \cup {p} \in SUBSET C
    BY <2>6
  <2>10. With(f, p, v) \in UNION {[D -> V] : D \in SUBSET C}
    BY <2>6, <2>9, Zenon
  <2>11. IsFiniteSet(DOMAIN With(f, p, v))
    BY <2>7, <2>9, Zenon
  <2> QED BY <2>8, <2>10, <2>11, Zenon
<1>4. step \in [1..n -> [F -> F]]
  <2> HIDE DEF F
  <2> QED BY <1>1, <1>3
<1>5. Steps(n, F, << >>, step)
  <2> HIDE DEF F, step
  <2> QED BY <1>1, <1>2, <1>4 DEF Steps
<1>6. PICK f : Takes(n, F, << >>, step, f)
  <2> HIDE DEF F, step
  <2> QED BY <1>5, RecursionExists
<1>7. Rec(f)
  <2> HIDE DEF F
  <2>1. f \in [0..n -> F] /\ f[0] = << >> /\ \A i \in 1..n : f[i] = step[i][f[i - 1]]
    BY <1>6 DEF Takes
  <2>2. ASSUME NEW i \in 1..n
        PROVE  f[i] = AssignIdentifier(t, f[i - 1], order[i])
    <3> HIDE DEF n
    <3>1. i - 1 \in 0..n
      BY <1>1
    <3>2. f[i - 1] \in F
      BY <2>1, <3>1
    <3>3. step[i] = [x \in F |-> AssignIdentifier(t, x, order[i])]
      OBVIOUS
    <3> HIDE DEF step
    <3>4. step[i][f[i - 1]] = AssignIdentifier(t, f[i - 1], order[i])
      BY <3>2, <3>3
    <3> QED BY <2>1, <3>4
  <2> QED BY <1>1, <2>1, <2>2
<1>8. Rec(ids)
  <2> HIDE DEF Rec
  <2> QED BY <1>7
<1>9. Assigned(t, order) = ids[n]
  BY DEF Assigned
<1>10. ids[0] = << >> /\ \A i \in 1..n : ids[i] = AssignIdentifier(t, ids[i - 1], order[i])
  <2> HIDE DEF ids
  <2> QED BY <1>1, <1>8
<1> HIDE DEF ids, n, F, V, step, Rec
<1>11. Numbered(t, order, 0, ids[0])
  <2>1. PICK e : e = << >>
    OBVIOUS
  <2>2. DOMAIN e = {}
    BY <2>1
  <2>3. IsFiniteSet({}) /\ Cardinality({}) <= 0
    BY FS_EmptySet
  <2>4. {order[j] : j \in 1..0} = {}
    OBVIOUS
  <2>5. Numbered(t, order, 0, e)
    BY <2>2, <2>3, <2>4 DEF Numbered
  <2> QED BY <1>10, <2>1, <2>5
<1> DEFINE Good == {i \in 0..n : Numbered(t, order, i, ids[i])}
<1>12. 0 \in Good
  BY <1>1, <1>11
<1>13. ASSUME NEW i \in 1..n, i - 1 \in Good
       PROVE  i \in Good
  <2>1. Numbered(t, order, i - 1, ids[i - 1])
    BY <1>13
  <2>2. Numbered(t, order, i, ids[i])
    BY <1>10, <2>1, NumberedStep DEF n
  <2> QED BY <1>1, <2>2
<1>14. n \in Good
  <2> HIDE DEF Good
  <2>1. \A i \in 0..n : i \in Good
    BY <1>1, <1>12, <1>13, InductionTo
  <2> QED BY <1>1, <2>1
<1> QED BY <1>9, <1>14 DEF n

---------------------------------------------------------------------------
(* sort.Slice loses no child *)

\* r is s with p put somewhere into it.
Grown(C, r, s, p) ==
  /\ r \in Seq(C)
  /\ Len(r) = Len(s) + 1
  /\ Elements(r) = Elements(s) \cup {p}

\* Inserting an element adds it, and loses none.
LEMMA InsertedElements ==
  ASSUME NEW C, NEW s \in Seq(C), NEW c \in 0..Len(s), NEW p \in C
  PROVE  Grown(C, InsertAt(s, c + 1, p), s, p)
<1>9. c \in Nat /\ Len(s) \in Nat /\ c <= Len(s)
  OBVIOUS
<1>1. PICK a : a = SubSeq(s, 1, c)
  OBVIOUS
<1>2. PICK b : b = SubSeq(s, c + 1, Len(s))
  OBVIOUS
<1>3. /\ a \in Seq(C) /\ Len(a) = c /\ \A i \in 1..c : a[i] = s[i]
      /\ b \in Seq(C) /\ Len(b) = Len(s) - c /\ \A i \in 1..(Len(s) - c) : b[i] = s[c + i]
  BY <1>1, <1>2
<1>4. PICK r : r = a \o <<p>> \o b
  OBVIOUS
<1>5. /\ r \in Seq(C) /\ Len(r) = Len(s) + 1
      /\ \A i \in 1..c : r[i] = a[i]
      /\ r[c + 1] = p
      /\ \A i \in 1..(Len(s) - c) : r[c + 1 + i] = b[i]
  <2>1. PICK m : m = <<p>>
    OBVIOUS
  <2>2. m \in Seq(C) /\ Len(m) = 1 /\ m[1] = p
    BY <2>1
  <2>3. a \in Seq(C) /\ b \in Seq(C) /\ Len(a) = c /\ Len(b) = Len(s) - c
    BY <1>3
  <2>4. /\ a \o m \in Seq(C) /\ Len(a \o m) = c + 1 /\ (a \o m)[c + 1] = p
        /\ \A i \in 1..c : (a \o m)[i] = a[i]
    <3>1. /\ a \o m \in Seq(C) /\ Len(a \o m) = Len(a) + Len(m)
          /\ \A i \in 1..Len(a) : (a \o m)[i] = a[i]
          /\ \A i \in 1..Len(m) : (a \o m)[Len(a) + i] = m[i]
      <4>1. a \in Seq(C) /\ m \in Seq(C)
        BY <2>2, <2>3
      <4> QED BY <4>1, Joined
    <3>2. 1 \in 1..Len(m)
      BY <2>2
    <3> QED BY <2>2, <2>3, <3>1, <3>2
  <2>5. PICK x : x = a \o m
    OBVIOUS
  <2>6. x \in Seq(C) /\ Len(x) = c + 1 /\ x[c + 1] = p /\ \A i \in 1..c : x[i] = a[i]
    BY <2>4, <2>5, Zenon
  <2>7. /\ x \o b \in Seq(C) /\ Len(x \o b) = c + 1 + (Len(s) - c)
        /\ \A i \in 1..(c + 1) : (x \o b)[i] = x[i]
        /\ \A i \in 1..(Len(s) - c) : (x \o b)[c + 1 + i] = b[i]
    <3>1. /\ x \o b \in Seq(C) /\ Len(x \o b) = Len(x) + Len(b)
          /\ \A i \in 1..Len(x) : (x \o b)[i] = x[i]
          /\ \A i \in 1..Len(b) : (x \o b)[Len(x) + i] = b[i]
      <4>1. x \in Seq(C) /\ b \in Seq(C)
        BY <2>3, <2>6
      <4> QED BY <4>1, Joined
    <3> QED BY <2>3, <2>6, <3>1
  <2>8. r = x \o b
    BY <1>4, <2>1, <2>5, Zenon
  <2>9. /\ r \in Seq(C) /\ Len(r) = c + 1 + (Len(s) - c)
        /\ \A i \in 1..(c + 1) : r[i] = x[i]
        /\ \A i \in 1..(Len(s) - c) : r[c + 1 + i] = b[i]
    BY <2>7, <2>8, Zenon
  <2> QED BY <1>9, <2>6, <2>9
<1>6. InsertAt(s, c + 1, p) = r
  <2>1. c + 1 - 1 = c
    OBVIOUS
  <2>2. InsertAt(s, c + 1, p) = SubSeq(s, 1, c + 1 - 1) \o <<p>> \o SubSeq(s, c + 1, Len(s))
    <3>1. PICK d : d = c + 1
      OBVIOUS
    <3>2. InsertAt(s, d, p) = SubSeq(s, 1, d - 1) \o <<p>> \o SubSeq(s, d, Len(s))
      BY DEF InsertAt
    <3>3. d - 1 = c + 1 - 1
      BY <3>1
    <3> QED BY <3>1, <3>2, <3>3, Zenon
  <2> QED BY <1>1, <1>2, <1>4, <2>1, <2>2, Zenon
<1>7. Elements(r) \subseteq Elements(s) \cup {p}
  <2> SUFFICES ASSUME NEW i \in 1..Len(r), r[i] # p
               PROVE  \E j \in 1..Len(s) : r[i] = s[j]
    BY DEF Elements
  <2>1. CASE i <= c
    <3>1. i \in 1..c /\ i \in 1..Len(s)
      BY <1>9, <2>1
    <3>2. r[i] = a[i] /\ a[i] = s[i]
      BY <1>3, <1>5, <3>1
    <3> QED BY <3>1, <3>2
  <2>2. CASE i > c
    <3>1. i # c + 1
      BY <1>5
    <3>2. i - c - 1 \in 1..(Len(s) - c) /\ c + 1 + (i - c - 1) = i /\ c + (i - c - 1) \in 1..Len(s)
      <4>1. i \in Nat /\ i <= Len(s) + 1 /\ i > c + 1
        BY <1>5, <1>9, <2>2, <3>1
      <4> QED BY <1>9, <4>1
    <3>3. r[i] = s[c + (i - c - 1)]
      BY <1>3, <1>5, <3>2
    <3> QED BY <3>2, <3>3
  <2> QED BY <2>1, <2>2
<1>8. Elements(s) \cup {p} \subseteq Elements(r)
  <2>1. p \in Elements(r)
    <3>1. c + 1 \in 1..Len(r)
      BY <1>5
    <3> QED BY <1>5, <3>1 DEF Elements
  <2>2. ASSUME NEW j \in 1..Len(s)
        PROVE  \E i \in 1..Len(r) : r[i] = s[j]
    <3>1. CASE j <= c
      BY <1>3, <1>5, <3>1
    <3>2. CASE j > c
      <4>1. j - c \in 1..(Len(s) - c) /\ c + (j - c) = j /\ c + 1 + (j - c) \in 1..Len(r)
        BY <1>5, <3>2
      <4>2. r[c + 1 + (j - c)] = s[j]
        BY <1>3, <1>5, <4>1
      <4> QED BY <4>1, <4>2
    <3> QED BY <3>1, <3>2
  <2> QED BY <2>1, <2>2 DEF Elements
<1>10. Elements(r) = Elements(s) \cup {p}
  BY <1>7, <1>8
<1> QED BY <1>5, <1>6, <1>10 DEF Grown

\* So does one step of the insertion sort.
LEMMA InsertKeeps ==
  ASSUME NEW C, NEW t, NEW s \in Seq(C), NEW p \in C
  PROVE  Grown(C, Insert(t, s, p), s, p)
<1> DEFINE stay == {0} \cup {i \in 1..Len(s) : ~Precedes(t, p, s[i])}
           c == CHOOSE i \in stay : \A j \in stay : j <= i
<1>1. stay \in SUBSET Nat /\ stay # {} /\ (\A x \in stay : x <= Len(s)) /\ Len(s) \in Nat
  OBVIOUS
<1>2. Insert(t, s, p) = InsertAt(s, c + 1, p)
  BY DEF Insert
<1> HIDE DEF stay
<1>3. \E i \in stay : \A j \in stay : j <= i
  BY <1>1, GreatestNatural
<1>4. c \in stay
  BY <1>3
<1> HIDE DEF c
<1>5. c \in 0..Len(s)
  BY <1>1, <1>4
<1>6. PICK d \in 0..Len(s) : d = c
  BY <1>5
<1>7. Insert(t, s, p) = InsertAt(s, d + 1, p)
  BY <1>2, <1>6
<1> QED BY <1>7, InsertedElements

\* Sorting loses no child and invents none.
LEMMA SortedKeeps ==
  ASSUME NEW C, NEW t, NEW found \in Seq(C)
  PROVE  /\ Sorted(t, found) \in Seq(C)
         /\ Len(Sorted(t, found)) = Len(found)
         /\ Elements(Sorted(t, found)) = Elements(found)
<1> DEFINE n == Len(found)
           F == Seq(C)
           step == [i \in 1..n |-> [s \in F |-> Insert(t, s, found[i])]]
           Rec(f) == f = [i \in 0..n |-> IF i = 0 THEN << >> ELSE Insert(t, f[i - 1], found[i])]
           upTo == CHOOSE f : Rec(f)
<1>1. n \in Nat /\ \A i \in 1..n : found[i] \in C
  OBVIOUS
<1>2. << >> \in F
  OBVIOUS
<1>15. \A s \in Seq(C), x \in C : Grown(C, Insert(t, s, x), s, x)
  BY InsertKeeps
<1>4. step \in [1..n -> [F -> F]]
  <2>1. \A i \in 1..n : \A s \in F : Insert(t, s, found[i]) \in F
    BY <1>1, <1>15 DEF Grown
  <2> HIDE DEF F
  <2> QED BY <1>1, <2>1
<1>5. Steps(n, F, << >>, step)
  <2> HIDE DEF F, step
  <2> QED BY <1>1, <1>2, <1>4 DEF Steps
<1>6. PICK f : Takes(n, F, << >>, step, f)
  <2> HIDE DEF F, step
  <2> QED BY <1>5, RecursionExists
<1>7. Rec(f)
  <2>1. f \in [0..n -> F] /\ f[0] = << >> /\ \A i \in 1..n : f[i] = step[i][f[i - 1]]
    <3> HIDE DEF F, step
    <3> QED BY <1>6 DEF Takes
  <2> HIDE DEF F
  <2>2. ASSUME NEW i \in 1..n
        PROVE  f[i] = Insert(t, f[i - 1], found[i])
    <3> HIDE DEF n
    <3>1. i - 1 \in 0..n
      BY <1>1
    <3>2. f[i - 1] \in F
      BY <2>1, <3>1
    <3>3. step[i] = [x \in F |-> Insert(t, x, found[i])]
      OBVIOUS
    <3> HIDE DEF step
    <3>4. step[i][f[i - 1]] = Insert(t, f[i - 1], found[i])
      BY <3>2, <3>3
    <3> QED BY <2>1, <3>4
  <2> QED BY <1>1, <2>1, <2>2
<1>8. Rec(upTo)
  <2> HIDE DEF Rec
  <2> QED BY <1>7
<1>9. Sorted(t, found) = upTo[n]
  BY DEF Sorted
<1>10. upTo[0] = << >> /\ \A i \in 1..n : upTo[i] = Insert(t, upTo[i - 1], found[i])
  <2> HIDE DEF upTo
  <2> QED BY <1>1, <1>8
<1> HIDE DEF upTo, n, F, step, Rec
<1> DEFINE Good == {i \in 0..n : /\ upTo[i] \in Seq(C) /\ Len(upTo[i]) = i
                                 /\ Elements(upTo[i]) = {found[j] : j \in 1..i}}
<1>12. 0 \in Good
  <2>1. PICK e : e = << >>
    OBVIOUS
  <2>2. e \in Seq(C) /\ Len(e) = 0
    BY <2>1
  <2>3. Elements(e) = {} /\ {found[j] : j \in 1..0} = {}
    BY <2>2 DEF Elements
  <2>4. upTo[0] = e /\ 0 \in 0..n
    BY <1>1, <1>10, <2>1
  <2> QED BY <2>2, <2>3, <2>4
<1>13. ASSUME NEW i \in 1..n, i - 1 \in Good
       PROVE  i \in Good
  <2>1. PICK s \in Seq(C) : s = upTo[i - 1] /\ Len(s) = i - 1 /\ Elements(s) = {found[j] : j \in 1..(i - 1)}
    BY <1>13
  <2>2. found[i] \in C /\ upTo[i] = Insert(t, s, found[i])
    BY <1>1, <1>10, <2>1
  <2>3. /\ upTo[i] \in Seq(C) /\ Len(upTo[i]) = i - 1 + 1
        /\ Elements(upTo[i]) = {found[j] : j \in 1..(i - 1)} \cup {found[i]}
    <3>1. PICK x \in C : x = found[i]
      BY <2>2
    <3>2. Grown(C, Insert(t, s, x), s, x)
      BY <1>15
    <3> QED BY <2>1, <2>2, <3>1, <3>2, Zenon DEF Grown
  <2>4. {found[j] : j \in 1..(i - 1)} \cup {found[i]} = {found[j] : j \in 1..i}
    <3>1. \A j \in 1..i : j = i \/ j \in 1..(i - 1)
      BY <1>1
    <3>2. i \in 1..i /\ \A j \in 1..(i - 1) : j \in 1..i
      BY <1>1
    <3> QED BY <3>1, <3>2, Zenon
  <2> QED BY <1>1, <2>3, <2>4
<1>14. n \in Good
  <2> HIDE DEF Good
  <2>1. \A i \in 0..n : i \in Good
    BY <1>1, <1>12, <1>13, InductionTo
  <2> QED BY <1>1, <2>1
<1> QED BY <1>9, <1>14 DEF n, Elements

---------------------------------------------------------------------------
(* Trees *)

\* What SplitPath keeps of a path.
Part == Component \ {<< >>, <<".">>}

\* splitPath drops empty components and those of one dot.
LEMMA SplitPathTyped ==
  ASSUME NEW path \in Seq(Component)
  PROVE  SplitPath(path) \in Seq(Part)
<1> DEFINE n == Len(path)
           F == Seq(Part)
           next(i, s) == IF path[i] \in {<< >>, <<".">>} THEN s ELSE Append(s, path[i])
           step == [i \in 1..n |-> [s \in F |-> next(i, s)]]
           Rec(f) == f = [i \in 0..n |-> IF i = 0 THEN << >> ELSE next(i, f[i - 1])]
           kept == CHOOSE f : Rec(f)
<1>1. n \in Nat /\ \A i \in 1..n : path[i] \in Component
  OBVIOUS
<1>2. << >> \in F
  OBVIOUS
<1>3. \A i \in 1..n : \A s \in F : next(i, s) \in F
  <2> TAKE i \in 1..n
  <2> TAKE s \in F
  <2>1. CASE path[i] \in {<< >>, <<".">>}
    BY <2>1
  <2>2. CASE path[i] \notin {<< >>, <<".">>}
    <3>1. PICK c \in Part : c = path[i]
      BY <1>1, <2>2 DEF Part
    <3>2. Append(s, c) \in F
      OBVIOUS
    <3> QED BY <2>2, <3>1, <3>2
  <2> QED BY <2>1, <2>2
<1>4. step \in [1..n -> [F -> F]]
  <2> HIDE DEF F, next
  <2> QED BY <1>1, <1>3
<1>5. Steps(n, F, << >>, step)
  <2> HIDE DEF F, step
  <2> QED BY <1>1, <1>2, <1>4 DEF Steps
<1>6. PICK f : Takes(n, F, << >>, step, f)
  <2> HIDE DEF F, step
  <2> QED BY <1>5, RecursionExists
<1>7. f \in [0..n -> F] /\ f[0] = << >> /\ \A i \in 1..n : f[i] = step[i][f[i - 1]]
  <2> HIDE DEF F, step
  <2> QED BY <1>6 DEF Takes
<1>8. \A i \in 1..n : f[i] = next(i, f[i - 1])
  <2> TAKE i \in 1..n
  <2> HIDE DEF n, F, next
  <2>1. i - 1 \in 0..n
    BY <1>1
  <2>2. f[i - 1] \in F
    BY <1>7, <2>1
  <2>3. step[i] = [x \in F |-> next(i, x)]
    OBVIOUS
  <2> HIDE DEF step
  <2>4. step[i][f[i - 1]] = next(i, f[i - 1])
    BY <2>2, <2>3
  <2> QED BY <1>7, <2>4
<1>9. Rec(f)
  <2> HIDE DEF F, next
  <2> QED BY <1>1, <1>7, <1>8
<1>10. Rec(kept)
  <2> HIDE DEF Rec
  <2> QED BY <1>9
<1>11. SplitPath(path) = kept[n]
  BY DEF SplitPath
<1>12. kept[0] = << >> /\ \A i \in 1..n : kept[i] = next(i, kept[i - 1])
  <2> HIDE DEF kept, next
  <2> QED BY <1>1, <1>10
<1> HIDE DEF kept, n, F, step, Rec, next
<1>13. kept[0] \in F
  BY <1>2, <1>12
<1>14. \A i \in 1..n : kept[i - 1] \in F => kept[i] \in F
  BY <1>3, <1>12
<1>15. \A i \in 0..n : kept[i] \in F
  BY <1>1, <1>13, <1>14, StaysIn
<1>16. kept[n] \in F
  BY <1>1, <1>15
<1> QED BY <1>11, <1>16 DEF F

\* What a node may hold.
Nodes == [isDir : BOOLEAN, data : Contents \cup {NoData}, id : Seq(Chars)]

\* A tree of at most n children to a directory.
TreeInv(t, n) ==
  /\ t \in [DOMAIN t -> Nodes]
  /\ IsFiniteSet(DOMAIN t)
  /\ DOMAIN t \in SUBSET Seq(Part)
  /\ << >> \in DOMAIN t /\ t[<< >>].isDir
  /\ \A p \in DOMAIN t \ {<< >>} : Front(p) \in DOMAIN t /\ t[Front(p)].isDir
  /\ \A d \in Seq(Part) : IsFiniteSet(Children(t, d)) /\ Cardinality(Children(t, d)) <= n

\* A path that is not the root has a name and a directory it is in.
LEMMA LastTyped ==
  ASSUME NEW S, NEW p \in Seq(S), p # << >>
  PROVE  /\ Len(p) \in Nat /\ Len(p) # 0
         /\ Last(p) \in S
         /\ Front(p) \in Seq(S) /\ Len(Front(p)) = Len(p) - 1
<1>1. Len(p) \in Nat /\ Len(p) # 0
  BY EmptySequence
<1>2. Last(p) \in S
  BY <1>1 DEF Last
<1>6. Len(p) - 1 \in Nat /\ Len(p) - 1 <= Len(p)
  BY <1>1
<1>3. PICK n \in Nat : n = Len(p) - 1 /\ n <= Len(p)
  BY <1>6
<1>4. SubSeq(p, 1, n) \in Seq(S) /\ Len(SubSeq(p, 1, n)) = n
  BY <1>3
<1>5. Front(p) = SubSeq(p, 1, n)
  BY <1>3 DEF Front
<1> QED BY <1>1, <1>2, <1>3, <1>4, <1>5

\* The children of a directory have names to make identifiers of.
LEMMA ChildrenNameable ==
  ASSUME NEW t, NEW n, TreeInv(t, n), NEW d \in Seq(Part)
  PROVE  Nameable(t, Children(t, d))
<1> SUFFICES ASSUME NEW p \in DOMAIN t, p # << >>
             PROVE  t[p].isDir \in BOOLEAN /\ Last(p) \in Strings /\ Last(p) # << >>
  BY DEF Nameable, Children
<1>1. t[p] \in Nodes /\ p \in Seq(Part)
  BY DEF TreeInv
<1>2. Last(p) \in Part
  BY <1>1, LastTyped
<1>3. t[p].isDir \in BOOLEAN
  BY <1>1 DEF Nodes
<1> QED BY <1>2, <1>3 DEF Part, Component, Strings

\* A sequence of all the children is a sequence of each of them.
LEMMA FoundAll ==
  ASSUME NEW C, IsFiniteSet(C), NEW found \in SetToSeqs(C)
  PROVE  found \in Seq(C) /\ Len(found) = Cardinality(C) /\ Elements(found) = C
<1> DEFINE n == Cardinality(C)
<1>1. n \in Nat
  BY FS_CardinalityType
<1>2. found \in [1..n -> C] /\ \A i, j \in 1..n : i # j => found[i] # found[j]
  BY DEF SetToSeqs
<1> HIDE DEF n
<1>3. found \in Seq(C) /\ Len(found) = n
  BY <1>1, <1>2
<1>4. ASSUME NEW x \in C, \A i \in 1..n : found[i] # x
      PROVE  FALSE
  <2> DEFINE D == C \ {x}
  <2>1. IsFiniteSet(D) /\ Cardinality(D) = n - 1
    BY FS_RemoveElement DEF n
  <2>2. found \in [1..n -> D]
    BY <1>2, <1>4
  <2>3. PICK S : S = 1..n
    OBVIOUS
  <2>4. IsFiniteSet(S) /\ Cardinality(S) = n
    BY <1>1, <2>3, FS_Interval
  <2>5. Cardinality(D) < Cardinality(S) /\ found \in [S -> D]
    BY <1>1, <2>1, <2>2, <2>3, <2>4
  <2> HIDE DEF D
  <2>6. \E i, j \in S : i # j /\ found[i] = found[j]
    BY <2>1, <2>4, <2>5, FS_PigeonHole
  <2> QED BY <1>2, <2>3, <2>6
<1>5. Elements(found) = C
  <2>1. Elements(found) \subseteq C
    BY <1>2, <1>3 DEF Elements
  <2>2. \A x \in C : \E i \in 1..n : found[i] = x
    BY <1>4
  <2>3. C \subseteq Elements(found)
    BY <1>3, <2>2 DEF Elements
  <2> QED BY <2>1, <2>3
<1> QED BY <1>3, <1>5 DEF n

\* What one directory's children are assigned.
Named(t, C, f) ==
  /\ DOMAIN f = C
  /\ \A q \in C : Fits(f[q]) /\ f[q] \in Seq(Chars)
  /\ \A q, r \in C : q # r => f[q] # f[r]

\* Whatever order the map of the children is iterated in, they are named apart.
LEMMA AssignmentsNamed ==
  ASSUME NEW t, NEW n \in 0..MaxAdds, TreeInv(t, n), NEW d \in Seq(Part), NEW f \in Assignments(t, d)
  PROVE  Named(t, Children(t, d), f)
<1> DEFINE C == Children(t, d)
<1>1. IsFiniteSet(C) /\ Cardinality(C) <= n /\ Nameable(t, C)
  BY ChildrenNameable DEF TreeInv
<1>2. PICK found \in SetToSeqs(C) : f = Assigned(t, Sorted(t, found))
  BY DEF Assignments, SortedChildren
<1> HIDE DEF C
<1>3. found \in Seq(C) /\ Len(found) = Cardinality(C) /\ Elements(found) = C
  BY <1>1, <1>2, FoundAll
<1>4. PICK order \in Seq(C) : order = Sorted(t, found) /\ Len(order) = Len(found) /\ Elements(order) = Elements(found)
  BY <1>3, SortedKeeps
<1>5. Numbered(t, order, Len(order), f)
  BY <1>1, <1>2, <1>4, AssignedNumbered
<1>6. PICK m : m = Len(order)
  OBVIOUS
<1>7. m \in Nat /\ m <= n /\ Elements(order) = C /\ n \in Nat /\ n <= MaxAdds /\ MaxAdds \in Nat
  <2>1. Cardinality(C) \in Nat
    BY <1>1, FS_CardinalityType
  <2>2. m = Cardinality(C)
    BY <1>3, <1>4, <1>6, Zenon
  <2>3. Elements(order) = C
    BY <1>3, <1>4, Zenon
  <2> QED BY <1>1, <2>1, <2>2, <2>3, BuilderAssumption
<1>8. /\ DOMAIN f = {order[j] : j \in 1..m}
      /\ \A q \in DOMAIN f : \E k \in 1..m : f[q] = Candidate(t, q, k)
      /\ \A q, r \in DOMAIN f : q # r => f[q] # f[r]
  BY <1>5, <1>6, Zenon DEF Numbered
<1>9. DOMAIN f = C
  BY <1>6, <1>7, <1>8, Zenon DEF Elements
<1>10. ASSUME NEW q \in C
       PROVE  Fits(f[q]) /\ f[q] \in Seq(Chars)
  <2>1. PICK k \in 1..m : f[q] = Candidate(t, q, k)
    BY <1>8, <1>9
  <2>2. k \in Nat \ {0} /\ k \in 1..MaxAdds
    BY <1>7
  <2>3. Len(Decimal(k)) < NameWidth
    BY <2>2, BuilderAssumption
  <2>4. t[q].isDir \in BOOLEAN /\ Last(q) \in Strings /\ Last(q) # << >>
    BY <1>1 DEF Nameable
  <2>5. Fits(Candidate(t, q, k)) /\ Candidate(t, q, k) \in Seq(Chars)
    BY <2>2, <2>3, <2>4, CandidateFits
  <2> QED BY <2>1, <2>5
<1> QED BY <1>8, <1>9, <1>10, Zenon DEF Named, C

\* The siblings of t have identifiers of their own, of level 1.
Distinct(t) ==
  /\ \A p, q \in DOMAIN t \ {<< >>} : p # q /\ Front(p) = Front(q) => t[p].id # t[q].id
  /\ \A p \in DOMAIN t \ {<< >>} : Fits(t[p].id)

(* assignIdentifiers changes nothing but the identifiers, and makes them distinct. *)
LEMMA IdentifiedKeeps ==
  ASSUME NEW t, NEW n \in 0..MaxAdds, TreeInv(t, n), NEW u \in Identified(t)
  PROVE  TreeInv(u, n) /\ Distinct(u)
<1> DEFINE dirs == Directories(t)
<1>1. PICK f : /\ \A d \in dirs : f[d] \in Assignments(t, d)
               /\ u = [p \in DOMAIN t |-> IF p = << >> THEN t[p]
                                          ELSE [t[p] EXCEPT !.id = f[Front(p)][p]]]
  BY DEF Identified
<1>2. /\ t \in [DOMAIN t -> Nodes]
      /\ IsFiniteSet(DOMAIN t)
      /\ DOMAIN t \in SUBSET Seq(Part)
      /\ << >> \in DOMAIN t /\ t[<< >>].isDir
      /\ \A p \in DOMAIN t \ {<< >>} : Front(p) \in DOMAIN t /\ t[Front(p)].isDir
      /\ \A d \in Seq(Part) : IsFiniteSet(Children(t, d)) /\ Cardinality(Children(t, d)) <= n
  BY DEF TreeInv
<1>3. \A d \in dirs : Named(t, Children(t, d), f[d])
  <2> TAKE d \in dirs
  <2>1. d \in Seq(Part) /\ f[d] \in Assignments(t, d)
    BY <1>1, <1>2 DEF Directories
  <2> QED BY <2>1, AssignmentsNamed
<1>4. ASSUME NEW p \in DOMAIN t \ {<< >>}
      PROVE  Front(p) \in dirs /\ p \in Children(t, Front(p))
  BY <1>2 DEF Directories, Children
<1> HIDE DEF dirs
<1>5. ASSUME NEW p \in DOMAIN t \ {<< >>}
      PROVE  Fits(f[Front(p)][p]) /\ f[Front(p)][p] \in Seq(Chars)
  BY <1>3, <1>4 DEF Named
<1>6. DOMAIN u = DOMAIN t
  BY <1>1
<1>7. ASSUME NEW p \in DOMAIN t
      PROVE  /\ u[p] \in Nodes /\ u[p].isDir = t[p].isDir
             /\ p # << >> => u[p].id = f[Front(p)][p]
  <2>1. t[p] \in Nodes
    BY <1>2
  <2>2. CASE p = << >>
    BY <1>1, <2>1, <2>2
  <2>3. CASE p # << >>
    <3>1. PICK x \in Seq(Chars) : x = f[Front(p)][p]
      BY <1>5, <2>3
    <3>2. u[p] = [t[p] EXCEPT !.id = x]
      BY <1>1, <2>3, <3>1
    <3>3. PICK r \in Nodes : r = t[p]
      BY <2>1
    <3>4. [r EXCEPT !.id = x] \in Nodes /\ [r EXCEPT !.id = x].isDir = r.isDir /\ [r EXCEPT !.id = x].id = x
      BY DEF Nodes
    <3> QED BY <2>3, <3>1, <3>2, <3>3, <3>4, Zenon
  <2> QED BY <2>2, <2>3
<1>8. u \in [DOMAIN u -> Nodes]
  <2>1. u = [p \in DOMAIN t |-> u[p]]
    BY <1>1
  <2> QED BY <1>6, <1>7, <2>1
<1>9. \A d \in Seq(Part) : Children(u, d) = Children(t, d)
  BY <1>6 DEF Children
<1>10. << >> \in DOMAIN u /\ u[<< >>].isDir
  BY <1>2, <1>6, <1>7
<1>11. \A p \in DOMAIN u \ {<< >>} : Front(p) \in DOMAIN u /\ u[Front(p)].isDir
  BY <1>2, <1>6, <1>7
<1>12. TreeInv(u, n)
  BY <1>2, <1>6, <1>8, <1>9, <1>10, <1>11, Zenon DEF TreeInv
<1>13. ASSUME NEW p \in DOMAIN u \ {<< >>}, NEW q \in DOMAIN u \ {<< >>}, p # q, Front(p) = Front(q)
       PROVE  u[p].id # u[q].id
  <2>1. PICK d \in dirs : d = Front(p) /\ p \in Children(t, d) /\ q \in Children(t, d)
    BY <1>4, <1>6, <1>13
  <2>2. f[d][p] # f[d][q]
    BY <1>3, <1>13, <2>1, Zenon DEF Named
  <2>3. u[p].id = f[d][p] /\ u[q].id = f[d][q]
    BY <1>6, <1>7, <1>13, <2>1
  <2> QED BY <2>2, <2>3
<1>14. \A p \in DOMAIN u \ {<< >>} : Fits(u[p].id)
  BY <1>5, <1>6, <1>7
<1> QED BY <1>12, <1>13, <1>14 DEF Distinct

---------------------------------------------------------------------------
(* AddDir and AddFile *)

\* The directories on the way along a path.
LEMMA AncestorsAre ==
  ASSUME NEW path \in Seq(Part)
  PROVE  /\ << >> \in Ancestors(path) /\ path \in Ancestors(path)
         /\ Ancestors(path) \in SUBSET Seq(Part) /\ IsFiniteSet(Ancestors(path))
         /\ \A q \in Ancestors(path) : Len(q) \in 0..Len(path) /\ q = SubSeq(path, 1, Len(q))
         /\ \A q \in Ancestors(path) \ {<< >>} : Front(q) \in Ancestors(path)
<1>1. Len(path) \in Nat /\ 0 \in 0..Len(path) /\ Len(path) \in 0..Len(path)
  BY EmptySequence
<1>2. \A k \in 0..Len(path) : SubSeq(path, 1, k) \in Seq(Part) /\ Len(SubSeq(path, 1, k)) = k
  BY PrefixTyped
<1>3. SubSeq(path, 1, 0) = << >> /\ SubSeq(path, 1, Len(path)) = path
  OBVIOUS
<1>4. << >> \in Ancestors(path) /\ path \in Ancestors(path)
  BY <1>1, <1>3 DEF Ancestors
<1>5. Ancestors(path) \in SUBSET Seq(Part)
  BY <1>2 DEF Ancestors
<1>6. \A q \in Ancestors(path) : Len(q) \in 0..Len(path) /\ q = SubSeq(path, 1, Len(q))
  BY <1>2 DEF Ancestors
<1>7. ASSUME NEW q \in Ancestors(path), q # << >>
      PROVE  Front(q) \in Ancestors(path)
  <2>1. PICK k \in 0..Len(path) : q = SubSeq(path, 1, k)
    BY DEF Ancestors
  <2>2. Len(q) = k /\ q \in Seq(Part)
    BY <1>2, <2>1
  <2>3. k # 0
    BY <1>7, <2>2, EmptySequence
  <2>4. k - 1 \in 0..k /\ k - 1 \in 0..Len(path)
    BY <1>1, <2>3
  <2>5. SubSeq(SubSeq(path, 1, k), 1, k - 1) = SubSeq(path, 1, k - 1)
    BY <2>4, PrefixOfPrefix
  <2>6. Front(q) = SubSeq(q, 1, k - 1)
    BY <2>2 DEF Front
  <2>7. Front(q) = SubSeq(path, 1, k - 1)
    BY <2>1, <2>5, <2>6
  <2> QED BY <2>4, <2>7 DEF Ancestors
<1>8. IsFiniteSet(Ancestors(path))
  <2> DEFINE f == [k \in 0..Len(path) |-> SubSeq(path, 1, k)]
  <2>1. IsFiniteSet(0..Len(path))
    BY <1>1, FS_Interval
  <2>2. f \in Surjection(0..Len(path), Ancestors(path))
    <3>1. f \in [0..Len(path) -> Ancestors(path)]
      BY DEF Ancestors
    <3>2. \A q \in Ancestors(path) : \E k \in 0..Len(path) : f[k] = q
      BY DEF Ancestors
    <3> HIDE DEF f
    <3> QED BY <3>1, <3>2 DEF Surjection
  <2> HIDE DEF f
  <2> QED BY <2>1, <2>2, FS_Surjection
<1> QED BY <1>4, <1>5, <1>6, <1>7, <1>8

(* A path adds one child to a directory at most. *)
LEMMA OneChildMore ==
  ASSUME NEW n \in Nat, TreeInv(tree, n), NEW path \in Seq(Part),
         NEW u, DOMAIN u \subseteq DOMAIN tree \cup Ancestors(path), NEW d \in Seq(Part)
  PROVE  IsFiniteSet(Children(u, d)) /\ Cardinality(Children(u, d)) <= n + 1
<1> DEFINE C == Children(tree, d)
<1>1. IsFiniteSet(C) /\ Cardinality(C) <= n /\ Cardinality(C) \in Nat
  BY FS_CardinalityType DEF TreeInv
<1>2. PICK x : x = SubSeq(path, 1, Len(d) + 1)
  OBVIOUS
<1>3. Children(u, d) \subseteq C \cup {x}
  <2> SUFFICES ASSUME NEW p \in DOMAIN u, p # << >>, Front(p) = d, p \notin DOMAIN tree
               PROVE  p = x
    BY DEF Children
  <2>1. p \in Ancestors(path)
    OBVIOUS
  <2>2. p \in Seq(Part) /\ p = SubSeq(path, 1, Len(p))
    BY <2>1, AncestorsAre
  <2>3. Len(d) = Len(p) - 1 /\ Len(p) \in Nat
    BY <2>2, LastTyped
  <2>4. Len(p) = Len(d) + 1
    BY <2>3
  <2> QED BY <1>2, <2>2, <2>4
<1> HIDE DEF C
<1>4. IsFiniteSet(C \cup {x}) /\ Cardinality(C \cup {x}) <= n + 1
  <2>1. IsFiniteSet(C \cup {x}) /\ Cardinality(C \cup {x}) = IF x \in C THEN Cardinality(C) ELSE Cardinality(C) + 1
    BY <1>1, FS_AddElement
  <2> QED BY <1>1, <2>1
<1>5. /\ IsFiniteSet(Children(u, d)) /\ Cardinality(Children(u, d)) <= Cardinality(C \cup {x})
      /\ Cardinality(Children(u, d)) \in Nat /\ Cardinality(C \cup {x}) \in Nat
  BY <1>3, <1>4, FS_Subset, FS_CardinalityType
<1> QED BY <1>4, <1>5

\* What newNode makes.
LEMMA NewNodes ==
  NewDir \in Nodes /\ NewDir.isDir = TRUE
  /\ \A data \in Contents : NewFile(data) \in Nodes /\ NewFile(data).isDir = FALSE
<1>1. << >> \in Seq(Chars)
  OBVIOUS
<1>2. PICK x \in Contents \cup {NoData} : x = NoData
  OBVIOUS
<1>3. NewDir \in Nodes /\ NewDir.isDir = TRUE
  BY <1>1, <1>2 DEF NewDir, Nodes
<1>4. \A data \in Contents : NewFile(data) \in Nodes /\ NewFile(data).isDir = FALSE
  BY <1>1 DEF NewFile, Nodes
<1> QED BY <1>3, <1>4

\* mkdirAll keeps a tree a tree, with one child more at most.
LEMMA MkdirKeeps ==
  ASSUME NEW n \in Nat, TreeInv(tree, n), NEW path \in Seq(Part), ~Blocked(path)
  PROVE  /\ TreeInv(MkdirAll(path), n + 1)
         /\ path \in DOMAIN MkdirAll(path) /\ MkdirAll(path)[path].isDir
<1>1. PICK u : u = MkdirAll(path)
  OBVIOUS
<1>2. DOMAIN u = DOMAIN tree \cup Ancestors(path)
  BY <1>1 DEF MkdirAll
<1>3. \A q \in DOMAIN u : u[q] = IF q \in DOMAIN tree THEN tree[q] ELSE NewDir
  BY <1>1, <1>2 DEF MkdirAll
<1>4. /\ tree \in [DOMAIN tree -> Nodes] /\ IsFiniteSet(DOMAIN tree)
      /\ DOMAIN tree \in SUBSET Seq(Part)
      /\ << >> \in DOMAIN tree /\ tree[<< >>].isDir
      /\ \A p \in DOMAIN tree \ {<< >>} : Front(p) \in DOMAIN tree /\ tree[Front(p)].isDir
  BY DEF TreeInv
<1>5. u \in [DOMAIN u -> Nodes]
  <2>1. u = [q \in DOMAIN u |-> u[q]]
    BY <1>1 DEF MkdirAll
  <2>2. \A q \in DOMAIN u : u[q] \in Nodes
    BY <1>3, <1>4, NewNodes
  <2> QED BY <2>1, <2>2
<1>6. DOMAIN u \in SUBSET Seq(Part)
  BY <1>2, <1>4, AncestorsAre
<1>7. << >> \in DOMAIN u /\ u[<< >>].isDir
  BY <1>2, <1>3, <1>4
<1>8. \A q \in Ancestors(path) : q \in DOMAIN u /\ u[q].isDir
  BY <1>2, <1>3, NewNodes DEF Blocked
<1>9. ASSUME NEW p \in DOMAIN u \ {<< >>}
      PROVE  Front(p) \in DOMAIN u /\ u[Front(p)].isDir
  <2>1. CASE p \in DOMAIN tree
    BY <1>2, <1>3, <1>4, <2>1
  <2>2. CASE p \in Ancestors(path)
    <3>1. Front(p) \in Ancestors(path)
      BY <2>2, AncestorsAre
    <3> QED BY <3>1, <1>8
  <2> QED BY <1>2, <2>1, <2>2
<1>10. \A d \in Seq(Part) : IsFiniteSet(Children(u, d)) /\ Cardinality(Children(u, d)) <= n + 1
  BY <1>2, OneChildMore
<1>11. path \in DOMAIN u /\ u[path].isDir
  BY <1>8, AncestorsAre
<1>12. IsFiniteSet(DOMAIN u)
  <2>1. IsFiniteSet(Ancestors(path)) /\ IsFiniteSet(DOMAIN tree)
    BY <1>4, AncestorsAre
  <2>2. IsFiniteSet(DOMAIN tree \cup Ancestors(path))
    BY <2>1, FS_Union
  <2> QED BY <1>2, <2>2
<1> QED BY <1>1, <1>12, <1>5, <1>6, <1>7, <1>9, <1>10, <1>11, Zenon DEF TreeInv

\* The way to a file is the way to its directory, and the file.
LEMMA FrontIs ==
  ASSUME NEW path \in Seq(Part), path # << >>
  PROVE  Ancestors(Front(path)) \cup {path} \subseteq Ancestors(path)
<1>1. Len(path) \in Nat /\ Len(path) # 0
  BY LastTyped
<1>2. PICK n : n = Len(path) - 1
  OBVIOUS
<1>3. n \in Nat /\ n \in 0..Len(path)
  BY <1>1, <1>2
<1>4. Front(path) = SubSeq(path, 1, n)
  BY <1>2 DEF Front
<1>5. Len(SubSeq(path, 1, n)) = n
  BY <1>3, PrefixTyped
<1>6. ASSUME NEW k \in 0..n
      PROVE  SubSeq(Front(path), 1, k) \in Ancestors(path)
  <2>1. SubSeq(Front(path), 1, k) = SubSeq(path, 1, k)
    BY <1>3, <1>4, PrefixOfPrefix
  <2>2. k \in 0..Len(path)
    BY <1>1, <1>3
  <2> QED BY <2>1, <2>2 DEF Ancestors
<1>7. path \in Ancestors(path)
  BY AncestorsAre
<1> QED BY <1>4, <1>5, <1>6, <1>7 DEF Ancestors

\* So does AddFile, which never replaces a directory.
LEMMA AddFileKeeps ==
  ASSUME NEW n \in Nat, TreeInv(tree, n), NEW path \in Seq(Part), path # << >>,
         ~Blocked(Front(path)), ~(path \in DOMAIN tree /\ tree[path].isDir),
         NEW data \in Contents
  PROVE  TreeInv(With(MkdirAll(Front(path)), path, NewFile(data)), n + 1)
<1>1. PICK m : m = MkdirAll(Front(path))
  OBVIOUS
<1>2. PICK u : u = With(m, path, NewFile(data))
  OBVIOUS
<1>3. Front(path) \in Seq(Part) /\ Len(path) \in Nat /\ Len(Front(path)) = Len(path) - 1
  BY LastTyped
<1>4. TreeInv(m, n + 1) /\ Front(path) \in DOMAIN m /\ m[Front(path)].isDir
  BY <1>1, <1>3, MkdirKeeps
<1>5. /\ m \in [DOMAIN m -> Nodes] /\ IsFiniteSet(DOMAIN m)
      /\ DOMAIN m \in SUBSET Seq(Part)
      /\ << >> \in DOMAIN m /\ m[<< >>].isDir
      /\ \A p \in DOMAIN m \ {<< >>} : Front(p) \in DOMAIN m /\ m[Front(p)].isDir
  BY <1>4 DEF TreeInv
<1>6. DOMAIN m = DOMAIN tree \cup Ancestors(Front(path))
  BY <1>1 DEF MkdirAll
<1>7. DOMAIN u = DOMAIN m \cup {path}
  BY <1>2 DEF With
<1>8. \A q \in DOMAIN u : u[q] = IF q = path THEN NewFile(data) ELSE m[q]
  BY <1>2, <1>7 DEF With
<1>9. path \notin DOMAIN m \/ ~m[path].isDir
  <2>1. CASE path \in DOMAIN tree
    <3>1. m[path] = tree[path]
      BY <1>1, <2>1 DEF MkdirAll
    <3> QED BY <2>1, <3>1
  <2>2. CASE path \notin DOMAIN tree
    <3>1. \A q \in Ancestors(Front(path)) : Len(q) <= Len(Front(path)) /\ Len(q) \in Nat
      BY <1>3, AncestorsAre
    <3>2. path \notin Ancestors(Front(path))
      BY <1>3, <3>1
    <3> QED BY <1>6, <2>2, <3>2
  <2> QED BY <2>1, <2>2
<1>10. u \in [DOMAIN u -> Nodes]
  <2>1. u = [q \in DOMAIN u |-> u[q]]
    BY <1>2 DEF With
  <2>2. \A q \in DOMAIN u : u[q] \in Nodes
    BY <1>5, <1>7, <1>8, NewNodes
  <2> QED BY <2>1, <2>2
<1>11. DOMAIN u \in SUBSET Seq(Part)
  BY <1>5, <1>7
<1>12. \A d \in DOMAIN m : m[d].isDir => d \in DOMAIN u /\ u[d].isDir
  BY <1>7, <1>8, <1>9
<1>13. << >> \in DOMAIN u /\ u[<< >>].isDir
  BY <1>5, <1>12
<1>14. \A p \in DOMAIN u \ {<< >>} : Front(p) \in DOMAIN u /\ u[Front(p)].isDir
  BY <1>4, <1>5, <1>7, <1>12
<1>15. DOMAIN u \subseteq DOMAIN tree \cup Ancestors(path)
  BY <1>6, <1>7, FrontIs
<1>16. \A d \in Seq(Part) : IsFiniteSet(Children(u, d)) /\ Cardinality(Children(u, d)) <= n + 1
  BY <1>15, OneChildMore
<1>17. IsFiniteSet(DOMAIN u)
  BY <1>5, <1>7, FS_AddElement
<1> QED BY <1>1, <1>2, <1>10, <1>11, <1>13, <1>14, <1>16, <1>17, Zenon DEF TreeInv

---------------------------------------------------------------------------
(* The invariant: a call adds one child to a directory at most, and the    *)
(* layout that a running WriteTo writes left distinct identifiers.         *)
IInv ==
  /\ adds \in 0..MaxAdds
  /\ TreeInv(tree, adds)
  /\ plan # << >> => Distinct(tree)

\* The builder begins with an empty root.
LEMMA InitIInv == Init => IInv
<1> SUFFICES ASSUME Init
             PROVE  IInv
  OBVIOUS
<1>1. adds = 0 /\ plan = << >> /\ MaxAdds \in Nat
  BY BuilderAssumption DEF Init
<1>2. tree = [p \in {<< >>} |-> NewDir]
  BY DEF Init
<1>3. DOMAIN tree = {<< >>} /\ tree[<< >>] = NewDir
  BY <1>2
<1>4. tree \in [DOMAIN tree -> Nodes] /\ tree[<< >>].isDir
  BY <1>2, <1>3, NewNodes
<1>5. DOMAIN tree \in SUBSET Seq(Part)
  BY <1>3
<1>6. \A d \in Seq(Part) : Children(tree, d) = {}
  BY <1>3 DEF Children
<1>7. \A d \in Seq(Part) : IsFiniteSet(Children(tree, d)) /\ Cardinality(Children(tree, d)) <= 0
  <2>1. PICK S : S = {}
    OBVIOUS
  <2>2. IsFiniteSet(S) /\ Cardinality(S) = 0
    BY <2>1, FS_EmptySet
  <2>3. IsFiniteSet(S) /\ Cardinality(S) <= 0
    BY <2>2
  <2> QED BY <1>6, <2>1, <2>3, Zenon
<1>8. IsFiniteSet(DOMAIN tree)
  BY <1>3, FS_Singleton
<1>9. TreeInv(tree, 0)
  BY <1>3, <1>4, <1>5, <1>7, <1>8 DEF TreeInv
<1> QED BY <1>1, <1>9 DEF IInv

\* The bound on the children is one from above.
LEMMA MoreChildren ==
  ASSUME NEW t, NEW n \in Nat, TreeInv(t, n)
  PROVE  TreeInv(t, n + 1)
<1>1. \A d \in Seq(Part) : IsFiniteSet(Children(t, d)) /\ Cardinality(Children(t, d)) <= n
  BY DEF TreeInv
<1>2. ASSUME NEW d \in Seq(Part)
      PROVE  IsFiniteSet(Children(t, d)) /\ Cardinality(Children(t, d)) <= n + 1
  <2>1. Cardinality(Children(t, d)) \in Nat
    BY <1>1, FS_CardinalityType
  <2> QED BY <1>1, <2>1
<1> QED BY <1>2 DEF TreeInv

\* AddDir and AddFile keep the invariant if they keep the tree.
LEMMA AddingKeeps ==
  ASSUME IInv, Adding, TreeInv(tree', adds + 1)
  PROVE  IInv'
<1>1. plan' = << >> /\ adds' = adds + 1 /\ adds < MaxAdds /\ adds \in 0..MaxAdds /\ MaxAdds \in Nat
  BY BuilderAssumption DEF Adding, IInv
<1>2. adds' \in 0..MaxAdds
  BY <1>1
<1>3. TreeInv(tree', adds')
  BY <1>1
<1> QED BY <1>1, <1>2, <1>3 DEF IInv

\* Every call and every write keeps the invariant.
LEMMA NextIInv == IInv /\ [Next]_vars => IInv'
<1> SUFFICES ASSUME IInv, [Next]_vars
             PROVE  IInv'
  OBVIOUS
<1>1. adds \in 0..MaxAdds /\ adds \in Nat /\ TreeInv(tree, adds)
  BY BuilderAssumption DEF IInv
<1>2. TreeInv(tree, adds + 1)
  BY <1>1, MoreChildren
<1>3. ASSUME NEW path \in DirPaths, AddDir(path)
      PROVE  IInv'
  <2> DEFINE parts == SplitPath(path)
  <2>1. Adding
    BY <1>3 DEF AddDir
  <2>2. parts \in Seq(Part)
    BY SplitPathTyped, BuilderAssumption
  <2>3. tree' = tree \/ (~Blocked(parts) /\ tree' = MkdirAll(parts))
    BY <1>3 DEF AddDir
  <2> HIDE DEF parts
  <2>4. TreeInv(tree', adds + 1)
    BY <1>1, <1>2, <2>2, <2>3, MkdirKeeps
  <2> QED BY <2>1, <2>4, AddingKeeps
<1>4. ASSUME NEW path \in FilePaths, NEW data \in Contents, AddFile(path, data)
      PROVE  IInv'
  <2> DEFINE parts == SplitPath(path)
  <2>1. Adding
    BY <1>4 DEF AddFile
  <2>2. parts \in Seq(Part)
    BY SplitPathTyped, BuilderAssumption
  <2>3. \/ tree' = tree
        \/ /\ parts # << >> /\ ~Blocked(Front(parts))
           /\ ~(parts \in DOMAIN tree /\ tree[parts].isDir)
           /\ tree' = With(MkdirAll(Front(parts)), parts, NewFile(data))
    BY <1>4 DEF AddFile
  <2> HIDE DEF parts
  <2>4. TreeInv(tree', adds + 1)
    BY <1>1, <1>2, <2>2, <2>3, AddFileKeeps
  <2> QED BY <2>1, <2>4, AddingKeeps
<1>5. ASSUME WriteTo
      PROVE  IInv'
  <2>1. tree' \in Identified(tree) /\ adds' = adds
    BY <1>5 DEF WriteTo
  <2>2. TreeInv(tree', adds) /\ Distinct(tree')
    BY <1>1, <2>1, IdentifiedKeeps
  <2> QED BY <1>1, <2>1, <2>2 DEF IInv
<1>6. ASSUME WriteNext \/ WriteFails
      PROVE  IInv'
  <2>1. tree' = tree /\ adds' = adds /\ plan # << >>
    BY <1>6 DEF WriteNext, WriteFails
  <2> QED BY <2>1 DEF IInv
<1>7. ASSUME UNCHANGED vars
      PROVE  IInv'
  BY <1>7 DEF IInv, vars
<1> QED BY <1>3, <1>4, <1>5, <1>6, <1>7 DEF Next

\* IInv holds in every state of the builder.
THEOREM Invariance == Spec => []IInv
BY InitIInv, NextIInv, PTL DEF Spec

(* assignIdentifiers (create.go:236) gives siblings that collide once they *)
(* are uppercased and truncated identifiers of their own, of level 1, also *)
(* when some of them keep an identifier from an earlier layout: for every  *)
(* name, every order the map of the children is iterated in, and every     *)
(* number of collisions whose digits fit into a base.                      *)
THEOREM IdentifiersAreDistinct == Spec => []IdentifiersDistinct
<1>1. IInv => IdentifiersDistinct
  <2> SUFFICES ASSUME IInv, LaidOut
               PROVE  /\ \A p, q \in DOMAIN tree \ {<< >>} :
                           p # q /\ Front(p) = Front(q) => tree[p].id # tree[q].id
                      /\ \A p \in DOMAIN tree \ {<< >>} :
                           /\ tree[p].id # << >>
                           /\ Len(Stem(CleanName(tree[p].id))) <= NameWidth
                           /\ Len(Extension(CleanName(tree[p].id))) <= ExtWidth
    BY DEF IdentifiersDistinct
  <2>1. Distinct(tree)
    BY DEF IInv, LaidOut
  <2> QED BY <2>1 DEF Distinct, Fits
<1> QED BY <1>1, Invariance, PTL

---------------------------------------------------------------------------
(* The order of identifiers *)

\* The characters of identifiers are in Alphabet, and no two of their codes agree.
LEMMA AlphabetCovers ==
  /\ Len(Alphabet) = 24 /\ Len(Codes) = 24
  /\ \A i \in 1..24 : Codes[i] \in Nat
  /\ \A i, j \in 1..24 : Codes[i] = Codes[j] => i = j
  /\ \A c \in Chars : \E i \in 1..24 : Alphabet[i] = c
<1>1. Len(Alphabet) = 24 /\ Len(Codes) = 24
  BY DEF Alphabet, Codes
<1>2. \A i \in 1..24 : Codes[i] \in Nat
  BY DEF Codes
<1>3. \A i, j \in 1..24 : i < j => Codes[i] < Codes[j]
  BY DEF Codes
<1>4. \A i, j \in 1..24 : Codes[i] = Codes[j] => i = j
  BY <1>2, <1>3
<1>5. /\ Alphabet[2] = "." /\ Alphabet[14] = ";" /\ Alphabet[24] = "~" /\ Alphabet[19] = "_"
      /\ Alphabet[4] = "0" /\ Alphabet[5] = "1" /\ Alphabet[6] = "2" /\ Alphabet[7] = "3" /\ Alphabet[8] = "4"
      /\ Alphabet[9] = "5" /\ Alphabet[10] = "6" /\ Alphabet[11] = "7" /\ Alphabet[12] = "8" /\ Alphabet[13] = "9"
      /\ Alphabet[15] = "A" /\ Alphabet[16] = "B" /\ Alphabet[17] = "C" /\ Alphabet[18] = "O"
  <2>1. Alphabet[2] = "." /\ Alphabet[14] = ";" /\ Alphabet[24] = "~" /\ Alphabet[19] = "_"
    BY DEF Alphabet
  <2>2. /\ Alphabet[4] = "0" /\ Alphabet[5] = "1" /\ Alphabet[6] = "2" /\ Alphabet[7] = "3" /\ Alphabet[8] = "4"
        /\ Alphabet[9] = "5" /\ Alphabet[10] = "6" /\ Alphabet[11] = "7" /\ Alphabet[12] = "8" /\ Alphabet[13] = "9"
    BY DEF Alphabet
  <2>3. Alphabet[15] = "A" /\ Alphabet[16] = "B" /\ Alphabet[17] = "C" /\ Alphabet[18] = "O"
    BY DEF Alphabet
  <2> QED BY <2>1, <2>2, <2>3, Zenon
<1> DEFINE Used == {2, 4, 5, 6, 7, 8, 9, 10, 11, 12, 13, 14, 15, 16, 17, 18, 19, 24}
<1>6. \A c \in Chars : \E i \in Used : Alphabet[i] = c
  <2>1. \A c \in {"0", "1", "2", "3", "4"} : \E i \in {4, 5, 6, 7, 8} : Alphabet[i] = c
    BY <1>5, Zenon
  <2>2. \A c \in {"5", "6", "7", "8", "9"} : \E i \in {9, 10, 11, 12, 13} : Alphabet[i] = c
    BY <1>5, Zenon
  <2>3. \A c \in {"A", "B", "C", "O"} : \E i \in {15, 16, 17, 18} : Alphabet[i] = c
    BY <1>5, Zenon
  <2>4. \A c \in {"_", ".", ";", "~"} : \E i \in {2, 14, 19, 24} : Alphabet[i] = c
    BY <1>5, Zenon
  <2>5. \A c \in Chars : \/ c \in {"0", "1", "2", "3", "4"}
                         \/ c \in {"5", "6", "7", "8", "9"}
                         \/ c \in {"A", "B", "C", "O"}
                         \/ c \in {"_", ".", ";", "~"}
    BY Zenon DEF Chars, VChars, DChars
  <2>6. /\ {4, 5, 6, 7, 8} \subseteq Used
        /\ {9, 10, 11, 12, 13} \subseteq Used
        /\ {15, 16, 17, 18} \subseteq Used
        /\ {2, 14, 19, 24} \subseteq Used
    OBVIOUS
  <2> HIDE DEF Used
  <2> TAKE c \in Chars
  <2>7. CASE c \in {"0", "1", "2", "3", "4"}
    <3>1. PICK i \in {4, 5, 6, 7, 8} : Alphabet[i] = c
      BY ONLY <2>1, <2>7
    <3> QED BY ONLY <2>6, <3>1
  <2>8. CASE c \in {"5", "6", "7", "8", "9"}
    <3>1. PICK i \in {9, 10, 11, 12, 13} : Alphabet[i] = c
      BY ONLY <2>2, <2>8
    <3> QED BY ONLY <2>6, <3>1
  <2>9. CASE c \in {"A", "B", "C", "O"}
    <3>1. PICK i \in {15, 16, 17, 18} : Alphabet[i] = c
      BY ONLY <2>3, <2>9
    <3> QED BY ONLY <2>6, <3>1
  <2>10. CASE c \in {"_", ".", ";", "~"}
    <3>1. PICK i \in {2, 14, 19, 24} : Alphabet[i] = c
      BY ONLY <2>4, <2>10
    <3> QED BY ONLY <2>6, <3>1
  <2> QED BY <2>5, <2>7, <2>8, <2>9, <2>10, Zenon
<1>7. \A i \in Used : i \in 1..24
  OBVIOUS
<1> HIDE DEF Used
<1> QED BY <1>1, <1>2, <1>4, <1>6, <1>7, Zenon

\* Every character has a byte of its own.
LEMMA BytesDiffer ==
  /\ \A c \in Chars : Byte[c] \in Nat
  /\ \A c, d \in Chars : Byte[c] = Byte[d] => c = d
<1> DEFINE at(c) == CHOOSE i \in 1..24 : Alphabet[i] = c
<1>1. \A c \in Chars : at(c) \in 1..24 /\ Alphabet[at(c)] = c
  <2> TAKE c \in Chars
  <2>1. \E i \in 1..24 : Alphabet[i] = c
    BY AlphabetCovers
  <2> QED BY <2>1
<1>2. \A c \in Chars : Byte[c] = Codes[at(c)]
  <2> TAKE c \in Chars
  <2>1. c \in {Alphabet[i] : i \in 1..24}
    BY AlphabetCovers
  <2>2. Byte = [ch \in {Alphabet[i] : i \in 1..24} |-> Codes[CHOOSE i \in 1..24 : Alphabet[i] = ch]]
    BY AlphabetCovers DEF Byte
  <2> QED BY <2>1, <2>2
<1> HIDE DEF at
<1>3. \A c \in Chars : Byte[c] \in Nat
  BY <1>1, <1>2, AlphabetCovers
<1>4. \A c, d \in Chars : Byte[c] = Byte[d] => c = d
  <2> TAKE c \in Chars
  <2> TAKE d \in Chars
  <2> SUFFICES ASSUME Byte[c] = Byte[d]
               PROVE  c = d
    OBVIOUS
  <2>1. Codes[at(c)] = Codes[at(d)]
    BY <1>2
  <2>2. at(c) = at(d)
    BY <1>1, <2>1, AlphabetCovers
  <2> QED BY <1>1, <2>2
<1> QED BY <1>3, <1>4

\* Below is a strict order of the identifiers: none is below itself ...
LEMMA BelowIrreflexive ==
  ASSUME NEW s \in Seq(Chars)
  PROVE  ~Below(s, s)
<1>1. \A i \in 1..Len(s) : s[i] \in Chars
  OBVIOUS
<1>2. \A i \in 1..Len(s) : Byte[s[i]] \in Nat
  BY <1>1, BytesDiffer
<1> QED BY <1>2 DEF Below

\* ... of two that differ one is below the other ...
LEMMA BelowTotal ==
  ASSUME NEW s \in Seq(Chars), NEW t \in Seq(Chars), s # t
  PROVE  Below(s, t) \/ Below(t, s)
<1> DEFINE Parted == {i \in Nat \ {0} : ~(i <= Len(s) /\ i <= Len(t) /\ s[i] = t[i])}
<1>1. Len(s) \in Nat /\ Len(t) \in Nat
  OBVIOUS
<1>2. Len(s) + 1 \in Parted /\ Parted \in SUBSET Nat
  BY <1>1
<1>3. PICK m \in Parted : \A i \in Parted : m <= i
  <2> HIDE DEF Parted
  <2> QED BY <1>2, LeastNatural
<1>4. m \in Nat \ {0} /\ ~(m <= Len(s) /\ m <= Len(t) /\ s[m] = t[m])
  BY <1>3
<1>5. \A j \in 1..(m - 1) : j <= Len(s) /\ j <= Len(t) /\ s[j] = t[j]
  <2> TAKE j \in 1..(m - 1)
  <2>1. j \notin Parted
    BY <1>3, <1>4
  <2> QED BY <1>4, <2>1
<1> HIDE DEF Parted
<1>6. m - 1 <= Len(s) /\ m - 1 <= Len(t)
  BY <1>1, <1>4, <1>5
<1>7. CASE m <= Len(s) /\ m <= Len(t)
  <2>1. s[m] \in Chars /\ t[m] \in Chars /\ s[m] # t[m]
    BY <1>4, <1>7
  <2>2. Byte[s[m]] \in Nat /\ Byte[t[m]] \in Nat /\ Byte[s[m]] # Byte[t[m]]
    BY <2>1, BytesDiffer
  <2>3. Byte[s[m]] < Byte[t[m]] \/ Byte[t[m]] < Byte[s[m]]
    BY <2>2
  <2>4. m \in 1..Len(s) /\ m \in 1..Len(t)
    BY <1>1, <1>4, <1>7
  <2> QED BY <1>5, <2>3, <2>4 DEF Below
<1>8. CASE m > Len(s) /\ m <= Len(t)
  <2>1. m \in 1..Len(t)
    BY <1>1, <1>4, <1>8
  <2> QED BY <1>5, <1>8, <2>1 DEF Below
<1>9. CASE m <= Len(s) /\ m > Len(t)
  <2>1. m \in 1..Len(s)
    BY <1>1, <1>4, <1>9
  <2> QED BY <1>5, <1>9, <2>1 DEF Below
<1>10. CASE m > Len(s) /\ m > Len(t)
  <2>1. Len(s) = m - 1 /\ Len(t) = m - 1
    BY <1>1, <1>4, <1>6, <1>10
  <2>2. s = t
    BY <1>5, <2>1, SameElements
  <2> QED BY <2>2
<1> QED BY <1>1, <1>4, <1>7, <1>8, <1>9, <1>10

\* ... and what is below one is below what that one is below.
LEMMA BelowTransitive ==
  ASSUME NEW s \in Seq(Chars), NEW t \in Seq(Chars), NEW u \in Seq(Chars), Below(s, t), Below(t, u)
  PROVE  Below(s, u)
<1>1. PICK i \in 1..Len(t) :
        /\ \A j \in 1..(i - 1) : j <= Len(s) /\ s[j] = t[j]
        /\ i > Len(s) \/ Byte[s[i]] < Byte[t[i]]
  BY DEF Below
<1>2. PICK k \in 1..Len(u) :
        /\ \A j \in 1..(k - 1) : j <= Len(t) /\ t[j] = u[j]
        /\ k > Len(t) \/ Byte[t[k]] < Byte[u[k]]
  BY DEF Below
<1>3. Len(s) \in Nat /\ Len(t) \in Nat /\ Len(u) \in Nat
  OBVIOUS
<1>4. /\ \A j \in 1..Len(s) : Byte[s[j]] \in Nat
      /\ \A j \in 1..Len(t) : Byte[t[j]] \in Nat
      /\ \A j \in 1..Len(u) : Byte[u[j]] \in Nat
  BY BytesDiffer
<1>5. CASE i < k
  <2>1. i \in 1..Len(u) /\ i \in 1..(k - 1)
    BY <1>3, <1>5
  <2>2. t[i] = u[i]
    BY <1>2, <2>1
  <2>3. \A j \in 1..(i - 1) : j <= Len(s) /\ s[j] = u[j]
    <3> TAKE j \in 1..(i - 1)
    <3>1. j \in 1..(k - 1)
      BY <1>5
    <3>2. j <= Len(s) /\ s[j] = t[j]
      BY <1>1
    <3>3. t[j] = u[j]
      BY <1>2, <3>1
    <3> QED BY <3>2, <3>3
  <2>4. i > Len(s) \/ Byte[s[i]] < Byte[u[i]]
    BY <1>1, <2>2
  <2> QED BY <2>1, <2>3, <2>4 DEF Below
<1>6. CASE i = k
  <2>1. Byte[t[i]] < Byte[u[i]] /\ i \in 1..Len(u)
    BY <1>2, <1>3, <1>6
  <2>2. i > Len(s) \/ Byte[s[i]] < Byte[u[i]]
    <3>1. CASE i > Len(s)
      BY <3>1
    <3>2. CASE i <= Len(s)
      <4>1. i \in 1..Len(s)
        BY <1>3, <3>2
      <4>2. Byte[s[i]] \in Nat /\ Byte[t[i]] \in Nat /\ Byte[u[i]] \in Nat /\ Byte[s[i]] < Byte[t[i]]
        BY <1>1, <1>3, <1>4, <2>1, <3>2, <4>1
      <4> QED BY <2>1, <4>2
    <3> QED BY <1>3, <3>1, <3>2
  <2>3. \A j \in 1..(i - 1) : j <= Len(s) /\ s[j] = u[j]
    BY <1>1, <1>2, <1>6
  <2> QED BY <2>1, <2>2, <2>3 DEF Below
<1>7. CASE i > k
  <2>1. k \in 1..(i - 1) /\ k <= Len(t)
    BY <1>3, <1>7
  <2>2. s[k] = t[k] /\ Byte[t[k]] < Byte[u[k]]
    BY <1>1, <1>2, <1>3, <2>1
  <2>3. Byte[s[k]] < Byte[u[k]]
    BY <2>2
  <2>4. \A j \in 1..(k - 1) : j <= Len(s) /\ s[j] = u[j]
    BY <1>1, <1>2, <1>3, <1>7
  <2> QED BY <2>3, <2>4 DEF Below
<1> QED BY <1>5, <1>6, <1>7

---------------------------------------------------------------------------
(* The order of paths *)

\* The directory of a prefix is the prefix that is one shorter.
LEMMA FrontOfPrefix ==
  ASSUME NEW S, NEW p \in Seq(S), NEW k \in 1..Len(p)
  PROVE  /\ SubSeq(p, 1, k) \in Seq(S) /\ SubSeq(p, 1, k) # << >>
         /\ Front(SubSeq(p, 1, k)) = SubSeq(p, 1, k - 1)
<1>1. Len(p) \in Nat /\ k \in 0..Len(p) /\ k - 1 \in 0..k
  OBVIOUS
<1>2. PICK q : q = SubSeq(p, 1, k)
  OBVIOUS
<1>3. q \in Seq(S) /\ Len(q) = k
  BY <1>1, <1>2, PrefixTyped
<1>4. q # << >>
  BY <1>3, EmptySequence
<1>5. Front(q) = SubSeq(q, 1, k - 1)
  BY <1>3 DEF Front
<1>6. SubSeq(SubSeq(p, 1, k), 1, k - 1) = SubSeq(p, 1, k - 1)
  BY <1>1, PrefixOfPrefix
<1> QED BY <1>2, <1>3, <1>4, <1>5, <1>6

\* Every directory on the way to a node is in the tree.
LEMMA PrefixesInTree ==
  ASSUME NEW t, NEW n, TreeInv(t, n), NEW p \in DOMAIN t, NEW k \in 0..Len(p)
  PROVE  SubSeq(p, 1, k) \in DOMAIN t /\ (k < Len(p) => t[SubSeq(p, 1, k)].isDir)
<1>1. p \in Seq(Part) /\ Len(p) \in Nat
  BY DEF TreeInv
<1> DEFINE G == {j \in 0..Len(p) : LET q == SubSeq(p, 1, Len(p) - j)
                                   IN q \in DOMAIN t /\ (j > 0 => t[q].isDir)}
<1>2. 0 \in G
  <2>1. SubSeq(p, 1, Len(p)) = p /\ Len(p) - 0 = Len(p) /\ 0 \in 0..Len(p) /\ ~(0 > 0)
    BY <1>1
  <2>2. SubSeq(p, 1, Len(p) - 0) \in DOMAIN t
    BY <2>1, Zenon
  <2> QED BY <2>1, <2>2
<1>3. ASSUME NEW j \in 1..Len(p), j - 1 \in G
      PROVE  j \in G
  <2>1. PICK m : m = Len(p) - j + 1
    OBVIOUS
  <2>2. m \in 1..Len(p) /\ Len(p) - (j - 1) = m /\ Len(p) - j = m - 1
    BY <1>1, <2>1
  <2>3. SubSeq(p, 1, m) \in DOMAIN t
    BY <1>3, <2>2
  <2>4. SubSeq(p, 1, m) # << >> /\ Front(SubSeq(p, 1, m)) = SubSeq(p, 1, m - 1)
    BY <1>1, <2>2, FrontOfPrefix
  <2>5. SubSeq(p, 1, m - 1) \in DOMAIN t /\ t[SubSeq(p, 1, m - 1)].isDir
    BY <2>3, <2>4 DEF TreeInv
  <2>6. j \in 0..Len(p)
    BY <1>1
  <2> QED BY <2>2, <2>5, <2>6
<1> HIDE DEF G
<1>4. \A j \in 0..Len(p) : j \in G
  BY <1>1, <1>2, <1>3, InductionTo
<1>5. Len(p) - k \in 0..Len(p) /\ Len(p) - (Len(p) - k) = k /\ (k < Len(p) => Len(p) - k > 0)
  BY <1>1
<1>6. Len(p) - k \in G
  BY <1>4, <1>5
<1> QED BY <1>5, <1>6 DEF G

\* The identifiers on the way to a node.
LEMMA IdPathTyped ==
  ASSUME NEW t, NEW n, TreeInv(t, n), NEW p \in DOMAIN t
  PROVE  /\ p \in Seq(Part) /\ Len(p) \in Nat
         /\ IdPath(t, p) \in Seq(Seq(Chars)) /\ Len(IdPath(t, p)) = Len(p)
         /\ \A k \in 1..Len(p) : IdPath(t, p)[k] = t[SubSeq(p, 1, k)].id
<1>1. p \in Seq(Part) /\ Len(p) \in Nat
  BY DEF TreeInv
<1>2. \A k \in 1..Len(p) : t[SubSeq(p, 1, k)].id \in Seq(Chars)
  <2> TAKE k \in 1..Len(p)
  <2>1. k \in 0..Len(p)
    BY <1>1
  <2>2. SubSeq(p, 1, k) \in DOMAIN t
    BY <2>1, PrefixesInTree
  <2>3. t[SubSeq(p, 1, k)] \in Nodes
    BY <2>2 DEF TreeInv
  <2> QED BY <2>3 DEF Nodes
<1>3. IdPath(t, p) \in [1..Len(p) -> Seq(Chars)]
  BY <1>2 DEF IdPath
<1>4. \A k \in 1..Len(p) : IdPath(t, p)[k] = t[SubSeq(p, 1, k)].id
  BY DEF IdPath
<1> QED BY <1>1, <1>3, <1>4, FunctionIsSequence

\* Paths of identifiers are ordered by the first place where they differ.
LEMMA IdPathBelowIs ==
  ASSUME NEW t, NEW n, TreeInv(t, n), NEW p \in DOMAIN t, NEW q \in DOMAIN t
  PROVE  IdPathBelow(t, p, q) <=>
           \E k \in 1..Len(p) :
             /\ k \in 1..Len(q)
             /\ \A j \in 1..(k - 1) : IdPath(t, p)[j] = IdPath(t, q)[j]
             /\ Below(IdPath(t, p)[k], IdPath(t, q)[k])
<1>1. PICK a : a = IdPath(t, p)
  OBVIOUS
<1>2. PICK b : b = IdPath(t, q)
  OBVIOUS
<1>3. /\ Len(p) \in Nat /\ a \in Seq(Seq(Chars)) /\ Len(a) = Len(p)
      /\ Len(q) \in Nat /\ b \in Seq(Seq(Chars)) /\ Len(b) = Len(q)
  BY <1>1, <1>2, IdPathTyped
<1>4. ASSUME NEW k \in 1..Len(p), k <= Len(q)
      PROVE  SubSeq(a, 1, k - 1) = SubSeq(b, 1, k - 1) <=> \A j \in 1..(k - 1) : a[j] = b[j]
  <2>1. k - 1 \in Nat /\ k - 1 <= Len(a) /\ k - 1 <= Len(b)
    BY <1>3, <1>4
  <2> QED BY <1>3, <2>1, PrefixesAgree
<1>5. \A k \in 1..Len(p) : k <= Len(q) <=> k \in 1..Len(q)
  BY <1>3
<1>6. IdPathBelow(t, p, q) <=>
        \E k \in 1..Len(p) :
          /\ k <= Len(q)
          /\ SubSeq(a, 1, k - 1) = SubSeq(b, 1, k - 1)
          /\ Below(a[k], b[k])
  BY <1>1, <1>2, Zenon DEF IdPathBelow
<1>7. IdPathBelow(t, p, q) <=>
        \E k \in 1..Len(p) :
          /\ k \in 1..Len(q)
          /\ \A j \in 1..(k - 1) : a[j] = b[j]
          /\ Below(a[k], b[k])
  BY <1>4, <1>5, <1>6, Zenon
<1> QED BY <1>1, <1>2, <1>7

\* IdPathBelow is irreflexive ...
LEMMA IdPathIrreflexive ==
  ASSUME NEW t, NEW n, TreeInv(t, n), NEW p \in DOMAIN t
  PROVE  ~IdPathBelow(t, p, p)
<1>1. \A k \in 1..Len(p) : IdPath(t, p)[k] \in Seq(Chars)
  BY IdPathTyped
<1> QED BY <1>1, IdPathBelowIs, BelowIrreflexive

\* ... and transitive ...
LEMMA IdPathTransitive ==
  ASSUME NEW t, NEW n, TreeInv(t, n), NEW p \in DOMAIN t, NEW q \in DOMAIN t, NEW r \in DOMAIN t,
         IdPathBelow(t, p, q), IdPathBelow(t, q, r)
  PROVE  IdPathBelow(t, p, r)
<1>1. PICK a : a = IdPath(t, p)
  OBVIOUS
<1>2. PICK b : b = IdPath(t, q)
  OBVIOUS
<1>3. PICK c : c = IdPath(t, r)
  OBVIOUS
<1>4. /\ Len(p) \in Nat /\ a \in Seq(Seq(Chars)) /\ Len(a) = Len(p)
      /\ Len(q) \in Nat /\ b \in Seq(Seq(Chars)) /\ Len(b) = Len(q)
      /\ Len(r) \in Nat /\ c \in Seq(Seq(Chars)) /\ Len(c) = Len(r)
  BY <1>1, <1>2, <1>3, IdPathTyped
<1>5. PICK k \in 1..Len(p) : k \in 1..Len(q) /\ (\A j \in 1..(k - 1) : a[j] = b[j]) /\ Below(a[k], b[k])
  BY <1>1, <1>2, IdPathBelowIs
<1>6. PICK m \in 1..Len(q) : m \in 1..Len(r) /\ (\A j \in 1..(m - 1) : b[j] = c[j]) /\ Below(b[m], c[m])
  BY <1>2, <1>3, IdPathBelowIs
<1>7. \E l \in 1..Len(p) : l \in 1..Len(r) /\ (\A j \in 1..(l - 1) : a[j] = c[j]) /\ Below(a[l], c[l])
  <2>1. CASE k < m
    <3>1. k \in 1..(m - 1) /\ k \in 1..Len(r)
      BY <1>4, <1>5, <1>6, <2>1
    <3>2. b[k] = c[k] /\ \A j \in 1..(k - 1) : a[j] = c[j]
      BY <1>5, <1>6, <2>1, <3>1
    <3> QED BY <1>5, <3>1, <3>2
  <2>2. CASE m < k
    <3>1. m \in 1..(k - 1) /\ m \in 1..Len(p)
      BY <1>4, <1>5, <1>6, <2>2
    <3>2. a[m] = b[m] /\ \A j \in 1..(m - 1) : a[j] = c[j]
      BY <1>5, <1>6, <2>2, <3>1
    <3> QED BY <1>6, <3>1, <3>2
  <2>3. CASE k = m
    <3>1. a[k] \in Seq(Chars) /\ b[k] \in Seq(Chars) /\ c[k] \in Seq(Chars)
      BY <1>4, <1>5, <1>6, <2>3
    <3>2. Below(a[k], c[k])
      BY <1>5, <1>6, <2>3, <3>1, BelowTransitive
    <3>3. \A j \in 1..(k - 1) : a[j] = c[j]
      BY <1>5, <1>6, <2>3
    <3> QED BY <1>5, <1>6, <2>3, <3>2, <3>3
  <2> QED BY <1>4, <1>5, <1>6, <2>1, <2>2, <2>3
<1> QED BY <1>1, <1>3, <1>7, IdPathBelowIs

\* ... and tells any two nodes apart unless one is in the other.
LEMMA IdPathTotal ==
  ASSUME NEW t, NEW n, TreeInv(t, n), Distinct(t), NEW p \in DOMAIN t, NEW q \in DOMAIN t, p # q,
         ~(Len(p) < Len(q) /\ t[p].isDir), ~(Len(q) < Len(p) /\ t[q].isDir)
  PROVE  IdPathBelow(t, p, q) \/ IdPathBelow(t, q, p)
<1>1. p \in Seq(Part) /\ Len(p) \in Nat /\ q \in Seq(Part) /\ Len(q) \in Nat
  BY DEF TreeInv
<1> DEFINE Parted == {i \in Nat \ {0} : ~(i <= Len(p) /\ i <= Len(q) /\ p[i] = q[i])}
<1>2. Len(p) + 1 \in Parted /\ Parted \in SUBSET Nat
  BY <1>1
<1>3. PICK m \in Parted : \A i \in Parted : m <= i
  <2> HIDE DEF Parted
  <2> QED BY <1>2, LeastNatural
<1>4. m \in Nat \ {0} /\ ~(m <= Len(p) /\ m <= Len(q) /\ p[m] = q[m])
  BY <1>3
<1>5. \A j \in 1..(m - 1) : j <= Len(p) /\ j <= Len(q) /\ p[j] = q[j]
  <2> TAKE j \in 1..(m - 1)
  <2>1. j \notin Parted
    BY <1>3, <1>4
  <2> QED BY <1>4, <2>1
<1> HIDE DEF Parted
<1>6. m - 1 <= Len(p) /\ m - 1 <= Len(q)
  BY <1>1, <1>4, <1>5
<1>7. \A j \in 0..(m - 1) : SubSeq(p, 1, j) = SubSeq(q, 1, j)
  <2> TAKE j \in 0..(m - 1)
  <2>1. j \in Nat /\ j <= Len(p) /\ j <= Len(q) /\ \A i \in 1..j : p[i] = q[i]
    BY <1>1, <1>4, <1>5, <1>6
  <2> QED BY <1>1, <2>1, PrefixesAgree
<1>8. CASE m <= Len(p) /\ m <= Len(q)
  <2>1. m \in 1..Len(p) /\ m \in 1..Len(q) /\ m \in 0..Len(p) /\ m \in 0..Len(q) /\ m - 1 \in 0..(m - 1)
    BY <1>1, <1>4, <1>8
  <2>2. PICK x : x = SubSeq(p, 1, m)
    OBVIOUS
  <2>3. PICK y : y = SubSeq(q, 1, m)
    OBVIOUS
  <2>4. x \in DOMAIN t /\ y \in DOMAIN t /\ x # << >> /\ y # << >>
    BY <1>1, <2>1, <2>2, <2>3, PrefixesInTree, FrontOfPrefix
  <2>5. Front(x) = Front(y)
    BY <1>1, <1>7, <2>1, <2>2, <2>3, FrontOfPrefix
  <2>6. x # y
    <3>1. p[m] # q[m] /\ m \in Nat /\ m <= Len(p) /\ m <= Len(q) /\ m \in 1..m
      BY <1>4, <1>8
    <3> QED BY <1>1, <2>2, <2>3, <3>1, PrefixesAgree
  <2>7. t[x].id # t[y].id
    BY <2>4, <2>5, <2>6 DEF Distinct
  <2>8. /\ IdPath(t, p)[m] = t[x].id /\ IdPath(t, q)[m] = t[y].id
        /\ IdPath(t, p)[m] \in Seq(Chars) /\ IdPath(t, q)[m] \in Seq(Chars)
    BY <2>1, <2>2, <2>3, IdPathTyped
  <2>9. Below(IdPath(t, p)[m], IdPath(t, q)[m]) \/ Below(IdPath(t, q)[m], IdPath(t, p)[m])
    BY <2>7, <2>8, BelowTotal
  <2>10. \A j \in 1..(m - 1) : IdPath(t, p)[j] = IdPath(t, q)[j]
    <3> TAKE j \in 1..(m - 1)
    <3>1. j \in 0..(m - 1) /\ j \in 1..Len(p) /\ j \in 1..Len(q)
      BY <1>1, <1>4, <1>6
    <3>2. IdPath(t, p)[j] = t[SubSeq(p, 1, j)].id /\ IdPath(t, q)[j] = t[SubSeq(q, 1, j)].id
      BY <3>1, IdPathTyped
    <3> QED BY <1>7, <3>1, <3>2
  <2> QED BY <2>1, <2>9, <2>10, IdPathBelowIs
<1>9. CASE m > Len(p)
  <2>1. Len(p) = m - 1 /\ Len(p) \in 0..Len(q) /\ Len(p) \in 0..(m - 1)
    BY <1>1, <1>4, <1>6, <1>9
  <2>2. p = SubSeq(q, 1, Len(p))
    <3>1. p = SubSeq(p, 1, Len(p))
      BY <1>1
    <3> QED BY <1>7, <2>1, <3>1, Zenon
  <2>3. Len(p) # Len(q)
    <3>1. q = SubSeq(q, 1, Len(q))
      BY <1>1
    <3> QED BY <2>2, <3>1
  <2>4. Len(p) < Len(q)
    BY <1>1, <2>1, <2>3
  <2>5. t[SubSeq(q, 1, Len(p))].isDir
    BY <2>1, <2>4, PrefixesInTree
  <2> QED BY <2>2, <2>4, <2>5
<1>10. CASE m > Len(q)
  <2>1. Len(q) = m - 1 /\ Len(q) \in 0..Len(p) /\ Len(q) \in 0..(m - 1)
    BY <1>1, <1>4, <1>6, <1>10
  <2>2. q = SubSeq(p, 1, Len(q))
    <3>1. q = SubSeq(q, 1, Len(q))
      BY <1>1
    <3> QED BY <1>7, <2>1, <3>1, Zenon
  <2>3. Len(p) # Len(q)
    <3>1. p = SubSeq(p, 1, Len(p))
      BY <1>1
    <3> QED BY <2>2, <3>1
  <2>4. Len(q) < Len(p)
    BY <1>1, <2>1, <2>3
  <2>5. t[SubSeq(p, 1, Len(q))].isDir
    BY <2>1, <2>4, PrefixesInTree
  <2> QED BY <2>2, <2>4, <2>5
<1> QED BY <1>1, <1>4, <1>8, <1>9, <1>10

\* The directories that OrderedDirs puts before x ...
DirsBefore(t, x) == {y \in Directories(t) : Len(y) < Len(x) \/ (Len(y) = Len(x) /\ IdPathBelow(t, y, x))}

\* ... and the nodes of S that depth first order puts before x.
PathsBefore(t, S, x) == {y \in S : IdPathBelow(t, y, x)}

\* OrderedDirs has every directory once, parents and lesser siblings first.
LEMMA DirsOrdered ==
  ASSUME NEW t, NEW n, TreeInv(t, n), Distinct(t)
  PROVE  Enumerates(Directories(t), [x \in Directories(t) |-> DirsBefore(t, x)], OrderedDirs(t))
<1> DEFINE S == Directories(t)
           B == [x \in S |-> DirsBefore(t, x)]
<1>1. S \subseteq DOMAIN t /\ IsFiniteSet(S)
  BY FS_Subset DEF Directories, TreeInv
<1>2. \A x \in S : Len(x) \in Nat /\ t[x].isDir
  BY DEF Directories, TreeInv
<1>3. Orders(S, B)
  <2>1. B \in [S -> SUBSET S]
    BY DEF DirsBefore
  <2>2. \A x \in S : x \notin B[x]
    BY <1>1, <1>2, IdPathIrreflexive DEF DirsBefore
  <2>3. ASSUME NEW x \in S, NEW y \in S, y \in B[x], NEW z \in B[y]
        PROVE  z \in B[x]
    <3>1. z \in S
      BY <2>1
    <3>2. Len(y) < Len(x) \/ (Len(y) = Len(x) /\ IdPathBelow(t, y, x))
      BY <2>3 DEF DirsBefore
    <3>3. Len(z) < Len(y) \/ (Len(z) = Len(y) /\ IdPathBelow(t, z, y))
      BY <2>3 DEF DirsBefore
    <3>4. IdPathBelow(t, z, y) /\ IdPathBelow(t, y, x) => IdPathBelow(t, z, x)
      BY <1>1, <3>1, IdPathTransitive
    <3>5. Len(z) < Len(x) \/ (Len(z) = Len(x) /\ IdPathBelow(t, z, x))
      BY <1>2, <3>1, <3>2, <3>3, <3>4
    <3> QED BY <3>1, <3>5 DEF DirsBefore
  <2>4. ASSUME NEW x \in S, NEW y \in S, x # y
        PROVE  x \in B[y] \/ y \in B[x]
    <3>1. Len(x) = Len(y) => IdPathBelow(t, x, y) \/ IdPathBelow(t, y, x)
      BY <1>1, <1>2, <2>4, IdPathTotal
    <3>2. \/ Len(x) < Len(y) \/ (Len(x) = Len(y) /\ IdPathBelow(t, x, y))
          \/ Len(y) < Len(x) \/ (Len(y) = Len(x) /\ IdPathBelow(t, y, x))
      BY <1>2, <3>1
    <3> QED BY <3>2 DEF DirsBefore
  <2> HIDE DEF B, S
  <2> QED BY <2>1, <2>2, <2>3, <2>4 DEF Orders
<1>4. PICK s : s = OrderedDirs(t)
  OBVIOUS
<1>5. s = [i \in 1..Cardinality(S) |-> CHOOSE x \in S : Cardinality(DirsBefore(t, x)) = i - 1]
  BY <1>4, Zenon DEF OrderedDirs, Ordered, DirsBefore
<1>6. \A i \in 1..Cardinality(S) : s[i] = CHOOSE x \in S : Cardinality(DirsBefore(t, x)) = i - 1
  BY <1>5
<1>7. \A i \in 1..Cardinality(S) :
        (\E x \in S : Cardinality(B[x]) = i - 1) => s[i] \in S /\ Cardinality(B[s[i]]) = i - 1
  <2> TAKE i \in 1..Cardinality(S)
  <2> SUFFICES ASSUME \E x \in S : Cardinality(B[x]) = i - 1
               PROVE  s[i] \in S /\ Cardinality(B[s[i]]) = i - 1
    OBVIOUS
  <2>1. \E x \in S : Cardinality(DirsBefore(t, x)) = i - 1
    OBVIOUS
  <2>2. s[i] \in S /\ Cardinality(DirsBefore(t, s[i])) = i - 1
    BY <1>6, <2>1
  <2> QED BY <2>2
<1>8. s = [i \in 1..Cardinality(S) |-> s[i]]
  BY <1>5
<1> HIDE DEF S, B
<1>9. Enumerates(S, B, s)
  BY <1>1, <1>3, <1>7, <1>8, Enumerated
<1> QED BY <1>4, <1>9 DEF S, B

\* Depth first order has every node of S once if none of them contains another.
LEMMA PathsOrdered ==
  ASSUME NEW t, NEW n, TreeInv(t, n), Distinct(t), NEW S \in SUBSET DOMAIN t,
         \A x, y \in S : x # y => ~(Len(x) < Len(y) /\ t[x].isDir),
         NEW s, s = [i \in 1..Cardinality(S) |->
                       CHOOSE x \in S : Cardinality(PathsBefore(t, S, x)) = i - 1]
  PROVE  Enumerates(S, [x \in S |-> PathsBefore(t, S, x)], s)
<1> DEFINE B == [x \in S |-> PathsBefore(t, S, x)]
<1>1. IsFiniteSet(S)
  BY FS_Subset DEF TreeInv
<1>2. \A x \in S : x \in DOMAIN t
  OBVIOUS
<1>3. Orders(S, B)
  <2>1. B \in [S -> SUBSET S]
    BY DEF PathsBefore
  <2>2. \A x \in S : x \notin B[x]
    BY <1>2, IdPathIrreflexive DEF PathsBefore
  <2>3. ASSUME NEW x \in S, NEW y \in S, y \in B[x], NEW z \in B[y]
        PROVE  z \in B[x]
    <3>1. z \in S
      BY <2>1
    <3>2. IdPathBelow(t, z, y) /\ IdPathBelow(t, y, x)
      BY <2>3 DEF PathsBefore
    <3>3. IdPathBelow(t, z, x)
      BY <1>2, <3>1, <3>2, IdPathTransitive
    <3> QED BY <3>1, <3>3 DEF PathsBefore
  <2>4. ASSUME NEW x \in S, NEW y \in S, x # y
        PROVE  x \in B[y] \/ y \in B[x]
    <3>1. ~(Len(x) < Len(y) /\ t[x].isDir) /\ ~(Len(y) < Len(x) /\ t[y].isDir)
      BY <2>4
    <3>2. IdPathBelow(t, x, y) \/ IdPathBelow(t, y, x)
      BY <1>2, <2>4, <3>1, IdPathTotal
    <3> QED BY <3>2 DEF PathsBefore
  <2> HIDE DEF B
  <2> QED BY <2>1, <2>2, <2>3, <2>4 DEF Orders
<1>6. \A i \in 1..Cardinality(S) : s[i] = CHOOSE x \in S : Cardinality(PathsBefore(t, S, x)) = i - 1
  OBVIOUS
<1>7. \A i \in 1..Cardinality(S) :
        (\E x \in S : Cardinality(B[x]) = i - 1) => s[i] \in S /\ Cardinality(B[s[i]]) = i - 1
  <2> TAKE i \in 1..Cardinality(S)
  <2> SUFFICES ASSUME \E x \in S : Cardinality(B[x]) = i - 1
               PROVE  s[i] \in S /\ Cardinality(B[s[i]]) = i - 1
    OBVIOUS
  <2>1. \E x \in S : Cardinality(PathsBefore(t, S, x)) = i - 1
    OBVIOUS
  <2>2. s[i] \in S /\ Cardinality(PathsBefore(t, S, s[i])) = i - 1
    BY <1>6, <2>1
  <2> QED BY <2>2
<1>8. s = [i \in 1..Cardinality(S) |-> s[i]]
  OBVIOUS
<1> HIDE DEF B
<1> QED BY <1>1, <1>3, <1>7, <1>8, Enumerated DEF B

\* OrderedFiles has every file once.
LEMMA FilesOrdered ==
  ASSUME NEW t, NEW n, TreeInv(t, n), Distinct(t)
  PROVE  LET S == DOMAIN t \ Directories(t)
         IN Enumerates(S, [x \in S |-> PathsBefore(t, S, x)], OrderedFiles(t))
<1> DEFINE S == DOMAIN t \ Directories(t)
<1>2. PICK s : s = OrderedFiles(t)
  OBVIOUS
<1>3. s = [i \in 1..Cardinality(S) |-> CHOOSE x \in S : Cardinality(PathsBefore(t, S, x)) = i - 1]
  BY <1>2, Zenon DEF OrderedFiles, Ordered, PathsBefore
<1>4. S \in SUBSET DOMAIN t /\ \A x \in S : ~t[x].isDir
  BY DEF Directories
<1> HIDE DEF S
<1>5. Enumerates(S, [x \in S |-> PathsBefore(t, S, x)], s)
  BY <1>3, <1>4, PathsOrdered
<1> QED BY <1>2, <1>5 DEF S

\* OrderedChildren has every child of a directory once.
LEMMA ChildrenOrdered ==
  ASSUME NEW t, NEW n, TreeInv(t, n), Distinct(t), NEW d \in DOMAIN t
  PROVE  LET S == Children(t, d)
         IN Enumerates(S, [x \in S |-> PathsBefore(t, S, x)], OrderedChildren(t, d))
<1> DEFINE S == Children(t, d)
<1>2. PICK s : s = OrderedChildren(t, d)
  OBVIOUS
<1>3. s = [i \in 1..Cardinality(S) |-> CHOOSE x \in S : Cardinality(PathsBefore(t, S, x)) = i - 1]
  BY <1>2, Zenon DEF OrderedChildren, Ordered, PathsBefore
<1>4. S \in SUBSET DOMAIN t
  BY DEF Children
<1>5. \A x \in S : Len(x) \in Nat /\ Len(x) = Len(d) + 1
  <2> TAKE x \in S
  <2>1. x \in Seq(Part) /\ x # << >> /\ Front(x) = d
    BY DEF Children, TreeInv
  <2>2. Len(x) \in Nat /\ Len(d) = Len(x) - 1
    BY <2>1, LastTyped
  <2> QED BY <2>2
<1> HIDE DEF S
<1>6. Enumerates(S, [x \in S |-> PathsBefore(t, S, x)], s)
  <2>1. \A x, y \in S : x # y => ~(Len(x) < Len(y) /\ t[x].isDir)
    BY <1>5
  <2> QED BY <1>3, <1>4, <2>1, PathsOrdered
<1> QED BY <1>2, <1>6 DEF S

---------------------------------------------------------------------------
(* Sizes *)

\* The sum of naturals is one.
LEMMA SumTyped ==
  ASSUME NEW s \in Seq(Nat)
  PROVE  Sum(s) \in Nat
<1> DEFINE n == Len(s)
           Rec(f) == f = [i \in 0..n |-> IF i = 0 THEN 0 ELSE f[i - 1] + s[i]]
           upTo == CHOOSE f : Rec(f)
<1>1. n \in Nat /\ s \in [1..n -> Nat]
  OBVIOUS
<1>2. \E f : Rec(f)
  BY <1>1, SumsExist
<1>3. Rec(upTo)
  <2> HIDE DEF Rec
  <2> QED BY <1>2
<1>4. Sum(s) = upTo[n]
  BY DEF Sum
<1> HIDE DEF upTo, n
<1>5. \A k \in 0..n : upTo[k] \in Nat
  BY <1>1, <1>3, SumsAreNat
<1>6. n \in 0..n
  BY <1>1
<1> QED BY <1>4, <1>5, <1>6

\* A directory record is not empty.
LEMMA RecordLengths ==
  ASSUME NEW k \in Nat
  PROVE  DirRecordLen(k) \in Nat \ {0} /\ PathTableEntryLen(k) \in Nat
BY DEF DirRecordLen, PathTableEntryLen

\* A record begins at a natural offset ...
LEMMA FitTyped ==
  ASSUME NEW pos \in Nat, NEW rl \in Nat
  PROVE  Fit(pos, rl) \in Nat
<1>1. SectorSize \in Nat \ {0}
  BY BuilderAssumption
<1>2. pos \div SectorSize \in Nat
  BY <1>1, Division
<1>3. PICK k \in Nat : k = pos \div SectorSize + 1
  BY <1>2
<1>4. k * SectorSize \in Nat
  BY <1>1
<1> QED BY <1>3, <1>4 DEF Fit

\* ... and ends at one, behind the record before it.
LEMMA EndsTyped ==
  ASSUME NEW ids \in Seq(Nat)
  PROVE  /\ Ends(ids)[0] = 0
         /\ \A i \in 1..Len(ids) :
              Ends(ids)[i] = Fit(Ends(ids)[i - 1], DirRecordLen(ids[i])) + DirRecordLen(ids[i])
         /\ \A i \in 0..Len(ids) : Ends(ids)[i] \in Nat
<1> DEFINE n == Len(ids)
           next(i, p) == Fit(p, DirRecordLen(ids[i])) + DirRecordLen(ids[i])
           step == [i \in 1..n |-> [p \in Nat |-> next(i, p)]]
           Rec(f) == f = [i \in 0..n |-> IF i = 0 THEN 0 ELSE next(i, f[i - 1])]
           pos == CHOOSE f : Rec(f)
<1>1. n \in Nat /\ \A i \in 1..n : ids[i] \in Nat
  OBVIOUS
<1>2. \A i \in 1..n : \A p \in Nat : next(i, p) \in Nat
  <2> TAKE i \in 1..n
  <2> TAKE p \in Nat
  <2>1. DirRecordLen(ids[i]) \in Nat
    BY <1>1, RecordLengths
  <2>2. Fit(p, DirRecordLen(ids[i])) \in Nat
    BY <2>1, FitTyped
  <2> QED BY <2>1, <2>2
<1>3. Steps(n, Nat, 0, step)
  <2>1. step \in [1..n -> [Nat -> Nat]]
    <3> HIDE DEF next
    <3> QED BY <1>1, <1>2
  <2> HIDE DEF step
  <2> QED BY <1>1, <2>1 DEF Steps
<1>4. PICK f : Takes(n, Nat, 0, step, f)
  <2> HIDE DEF step
  <2> QED BY <1>3, RecursionExists
<1>5. f \in [0..n -> Nat] /\ f[0] = 0 /\ \A i \in 1..n : f[i] = step[i][f[i - 1]]
  <2> HIDE DEF step
  <2> QED BY <1>4 DEF Takes
<1>6. \A i \in 1..n : f[i] = next(i, f[i - 1])
  <2> TAKE i \in 1..n
  <2> HIDE DEF n, next
  <2>1. f[i - 1] \in Nat
    BY <1>1, <1>5
  <2> QED BY <1>5, <2>1
<1>7. Rec(f)
  <2> HIDE DEF next
  <2> QED BY <1>1, <1>5, <1>6
<1>8. Rec(pos)
  <2> HIDE DEF Rec
  <2> QED BY <1>7
<1>9. Ends(ids) = pos
  BY DEF Ends
<1>10. pos[0] = 0 /\ \A i \in 1..n : pos[i] = next(i, pos[i - 1])
  <2>1. pos = [i \in 0..n |-> IF i = 0 THEN 0 ELSE next(i, pos[i - 1])]
    <3> HIDE DEF pos
    <3> QED BY <1>8
  <2> HIDE DEF pos, next, n
  <2>2. \A i \in 0..n : pos[i] = IF i = 0 THEN 0 ELSE next(i, pos[i - 1])
    BY <2>1
  <2> QED BY <1>1, <2>2
<1> HIDE DEF pos, n, step, Rec, next
<1>11. \A i \in 0..n : pos[i] \in Nat
  <2>1. pos[0] \in Nat
    BY <1>10
  <2>2. ASSUME NEW i \in 1..n, pos[i - 1] \in Nat
        PROVE  pos[i] \in Nat
    BY <1>2, <1>10, <2>2, Zenon
  <2> QED BY <1>1, <2>1, <2>2, StaysIn
<1> QED BY <1>9, <1>10, <1>11 DEF next, n

\* The children of a directory, in order, have identifiers.
LEMMA KidsTyped ==
  ASSUME NEW t, NEW n, TreeInv(t, n), Distinct(t), NEW d \in DOMAIN t
  PROVE  /\ Len(OrderedChildren(t, d)) \in Nat
         /\ \A i \in 1..Len(OrderedChildren(t, d)) :
              /\ OrderedChildren(t, d)[i] \in Children(t, d)
              /\ Len(t[OrderedChildren(t, d)[i]].id) \in Nat
<1>1. PICK kids : kids = OrderedChildren(t, d)
  OBVIOUS
<1>2. kids \in Seq(Children(t, d)) /\ Len(kids) \in Nat
  <2>1. PICK S : S = Children(t, d)
    OBVIOUS
  <2>2. kids \in Seq(S)
    BY <1>1, <2>1, ChildrenOrdered DEF Enumerates
  <2> QED BY <2>1, <2>2
<1>3. \A i \in 1..Len(kids) : kids[i] \in Children(t, d)
  BY <1>2
<1>4. \A p \in Children(t, d) : Len(t[p].id) \in Nat
  <2> TAKE p \in Children(t, d)
  <2>1. t[p] \in Nodes
    BY DEF Children, TreeInv
  <2>2. t[p].id \in Seq(Chars)
    BY <2>1 DEF Nodes
  <2> QED BY <2>2
<1> QED BY <1>1, <1>2, <1>3, <1>4

\* The extent of a directory is a whole number of sectors.
LEMMA ExtentSize ==
  ASSUME NEW t, NEW n, TreeInv(t, n), Distinct(t), NEW d \in DOMAIN t
  PROVE  \E k \in Nat : DirectoryExtentSize(t, d) = k * SectorSize
<1>1. PICK kids : kids = OrderedChildren(t, d)
  OBVIOUS
<1>2. Len(kids) \in Nat /\ \A i \in 1..Len(kids) : Len(t[kids[i]].id) \in Nat
  BY <1>1, KidsTyped
<1>3. PICK ids : ids = [i \in 1..(Len(kids) + 2) |-> IF i <= 2 THEN 1 ELSE Len(t[kids[i - 2]].id)]
  OBVIOUS
<1>4. ids \in [1..(Len(kids) + 2) -> Nat] /\ Len(kids) + 2 \in Nat
  BY <1>2, <1>3
<1>5. ids \in Seq(Nat) /\ Len(ids) \in Nat /\ Len(ids) \in 0..Len(ids)
  BY <1>4, FunctionIsSequence
<1>6. PICK e \in Nat : e = Ends(ids)[Len(ids)]
  BY <1>5, EndsTyped
<1>7. SectorSize \in Nat \ {0}
  BY BuilderAssumption
<1>8. e + SectorSize - 1 \in Nat
  BY <1>7
<1>9. PICK k \in Nat : k = (e + SectorSize - 1) \div SectorSize
  BY <1>7, <1>8, Division
<1>10. DirectoryExtentSize(t, d) = ((e + SectorSize - 1) \div SectorSize) * SectorSize
  BY <1>1, <1>3, <1>6, Zenon DEF DirectoryExtentSize
<1> QED BY <1>9, <1>10

---------------------------------------------------------------------------
(* The layout *)

\* The length of the extent of p, as layout computes it.
LenOf(t, p) == IF t[p].isDir THEN DirectoryExtentSize(t, p) ELSE t[p].data.size % Word

\* The order layout places the extents in.
Placing(t) == OrderedDirs(t) \o OrderedFiles(t)

\* layout places every node once: the directories, then the files.
LEMMA PlacingLists ==
  ASSUME NEW t, NEW n, TreeInv(t, n), Distinct(t)
  PROVE  /\ Lists(Directories(t), OrderedDirs(t))
         /\ Lists(DOMAIN t \ Directories(t), OrderedFiles(t))
         /\ Lists(DOMAIN t, Placing(t))
         /\ Len(Placing(t)) = Len(OrderedDirs(t)) + Len(OrderedFiles(t))
         /\ \A i \in 1..Len(OrderedDirs(t)) : Placing(t)[i] = OrderedDirs(t)[i]
         /\ \A i \in 1..Len(OrderedFiles(t)) :
              Placing(t)[Len(OrderedDirs(t)) + i] = OrderedFiles(t)[i]
<1> DEFINE D == Directories(t)
           F == DOMAIN t \ Directories(t)
<1>1. Lists(D, OrderedDirs(t))
  <2>1. PICK B : Enumerates(D, B, OrderedDirs(t))
    BY DirsOrdered
  <2> HIDE DEF D
  <2> QED BY <2>1, EnumeratedLists
<1>2. Lists(F, OrderedFiles(t))
  <2>1. PICK B : Enumerates(F, B, OrderedFiles(t))
    BY FilesOrdered
  <2> HIDE DEF F
  <2> QED BY <2>1, EnumeratedLists
<1>3. D \cap F = {} /\ D \cup F = DOMAIN t
  BY DEF Directories
<1> HIDE DEF D, F
<1>4. Lists(D \cup F, Placing(t))
  BY <1>1, <1>2, <1>3, ListsJoin DEF Placing
<1>5. /\ Len(Placing(t)) = Len(OrderedDirs(t)) + Len(OrderedFiles(t))
      /\ \A i \in 1..Len(OrderedDirs(t)) : Placing(t)[i] = OrderedDirs(t)[i]
      /\ \A i \in 1..Len(OrderedFiles(t)) :
           Placing(t)[Len(OrderedDirs(t)) + i] = OrderedFiles(t)[i]
  BY <1>1, <1>2, <1>3, ListsJoin DEF Placing
<1> QED BY <1>1, <1>2, <1>3, <1>4, <1>5 DEF D, F

\* SectorsFor is a natural, also where it wraps.
LEMMA SectorsTyped ==
  ASSUME NEW k \in Nat
  PROVE  SectorsFor(k) \in Nat
<1>1. SectorSize \in Nat \ {0} /\ Word \in Nat \ {0}
  BY BuilderAssumption
<1>2. k + SectorSize - 1 \in Nat
  BY <1>1
<1>3. PICK m : m = (k + SectorSize - 1) % Word
  OBVIOUS
<1>4. m \in 0..(Word - 1)
  BY <1>1, <1>2, <1>3, Remainder
<1>5. m \in Nat
  BY <1>4
<1>6. m \div SectorSize \in Nat
  BY <1>1, <1>5, Division
<1> QED BY <1>3, <1>6 DEF SectorsFor

\* What layout computes with is natural.
LEMMA LengthsTyped ==
  ASSUME NEW t, NEW n, TreeInv(t, n), Distinct(t)
  PROVE  /\ \A p \in DOMAIN t : LenOf(t, p) \in Nat /\ t[p].data.size \in Nat /\ t[p].isDir \in BOOLEAN
         /\ PathTableSize(t) \in Nat
         /\ PathTableSectors(t) \in Nat /\ PathTableMLBA(t) \in Nat
<1>1. SectorSize \in Nat \ {0} /\ Word \in Nat \ {0} /\ SystemArea \in Nat
  BY BuilderAssumption
<1>2. ASSUME NEW p \in DOMAIN t
      PROVE  LenOf(t, p) \in Nat /\ t[p].data.size \in Nat /\ t[p].isDir \in BOOLEAN
  <2>1. t[p] \in Nodes
    BY DEF TreeInv
  <2>2. t[p].data \in Contents \cup {NoData} /\ t[p].isDir \in BOOLEAN
    BY <2>1 DEF Nodes
  <2>3. t[p].data.size \in Nat
    <3>1. NoData.size = 0
      BY DEF NoData
    <3>2. \A c \in Contents : c.size \in Nat
      BY BuilderAssumption DEF Content
    <3> QED BY <2>2, <3>1, <3>2
  <2>4. t[p].data.size % Word \in Nat
    <3>1. t[p].data.size % Word \in 0..(Word - 1)
      BY <1>1, <2>3, Remainder
    <3> QED BY <3>1
  <2>5. DirectoryExtentSize(t, p) \in Nat
    <3>1. PICK k \in Nat : DirectoryExtentSize(t, p) = k * SectorSize
      BY ExtentSize
    <3> QED BY <1>1, <3>1
  <2> QED BY <2>2, <2>3, <2>4, <2>5 DEF LenOf
<1>3. PathTableSize(t) \in Nat
  <2>1. PICK dirs : dirs = OrderedDirs(t)
    OBVIOUS
  <2>2. dirs \in Seq(Directories(t)) /\ Len(dirs) \in Nat
    BY <2>1, PlacingLists DEF Lists
  <2>3. \A i \in 1..Len(dirs) : Len(PathTableIdent(t, dirs[i])) \in Nat
    <3> TAKE i \in 1..Len(dirs)
    <3>1. dirs[i] \in DOMAIN t
      BY <2>2 DEF Directories
    <3>2. t[dirs[i]].id \in Seq(Chars)
      BY <3>1 DEF TreeInv, Nodes
    <3>3. Len(t[dirs[i]].id) \in Nat
      BY <3>2
    <3>4. Len(Self) \in Nat
      BY DEF Self
    <3> QED BY <3>3, <3>4 DEF PathTableIdent
  <2>4. PICK s : s = [i \in 1..Len(dirs) |-> PathTableEntryLen(Len(PathTableIdent(t, dirs[i])))]
    OBVIOUS
  <2>5. s \in [1..Len(dirs) -> Nat]
    BY <2>3, <2>4, RecordLengths
  <2>6. s \in Seq(Nat)
    BY <2>2, <2>5, FunctionIsSequence
  <2>7. PathTableSize(t) = Sum(s)
    BY <2>1, <2>4 DEF PathTableSize
  <2> QED BY <2>6, <2>7, SumTyped
<1>4. PathTableSectors(t) \in Nat
  BY <1>3, SectorsTyped DEF PathTableSectors
<1>5. PathTableMLBA(t) \in Nat
  BY <1>1, <1>4 DEF PathTableMLBA, PathTableLLBA
<1> QED BY <1>2, <1>3, <1>4, <1>5

\* next[i] is where the extent after the i-th one goes.
Placed(t, next) ==
  /\ DOMAIN next = 0..Len(Placing(t))
  /\ next[0] = PathTableMLBA(t) + PathTableSectors(t)
  /\ \A i \in 1..Len(Placing(t)) :
       /\ next[i] = next[i - 1] + SectorsFor(LenOf(t, Placing(t)[i]))
       /\ Layout(t).lba[Placing(t)[i]] = next[i - 1]
  /\ \A i \in 0..Len(Placing(t)) : next[i] \in Nat /\ next[i] <= next[Len(Placing(t))]
  /\ \A p \in DOMAIN t : Layout(t).len[p] = LenOf(t, p)

\* layout puts each extent where the one before it ends.
LEMMA LayoutPlaces ==
  ASSUME NEW t, NEW n, TreeInv(t, n), Distinct(t)
  PROVE  \E next : Placed(t, next)
<1> DEFINE order == Placing(t)
           N == Len(order)
           len == [p \in DOMAIN t |->
                     IF t[p].isDir THEN DirectoryExtentSize(t, p) ELSE t[p].data.size % Word]
           b == PathTableMLBA(t) + PathTableSectors(t)
           Rec(f) == f = [i \in 0..N |-> IF i = 0 THEN b ELSE f[i - 1] + SectorsFor(len[order[i]])]
           next == CHOOSE f : Rec(f)
           v == [i \in 1..N |-> SectorsFor(len[order[i]])]
<1>1. N \in Nat /\ Lists(DOMAIN t, order) /\ \A i \in 1..N : order[i] \in DOMAIN t
  <2>1. Lists(DOMAIN t, order)
    BY PlacingLists
  <2> QED BY <2>1 DEF Lists
<1>2. \A p \in DOMAIN t : len[p] = LenOf(t, p) /\ len[p] \in Nat
  <2>1. \A p \in DOMAIN t : len[p] = LenOf(t, p)
    BY DEF LenOf
  <2> QED BY <2>1, LengthsTyped
<1>3. b \in Nat
  BY LengthsTyped
<1>4. Layout(t).len = len
  BY DEF Layout
<1>5. Layout(t).lba = [p \in DOMAIN t |-> next[(CHOOSE i \in 1..N : order[i] = p) - 1]]
  BY DEF Layout, Placing
<1>6. v \in [1..N -> Nat]
  <2> HIDE DEF len, order, N
  <2>1. \A i \in 1..N : SectorsFor(len[order[i]]) \in Nat
    BY <1>1, <1>2, SectorsTyped
  <2> QED BY <2>1
<1>7. \E f : Rec(f)
  <2> HIDE DEF b, order, N, len
  <2>1. PICK f : f = [k \in 0..N |-> IF k = 0 THEN b ELSE f[k - 1] + v[k]]
    <3> HIDE DEF v
    <3> QED BY <1>1, <1>3, <1>6, TotalsExist
  <2>2. \A k \in 0..N : k # 0 => v[k] = SectorsFor(len[order[k]])
    BY <1>1
  <2> HIDE DEF v
  <2>3. \A k \in 0..N : f[k] = IF k = 0 THEN b ELSE f[k - 1] + SectorsFor(len[order[k]])
    BY <2>1, <2>2
  <2>4. f = [k \in 0..N |-> f[k]]
    BY <2>1
  <2>5. f = [k \in 0..N |-> IF k = 0 THEN b ELSE f[k - 1] + SectorsFor(len[order[k]])]
    BY <2>3, <2>4
  <2> QED BY <2>5
<1>8. Rec(next)
  <2> HIDE DEF Rec
  <2> QED BY <1>7
<1>9. next[0] = b /\ \A k \in 1..N : next[k] = next[k - 1] + v[k]
  <2> HIDE DEF b, order, N, len, next
  <2>1. next = [i \in 0..N |-> IF i = 0 THEN b ELSE next[i - 1] + SectorsFor(len[order[i]])]
    BY <1>8
  <2>2. \A k \in 0..N : next[k] = IF k = 0 THEN b ELSE next[k - 1] + SectorsFor(len[order[k]])
    BY <2>1
  <2>3. \A k \in 1..N : v[k] = SectorsFor(len[order[k]]) /\ k \in 0..N /\ k # 0
    BY <1>1
  <2> HIDE DEF v
  <2> QED BY <1>1, <2>2, <2>3
<1>11. DOMAIN next = 0..N
  <2> HIDE DEF b, order, N, len, next
  <2>1. next = [i \in 0..N |-> IF i = 0 THEN b ELSE next[i - 1] + SectorsFor(len[order[i]])]
    BY <1>8
  <2> QED BY <2>1
<1> HIDE DEF b, N, len, next, order, Rec
<1>10. \A k \in 0..N : next[k] \in Nat /\ next[k] <= next[N]
  <2> HIDE DEF v
  <2> QED BY <1>1, <1>3, <1>6, <1>9, TotalsGrow
<1>12. ASSUME NEW i \in 1..N
       PROVE  /\ next[i] = next[i - 1] + SectorsFor(LenOf(t, order[i]))
              /\ Layout(t).lba[order[i]] = next[i - 1]
  <2>1. v[i] = SectorsFor(LenOf(t, order[i]))
    BY <1>1, <1>2
  <2>2. order[i] \in DOMAIN t
    BY <1>1
  <2>3. (CHOOSE j \in 1..N : order[j] = order[i]) = i
    <3>1. \A j \in 1..N : order[j] = order[i] => j = i
      BY <1>1 DEF Lists, N
    <3> QED BY <3>1
  <2>4. Layout(t).lba[order[i]] = next[(CHOOSE j \in 1..N : order[j] = order[i]) - 1]
    BY <1>5, <2>2
  <2>5. next[i] = next[i - 1] + v[i]
    BY <1>9
  <2> HIDE DEF v
  <2> QED BY <2>1, <2>3, <2>4, <2>5
<1>13. Placed(t, next)
  BY <1>2, <1>4, <1>9, <1>10, <1>11, <1>12 DEF Placed, N, order, b
<1> QED BY <1>13

\* The volume ends where the last extent ends.
LEMMA VolumeEnd ==
  ASSUME NEW t, NEW n, TreeInv(t, n), Distinct(t), NEW next, Placed(t, next)
  PROVE  TotalSectors(t, Layout(t)) = next[Len(Placing(t))]
<1> DEFINE N == Len(Placing(t))
           l == Layout(t)
           ends == {PathTableMLBA(t) + PathTableSectors(t)} \cup {l.lba[p] + SectorsFor(l.len[p]) : p \in DOMAIN t}
<1>1. N \in Nat /\ Lists(DOMAIN t, Placing(t))
  BY PlacingLists DEF Lists
<1>2. \A e \in ends : e \in Nat /\ e <= next[N]
  <2>1. next[0] = PathTableMLBA(t) + PathTableSectors(t) /\ next[0] \in Nat /\ next[0] <= next[N]
    BY <1>1 DEF Placed
  <2>2. ASSUME NEW p \in DOMAIN t
        PROVE  l.lba[p] + SectorsFor(l.len[p]) \in Nat /\ l.lba[p] + SectorsFor(l.len[p]) <= next[N]
    <3>1. PICK i \in 1..N : Placing(t)[i] = p
      BY <1>1 DEF Lists
    <3>2. i \in 0..N
      BY <1>1
    <3>3. l.lba[p] = next[i - 1] /\ l.len[p] = LenOf(t, p)
          /\ next[i] = next[i - 1] + SectorsFor(LenOf(t, p))
      BY <3>1 DEF Placed
    <3> QED BY <3>2, <3>3 DEF Placed
  <2> HIDE DEF N, l
  <2> QED BY <2>1, <2>2
<1>3. next[N] \in ends
  <2>1. CASE N = 0
    BY <2>1 DEF Placed
  <2>2. CASE N # 0
    <3>1. N \in 1..N
      BY <1>1, <2>2
    <3>2. PICK p : p = Placing(t)[N]
      OBVIOUS
    <3>3. p \in DOMAIN t
      BY <1>1, <3>1, <3>2 DEF Lists
    <3>4. next[N] = l.lba[p] + SectorsFor(l.len[p])
      BY <3>1, <3>2, <3>3 DEF Placed
    <3> QED BY <3>3, <3>4
  <2> QED BY <2>1, <2>2
<1>4. TotalSectors(t, l) = CHOOSE e \in ends : \A x \in ends : x <= e
  BY DEF TotalSectors
<1> HIDE DEF ends
<1>5. \A e \in ends : (\A x \in ends : x <= e) => e = next[N]
  <2> TAKE e \in ends
  <2> SUFFICES ASSUME \A x \in ends : x <= e
               PROVE  e = next[N]
    OBVIOUS
  <2>1. next[N] <= e /\ e <= next[N] /\ e \in Nat /\ next[N] \in Nat
    BY <1>2, <1>3
  <2> QED BY <2>1
<1>6. \A x \in ends : x <= next[N]
  BY <1>2
<1> QED BY <1>3, <1>4, <1>5, <1>6

---------------------------------------------------------------------------
(* The writes *)

\* Sectors that go to a place of the image, and a sequence of such writes.
IsWrite(w) == w.lba \in Nat /\ Len(w.sectors) \in Nat
IsPlan(ws) == ws \in Seq(Elements(ws)) /\ \A w \in Elements(ws) : IsWrite(w)

(* ws begins at sector a and ends before sector b, each write where the    *)
(* one before it ends.                                                     *)
Chained(ws, a, b) ==
  \E at : /\ at[0] = a /\ at[Len(ws)] = b
          /\ \A i \in 1..Len(ws) : ws[i].lba = at[i - 1] /\ EndOf(ws[i]) = at[i]

\* A sequence of writes.
LEMMA PlanIs ==
  ASSUME NEW m \in Nat, NEW ws, ws = [i \in 1..m |-> ws[i]], \A i \in 1..m : IsWrite(ws[i])
  PROVE  IsPlan(ws) /\ Len(ws) = m
<1>1. PICK S : S = {ws[i] : i \in 1..m}
  OBVIOUS
<1>2. ws \in [1..m -> S]
  BY <1>1
<1>3. ws \in Seq(S) /\ Len(ws) = m
  BY <1>2, FunctionIsSequence
<1>4. Elements(ws) = S
  BY <1>1, <1>3 DEF Elements
<1>5. \A w \in S : IsWrite(w)
  BY <1>1
<1> QED BY <1>3, <1>4, <1>5 DEF IsPlan

\* Two runs of writes, one behind the other, are one ...
LEMMA PlansJoin ==
  ASSUME NEW u, NEW v, IsPlan(u), IsPlan(v)
  PROVE  /\ IsPlan(u \o v) /\ Len(u) \in Nat /\ Len(v) \in Nat
         /\ Len(u \o v) = Len(u) + Len(v)
         /\ \A i \in 1..Len(u) : (u \o v)[i] = u[i]
         /\ \A i \in 1..Len(v) : (u \o v)[Len(u) + i] = v[i]
<1>1. PICK S : S = Elements(u) \cup Elements(v)
  OBVIOUS
<1>2. u \in Seq(S) /\ v \in Seq(S)
  <2>1. u \in Seq(Elements(u)) /\ v \in Seq(Elements(v))
    BY DEF IsPlan
  <2>2. PICK A : A = Elements(u)
    OBVIOUS
  <2>3. PICK B : B = Elements(v)
    OBVIOUS
  <2> QED BY <1>1, <2>1, <2>2, <2>3
<1>3. PICK w : w = u \o v
  OBVIOUS
<1>4. /\ w \in Seq(S) /\ Len(w) = Len(u) + Len(v) /\ Len(u) \in Nat /\ Len(v) \in Nat
      /\ \A i \in 1..Len(u) : w[i] = u[i]
      /\ \A i \in 1..Len(v) : w[Len(u) + i] = v[i]
  BY <1>2, <1>3, Joined
<1>5. \A x \in S : IsWrite(x)
  BY <1>1 DEF IsPlan
<1>6. \A i \in 1..Len(w) : w[i] \in S
  BY <1>4
<1>7. w = [i \in 1..Len(w) |-> w[i]] /\ Len(w) \in Nat
  BY <1>4
<1>8. IsPlan(w)
  BY <1>5, <1>6, <1>7, PlanIs
<1> QED BY <1>3, <1>4, <1>8

\* ... from where the first begins to where the second ends.
LEMMA ChainsJoin ==
  ASSUME NEW u, NEW v, IsPlan(u), IsPlan(v), NEW a, NEW b, NEW c, Chained(u, a, b), Chained(v, b, c)
  PROVE  Chained(u \o v, a, c)
<1>1. PICK f : /\ f[0] = a /\ f[Len(u)] = b
               /\ \A i \in 1..Len(u) : u[i].lba = f[i - 1] /\ EndOf(u[i]) = f[i]
  BY Zenon DEF Chained
<1>2. PICK g : /\ g[0] = b /\ g[Len(v)] = c
               /\ \A i \in 1..Len(v) : v[i].lba = g[i - 1] /\ EndOf(v[i]) = g[i]
  BY Zenon DEF Chained
<1>3. PICK w : w = u \o v
  OBVIOUS
<1>4. /\ Len(u) \in Nat /\ Len(v) \in Nat /\ Len(w) = Len(u) + Len(v)
      /\ \A i \in 1..Len(u) : w[i] = u[i]
      /\ \A i \in 1..Len(v) : w[Len(u) + i] = v[i]
  BY <1>3, PlansJoin
<1>5. PICK h : h = [i \in 0..Len(w) |-> IF i <= Len(u) THEN f[i] ELSE g[i - Len(u)]]
  OBVIOUS
<1>6. /\ \A i \in 0..Len(u) : h[i] = f[i]
      /\ \A i \in 1..Len(v) : h[Len(u) + i] = g[i]
  BY <1>4, <1>5
<1>7. \A i \in 0..Len(v) : h[Len(u) + i] = g[i]
  <2>1. h[Len(u) + 0] = g[0]
    <3>1. Len(u) + 0 = Len(u) /\ Len(u) \in 0..Len(u)
      BY <1>4
    <3> QED BY <1>1, <1>2, <1>6, <3>1
  <2> QED BY <1>4, <1>6, <2>1
<1>8. h[0] = a /\ h[Len(w)] = c
  <2>1. 0 \in 0..Len(u) /\ Len(v) \in 0..Len(v)
    BY <1>4
  <2> QED BY <1>1, <1>2, <1>4, <1>6, <1>7, <2>1
<1>9. ASSUME NEW i \in 1..Len(w)
      PROVE  w[i].lba = h[i - 1] /\ EndOf(w[i]) = h[i]
  <2>1. CASE i \in 1..Len(u)
    <3>1. i \in 0..Len(u) /\ i - 1 \in 0..Len(u)
      BY <1>4, <2>1
    <3> QED BY <1>1, <1>4, <1>6, <2>1, <3>1
  <2>2. CASE i \notin 1..Len(u)
    <3>1. PICK k \in 1..Len(v) : i = Len(u) + k
      <4>1. i - Len(u) \in 1..Len(v) /\ i = Len(u) + (i - Len(u))
        BY <1>4, <2>2
      <4> QED BY <4>1
    <3>2. k \in 0..Len(v) /\ k - 1 \in 0..Len(v) /\ i - 1 = Len(u) + (k - 1)
      BY <1>4, <3>1
    <3>3. h[i] = g[k] /\ h[i - 1] = g[k - 1] /\ w[i] = v[k]
      BY <1>4, <1>7, <3>1, <3>2
    <3> QED BY <1>2, <3>1, <3>3
  <2> QED BY <2>1, <2>2
<1>10. Chained(w, a, c)
  BY <1>8, <1>9, Zenon DEF Chained
<1> QED BY <1>3, <1>10

\* WriteTo goes through the files in the order layout placed them in.
LEMMA WrittenAsPlaced ==
  ASSUME NEW t
  PROVE  WrittenFiles(t) = OrderedFiles(t)
BY DEF WrittenFiles, OrderedFiles

\* FilesWithData goes through the files and leaves out those without data.
LEMMA FilesKept ==
  ASSUME NEW t, NEW S, NEW files \in Seq(S), files = OrderedFiles(t)
  PROVE  \E kept :
           /\ FilesWithData(t) = kept[Len(files)]
           /\ kept[0] = << >>
           /\ \A i \in 1..Len(files) :
                kept[i] = IF t[files[i]].data.size = 0 THEN kept[i - 1] ELSE Append(kept[i - 1], files[i])
           /\ \A i \in 0..Len(files) : kept[i] \in Seq(S)
<1> DEFINE n == Len(files)
           F == Seq(S)
           next(i, s) == IF t[files[i]].data.size = 0 THEN s ELSE Append(s, files[i])
           step == [i \in 1..n |-> [s \in F |-> next(i, s)]]
           Rec(f) == f = [i \in 0..n |-> IF i = 0 THEN << >>
                                         ELSE IF t[files[i]].data.size = 0 THEN f[i - 1]
                                         ELSE Append(f[i - 1], files[i])]
           kept == CHOOSE f : Rec(f)
<1>1. n \in Nat /\ \A i \in 1..n : files[i] \in S
  OBVIOUS
<1>2. << >> \in F
  OBVIOUS
<1>3. \A i \in 1..n : \A s \in F : next(i, s) \in F
  <2> TAKE i \in 1..n
  <2> TAKE s \in F
  <2>1. PICK c \in S : c = files[i]
    BY <1>1
  <2>2. Append(s, c) \in F
    OBVIOUS
  <2> QED BY <2>1, <2>2
<1>4. Steps(n, F, << >>, step)
  <2> HIDE DEF F, next
  <2>1. step \in [1..n -> [F -> F]]
    BY <1>1, <1>3
  <2> HIDE DEF step
  <2> QED BY <1>1, <1>2, <2>1 DEF Steps
<1>5. PICK f : Takes(n, F, << >>, step, f)
  <2> HIDE DEF F, step
  <2> QED BY <1>4, RecursionExists
<1>6. f \in [0..n -> F] /\ f[0] = << >> /\ \A i \in 1..n : f[i] = step[i][f[i - 1]]
  <2> HIDE DEF F, step
  <2> QED BY <1>5 DEF Takes
<1>7. \A i \in 1..n : f[i] = next(i, f[i - 1])
  <2> TAKE i \in 1..n
  <2> HIDE DEF n, F, next
  <2>1. i - 1 \in 0..n
    BY <1>1
  <2>2. f[i - 1] \in F
    BY <1>6, <2>1
  <2>3. step[i] = [x \in F |-> next(i, x)]
    OBVIOUS
  <2> HIDE DEF step
  <2>4. step[i][f[i - 1]] = next(i, f[i - 1])
    BY <2>2, <2>3
  <2> QED BY <1>6, <2>4
<1>8. Rec(f)
  <2> HIDE DEF F, n
  <2>1. f = [i \in 0..n |-> f[i]]
    BY <1>6
  <2>2. \A i \in 0..n : i # 0 => i \in 1..n
    BY <1>1
  <2>3. \A i \in 0..n : f[i] = IF i = 0 THEN << >>
                               ELSE IF t[files[i]].data.size = 0 THEN f[i - 1]
                               ELSE Append(f[i - 1], files[i])
    BY <1>6, <1>7, <2>2
  <2> QED BY <2>1, <2>3
<1>9. Rec(kept)
  <2> HIDE DEF Rec
  <2> QED BY <1>8
<1>10. FilesWithData(t) = kept[n]
  BY WrittenAsPlaced DEF FilesWithData
<1>11. kept[0] = << >> /\ \A i \in 1..n : kept[i] = next(i, kept[i - 1])
  <2>1. kept = [i \in 0..n |-> IF i = 0 THEN << >>
                               ELSE IF t[files[i]].data.size = 0 THEN kept[i - 1]
                               ELSE Append(kept[i - 1], files[i])]
    <3> HIDE DEF kept
    <3> QED BY <1>9
  <2> HIDE DEF kept, n
  <2>2. \A i \in 0..n : kept[i] = IF i = 0 THEN << >>
                               ELSE IF t[files[i]].data.size = 0 THEN kept[i - 1]
                               ELSE Append(kept[i - 1], files[i])
    BY <2>1
  <2> QED BY <1>1, <2>2
<1> HIDE DEF kept, n, F, step, Rec
<1>12. \A i \in 0..n : kept[i] \in F
  <2>1. kept[0] \in F
    BY <1>2, <1>11
  <2> HIDE DEF next
  <2>2. ASSUME NEW i \in 1..n, kept[i - 1] \in F
        PROVE  kept[i] \in F
    BY <1>3, <1>11, <2>2, Zenon
  <2> QED BY <1>1, <2>1, <2>2, StaysIn
<1> QED BY <1>10, <1>11, <1>12 DEF n, F

\* A run of writes continues with one that begins where it ends.
LEMMA ChainGrows ==
  ASSUME NEW u, NEW v, Len(u) \in Nat, Len(v) = Len(u) + 1,
         \A i \in 1..Len(u) : v[i] = u[i],
         NEW a, NEW b, Chained(u, a, b), v[Len(v)].lba = b, NEW c, EndOf(v[Len(v)]) = c
  PROVE  Chained(v, a, c)
<1>1. PICK f : /\ f[0] = a /\ f[Len(u)] = b
               /\ \A i \in 1..Len(u) : u[i].lba = f[i - 1] /\ EndOf(u[i]) = f[i]
  BY Zenon DEF Chained
<1>2. PICK h : h = [i \in 0..Len(v) |-> IF i <= Len(u) THEN f[i] ELSE c]
  OBVIOUS
<1>3. (\A i \in 0..Len(u) : h[i] = f[i]) /\ h[Len(v)] = c
  BY <1>2
<1>4. h[0] = a /\ h[Len(u)] = b
  BY <1>1, <1>3
<1>5. ASSUME NEW i \in 1..Len(v)
      PROVE  v[i].lba = h[i - 1] /\ EndOf(v[i]) = h[i]
  <2>1. CASE i = Len(v)
    <3>1. i - 1 = Len(u)
      BY <2>1
    <3> QED BY <1>3, <1>4, <2>1, <3>1
  <2>2. CASE i # Len(v)
    <3>1. i \in 1..Len(u) /\ i \in 0..Len(u) /\ i - 1 \in 0..Len(u)
      BY <2>2
    <3> QED BY <1>1, <1>3, <3>1
  <2> QED BY <2>1, <2>2
<1> QED BY <1>3, <1>4, <1>5, Zenon DEF Chained

\* No writes cover no sectors.
LEMMA ChainOfNone ==
  ASSUME NEW u, Len(u) = 0, NEW a
  PROVE  Chained(u, a, a)
<1>1. PICK h : h = [i \in 0..0 |-> a]
  OBVIOUS
<1>2. h[0] = a /\ h[Len(u)] = a
  BY <1>1
<1>3. \A i \in 1..Len(u) : u[i].lba = h[i - 1] /\ EndOf(u[i]) = h[i]
  OBVIOUS
<1> QED BY <1>2, <1>3, Zenon DEF Chained

\* What layout and WriteTo compute with does not overflow.
SizesFit(t) ==
  /\ PathTableSize(t) + SectorSize <= Word
  /\ \A p \in DOMAIN t :
       (IF t[p].isDir THEN DirectoryExtentSize(t, p) ELSE t[p].data.size) + SectorSize <= Word

\* SectorsFor rounds up if it does not wrap.
LEMMA SectorsOf ==
  ASSUME NEW k \in Nat, k + SectorSize <= Word
  PROVE  /\ SectorsFor(k) = (k + SectorSize - 1) \div SectorSize
         /\ k % Word = k
         /\ k = 0 => SectorsFor(k) = 0
<1>1. SectorSize \in Nat \ {0} /\ Word \in Nat \ {0}
  BY BuilderAssumption
<1>2. k + SectorSize - 1 \in Nat /\ k + SectorSize - 1 < Word /\ k < Word
  BY <1>1
<1>3. PICK m \in Nat : m = k + SectorSize - 1 /\ m < Word
  BY <1>2
<1>4. m % Word = m /\ k % Word = k
  BY <1>1, <1>2, <1>3, Remainder
<1>5. SectorsFor(k) = m \div SectorSize
  BY <1>3, <1>4 DEF SectorsFor
<1>6. k = 0 => m \div SectorSize = 0
  BY <1>1, <1>3
<1> QED BY <1>3, <1>4, <1>5, <1>6

\* k sectors are k sectors, rounded up or down.
LEMMA WholeSectors ==
  ASSUME NEW k \in Nat
  PROVE  /\ (k * SectorSize + SectorSize - 1) \div SectorSize = k
         /\ (k * SectorSize) \div SectorSize = k
<1>1. SectorSize \in Nat \ {0}
  BY BuilderAssumption
<1>2. PICK b \in Nat \ {0} : b = SectorSize
  BY <1>1
<1>3. ASSUME NEW r \in 0..(b - 1)
      PROVE  (k * b + r) \div b = k
  <2>1. k * b \in Nat
    OBVIOUS
  <2>2. PICK m \in Nat : m = k * b + r
    BY <2>1
  <2>3. PICK q \in Nat : q = m \div b
    BY <2>2, Division
  <2>4. q * b <= m /\ m < q * b + b
    BY <2>2, <2>3, Division
  <2>5. q * b < k * b + b /\ k * b < q * b + b
    BY <2>1, <2>2, <2>4
  <2>6. q <= k /\ k <= q
    BY <2>5, Multiples
  <2> QED BY <2>2, <2>3, <2>6
<1>4. b - 1 \in 0..(b - 1) /\ 0 \in 0..(b - 1)
  OBVIOUS
<1>5. k * b \in Nat
  OBVIOUS
<1>6. PICK x \in Nat : x = k * b
  BY <1>5
<1>7. (x + (b - 1)) \div b = k /\ (x + 0) \div b = k
  BY <1>3, <1>4, <1>6
<1>8. x + (b - 1) = x + b - 1 /\ x + 0 = x
  OBVIOUS
<1> QED BY <1>2, <1>6, <1>7, <1>8

\* The write of a directory ...
DirWrite(t, d) == WriteAt(Layout(t).lba[d], DirectoryExtent(t, Layout(t), d))

\* ... and of a file.
FileWrite(t, p) == WriteAt(Layout(t).lba[p], FileData(t[p].data))

\* A write has a place and sectors.
LEMMA WriteIs ==
  ASSUME NEW lba, NEW sectors
  PROVE  WriteAt(lba, sectors).lba = lba /\ WriteAt(lba, sectors).sectors = sectors
BY DEF WriteAt

\* Every node has a place and a length.
LEMMA Placements ==
  ASSUME NEW t, NEW n, TreeInv(t, n), Distinct(t), NEW p \in DOMAIN t
  PROVE  Layout(t).lba[p] \in Nat /\ Layout(t).len[p] = LenOf(t, p)
<1>1. PICK next : Placed(t, next)
  BY LayoutPlaces
<1>2. Lists(DOMAIN t, Placing(t))
  BY PlacingLists
<1>3. PICK i \in 1..Len(Placing(t)) : Placing(t)[i] = p
  BY <1>2 DEF Lists
<1>4. Len(Placing(t)) \in Nat
  BY <1>2 DEF Lists
<1>5. i - 1 \in 0..Len(Placing(t))
  BY <1>4
<1>6. Layout(t).lba[p] = next[i - 1] /\ next[i - 1] \in Nat
  BY <1>1, <1>3, <1>5 DEF Placed
<1>7. Layout(t).len[p] = LenOf(t, p)
  BY <1>1 DEF Placed
<1> QED BY <1>6, <1>7

\* WriteTo writes as much of a directory as layout left room for ...
LEMMA DirWriteIs ==
  ASSUME NEW t, NEW n, TreeInv(t, n), Distinct(t), NEW d \in Directories(t)
  PROVE  /\ IsWrite(DirWrite(t, d)) /\ DirWrite(t, d).lba = Layout(t).lba[d]
         /\ SizesFit(t) => EndOf(DirWrite(t, d)) = Layout(t).lba[d] + SectorsFor(LenOf(t, d))
<1>1. d \in DOMAIN t /\ t[d].isDir
  BY DEF Directories
<1>2. PICK k \in Nat : DirectoryExtentSize(t, d) = k * SectorSize
  BY <1>1, ExtentSize
<1>3. LenOf(t, d) = k * SectorSize /\ Layout(t).len[d] = k * SectorSize /\ Layout(t).lba[d] \in Nat
  BY <1>1, <1>2, Placements DEF LenOf
<1>4. PICK s : s = DirectoryExtent(t, Layout(t), d)
  OBVIOUS
<1>5. PICK m : m = Layout(t).len[d] \div SectorSize
  OBVIOUS
<1>6. m = k
  BY <1>3, <1>5, WholeSectors
<1>7. DOMAIN s = 1..m /\ s = [i \in DOMAIN s |-> s[i]]
  BY <1>4, <1>5 DEF DirectoryExtent
<1>8. Len(s) = k
  BY <1>6, <1>7, LengthOf
<1>9. DirWrite(t, d).lba = Layout(t).lba[d] /\ DirWrite(t, d).sectors = s
  BY <1>4, WriteIs DEF DirWrite
<1>10. ASSUME SizesFit(t)
       PROVE  SectorsFor(LenOf(t, d)) = k
  <2>1. PICK x : x = k * SectorSize
    OBVIOUS
  <2>2. x \in Nat
    BY <2>1, BuilderAssumption
  <2>3. x + SectorSize <= Word
    BY <1>1, <1>2, <1>10, <2>1 DEF SizesFit
  <2>4. SectorsFor(x) = (x + SectorSize - 1) \div SectorSize
    BY <2>2, <2>3, SectorsOf
  <2> QED BY <1>3, <2>1, <2>4, WholeSectors
<1> QED BY <1>3, <1>8, <1>9, <1>10 DEF IsWrite, EndOf

\* ... and of a file; nothing of an empty one.
LEMMA FileWriteIs ==
  ASSUME NEW t, NEW n, TreeInv(t, n), Distinct(t), NEW p \in DOMAIN t \ Directories(t)
  PROVE  /\ IsWrite(FileWrite(t, p)) /\ FileWrite(t, p).lba = Layout(t).lba[p]
         /\ SizesFit(t) =>
              /\ EndOf(FileWrite(t, p)) = Layout(t).lba[p] + SectorsFor(LenOf(t, p))
              /\ t[p].data.size = 0 => SectorsFor(LenOf(t, p)) = 0
<1>1. p \in DOMAIN t /\ ~t[p].isDir
  BY DEF Directories
<1>2. PICK k \in Nat : t[p].data.size = k
  BY <1>1, LengthsTyped
<1>3. LenOf(t, p) = k % Word /\ Layout(t).lba[p] \in Nat
  BY <1>1, <1>2, Placements DEF LenOf
<1>4. PICK s : s = FileData(t[p].data)
  OBVIOUS
<1>5. SectorSize \in Nat \ {0}
  BY BuilderAssumption
<1>6. PICK m \in Nat : m = (k + SectorSize - 1) \div SectorSize
  <2>1. PICK x \in Nat : x = k + SectorSize - 1
    BY <1>5
  <2> QED BY <1>5, <2>1, Division
<1>7. DOMAIN s = 1..m /\ s = [i \in DOMAIN s |-> s[i]]
  BY <1>2, <1>4, <1>6 DEF FileData
<1>8. Len(s) = m
  BY <1>7, LengthOf
<1>9. FileWrite(t, p).lba = Layout(t).lba[p] /\ FileWrite(t, p).sectors = s
  BY <1>4, WriteIs DEF FileWrite
<1>10. ASSUME SizesFit(t)
       PROVE  SectorsFor(LenOf(t, p)) = m /\ (k = 0 => SectorsFor(LenOf(t, p)) = 0)
  <2>1. k + SectorSize <= Word
    BY <1>1, <1>2, <1>10 DEF SizesFit
  <2> QED BY <1>3, <1>6, <2>1, SectorsOf
<1> QED BY <1>2, <1>3, <1>8, <1>9, <1>10 DEF IsWrite, EndOf

\* The writes of WriteTo: the system area ...
Zeros == [s \in 1..SystemArea |-> WriteAt(s - 1, <<[kind |-> "zero"]>>)]

\* The system area is written from sector 0.
LEMMA ZerosChained == IsPlan(Zeros) /\ Chained(Zeros, 0, SystemArea)
<1>1. SystemArea \in Nat
  BY BuilderAssumption
<1>2. PICK z : z = <<[kind |-> "zero"]>>
  OBVIOUS
<1>3. Len(z) = 1
  BY <1>2
<1>4. PICK ws : ws = Zeros
  OBVIOUS
<1>5. ws = [s \in 1..SystemArea |-> WriteAt(s - 1, z)]
  BY <1>2, <1>4 DEF Zeros
<1>6. \A i \in 1..SystemArea : ws[i] = WriteAt(i - 1, z)
  BY <1>5
<1>7. \A i \in 1..SystemArea : ws[i].lba = i - 1 /\ ws[i].sectors = z
  BY <1>6, WriteIs
<1>8. \A i \in 1..SystemArea : IsWrite(ws[i]) /\ EndOf(ws[i]) = i
  <2> TAKE i \in 1..SystemArea
  <2>1. ws[i].lba = i - 1 /\ Len(ws[i].sectors) = 1
    BY <1>3, <1>7
  <2>2. i - 1 \in Nat /\ i - 1 + 1 = i
    BY <1>1
  <2> QED BY <2>1, <2>2 DEF IsWrite, EndOf
<1>9. ws = [i \in 1..SystemArea |-> ws[i]]
  BY <1>5
<1>10. IsPlan(ws) /\ Len(ws) = SystemArea
  BY <1>1, <1>8, <1>9, PlanIs
<1>11. PICK at : at = [i \in 0..SystemArea |-> i]
  OBVIOUS
<1>12. at[0] = 0 /\ at[Len(ws)] = SystemArea
       /\ \A i \in 1..Len(ws) : ws[i].lba = at[i - 1] /\ EndOf(ws[i]) = at[i]
  BY <1>1, <1>7, <1>8, <1>10, <1>11
<1>13. Chained(ws, 0, SystemArea)
  BY <1>12, Zenon DEF Chained
<1> QED BY <1>4, <1>10, <1>13

\* ... the descriptors and the path tables ...
Descriptors(t) ==
  << WriteAt(SystemArea, <<PrimaryVolumeDescriptor(t, Layout(t))>>),
     WriteAt(SystemArea + 1, <<[kind |-> "terminator"]>>),
     WriteAt(PathTableLLBA, PathTable(t, Layout(t), FALSE)),
     WriteAt(PathTableMLBA(t), PathTable(t, Layout(t), TRUE)) >>

\* A path table takes the sectors layout left for it.
LEMMA PathTableLength ==
  ASSUME NEW t, NEW n, TreeInv(t, n), Distinct(t), NEW msb
  PROVE  /\ Len(PathTable(t, Layout(t), msb)) \in Nat
         /\ SizesFit(t) => Len(PathTable(t, Layout(t), msb)) = PathTableSectors(t)
<1>1. PICK k \in Nat : k = PathTableSize(t)
  BY LengthsTyped
<1>2. SectorSize \in Nat \ {0}
  BY BuilderAssumption
<1>3. PICK m \in Nat : m = (k + SectorSize - 1) \div SectorSize
  <2>1. PICK x \in Nat : x = k + SectorSize - 1
    BY <1>2
  <2> QED BY <1>2, <2>1, Division
<1>4. PICK s : s = PathTable(t, Layout(t), msb)
  OBVIOUS
<1>5. DOMAIN s = 1..m /\ s = [i \in DOMAIN s |-> s[i]]
  BY <1>1, <1>3, <1>4 DEF PathTable
<1>6. Len(s) = m
  BY <1>5, LengthOf
<1>7. SizesFit(t) => PathTableSectors(t) = m
  <2> SUFFICES ASSUME SizesFit(t)
               PROVE  PathTableSectors(t) = m
    OBVIOUS
  <2>1. k + SectorSize <= Word
    BY <1>1 DEF SizesFit
  <2> QED BY <1>1, <1>3, <2>1, SectorsOf DEF PathTableSectors
<1> QED BY <1>4, <1>6, <1>7

\* Four writes, one behind the other.
LEMMA FourWrites ==
  ASSUME NEW w1, NEW w2, NEW w3, NEW w4, IsWrite(w1), IsWrite(w2), IsWrite(w3), IsWrite(w4)
  PROVE  /\ IsPlan(<<w1, w2, w3, w4>>)
         /\ EndOf(w1) = w2.lba /\ EndOf(w2) = w3.lba /\ EndOf(w3) = w4.lba
              => Chained(<<w1, w2, w3, w4>>, w1.lba, EndOf(w4))
<1>1. PICK ws : ws = <<w1, w2, w3, w4>>
  OBVIOUS
<1>2. /\ ws[1] = w1 /\ ws[2] = w2 /\ ws[3] = w3 /\ ws[4] = w4 /\ Len(ws) = 4
      /\ ws = [i \in 1..4 |-> ws[i]]
  BY <1>1
<1>3. \A i \in 1..4 : i = 1 \/ i = 2 \/ i = 3 \/ i = 4
  OBVIOUS
<1>4. \A i \in 1..4 : IsWrite(ws[i])
  BY <1>2, <1>3
<1>5. IsPlan(ws)
  BY <1>2, <1>4, PlanIs
<1>6. ASSUME EndOf(w1) = w2.lba, EndOf(w2) = w3.lba, EndOf(w3) = w4.lba
      PROVE  Chained(ws, w1.lba, EndOf(w4))
  <2>1. PICK at : at = [i \in 0..4 |-> IF i = 0 THEN w1.lba ELSE EndOf(ws[i])]
    OBVIOUS
  <2>2. at[0] = w1.lba /\ \A i \in 1..4 : at[i] = EndOf(ws[i])
    BY <2>1
  <2>3. at[1] = w2.lba /\ at[2] = w3.lba /\ at[3] = w4.lba /\ at[4] = EndOf(w4)
    BY <1>2, <1>6, <2>2
  <2>4. \A i \in 1..4 : ws[i].lba = at[i - 1]
    BY <1>2, <1>3, <2>2, <2>3
  <2>5. at[0] = w1.lba /\ at[Len(ws)] = EndOf(w4)
        /\ \A i \in 1..Len(ws) : ws[i].lba = at[i - 1] /\ EndOf(ws[i]) = at[i]
    BY <1>2, <2>2, <2>3, <2>4
  <2> QED BY <2>5, Zenon DEF Chained
<1> QED BY <1>1, <1>5, <1>6

\* The descriptors and the path tables fill the sectors up to the first extent.
LEMMA DescriptorsChained ==
  ASSUME NEW t, NEW n, TreeInv(t, n), Distinct(t)
  PROVE  /\ IsPlan(Descriptors(t))
         /\ SizesFit(t) => Chained(Descriptors(t), SystemArea, PathTableMLBA(t) + PathTableSectors(t))
<1>1. SystemArea \in Nat /\ PathTableLLBA \in Nat /\ PathTableLLBA = SystemArea + 2
  BY BuilderAssumption DEF PathTableLLBA
<1>2. PathTableMLBA(t) \in Nat /\ PathTableSectors(t) \in Nat
      /\ PathTableMLBA(t) = PathTableLLBA + PathTableSectors(t)
  BY LengthsTyped DEF PathTableMLBA
<1>3. PICK w1 : w1 = WriteAt(SystemArea, <<PrimaryVolumeDescriptor(t, Layout(t))>>)
  OBVIOUS
<1>4. PICK w2 : w2 = WriteAt(SystemArea + 1, <<[kind |-> "terminator"]>>)
  OBVIOUS
<1>5. PICK w3 : w3 = WriteAt(PathTableLLBA, PathTable(t, Layout(t), FALSE))
  OBVIOUS
<1>6. PICK w4 : w4 = WriteAt(PathTableMLBA(t), PathTable(t, Layout(t), TRUE))
  OBVIOUS
<1>7. \A x : Len(<<x>>) = 1
  OBVIOUS
<1>8. w1.lba = SystemArea /\ Len(w1.sectors) = 1
  BY <1>3, <1>7, WriteIs
<1>9. w2.lba = SystemArea + 1 /\ Len(w2.sectors) = 1
  BY <1>4, <1>7, WriteIs
<1>10. /\ w3.lba = PathTableLLBA /\ Len(w3.sectors) \in Nat
       /\ SizesFit(t) => Len(w3.sectors) = PathTableSectors(t)
  <2>1. PICK b : b = FALSE
    OBVIOUS
  <2>2. PICK s : s = PathTable(t, Layout(t), b)
    OBVIOUS
  <2>3. Len(s) \in Nat /\ (SizesFit(t) => Len(s) = PathTableSectors(t))
    BY <2>2, PathTableLength
  <2>4. w3.lba = PathTableLLBA /\ w3.sectors = s
    BY <1>5, <2>1, <2>2, WriteIs, Zenon
  <2> QED BY <2>3, <2>4
<1>11. /\ w4.lba = PathTableMLBA(t) /\ Len(w4.sectors) \in Nat
       /\ SizesFit(t) => Len(w4.sectors) = PathTableSectors(t)
  <2>1. PICK b : b = TRUE
    OBVIOUS
  <2>2. PICK s : s = PathTable(t, Layout(t), b)
    OBVIOUS
  <2>3. Len(s) \in Nat /\ (SizesFit(t) => Len(s) = PathTableSectors(t))
    BY <2>2, PathTableLength
  <2>4. w4.lba = PathTableMLBA(t) /\ w4.sectors = s
    BY <1>6, <2>1, <2>2, WriteIs, Zenon
  <2> QED BY <2>3, <2>4
<1>12. IsWrite(w1) /\ IsWrite(w2) /\ IsWrite(w3) /\ IsWrite(w4)
  BY <1>1, <1>2, <1>8, <1>9, <1>10, <1>11 DEF IsWrite
<1>13. Descriptors(t) = <<w1, w2, w3, w4>>
  BY <1>3, <1>4, <1>5, <1>6, Zenon DEF Descriptors
<1>14. ASSUME SizesFit(t)
       PROVE  /\ EndOf(w1) = w2.lba /\ EndOf(w2) = w3.lba /\ EndOf(w3) = w4.lba
              /\ EndOf(w4) = PathTableMLBA(t) + PathTableSectors(t)
  <2>1. EndOf(w1) = w2.lba /\ EndOf(w2) = w3.lba
    BY <1>1, <1>8, <1>9, <1>10 DEF EndOf
  <2>2. EndOf(w3) = w4.lba
    BY <1>2, <1>10, <1>11, <1>14 DEF EndOf
  <2>3. EndOf(w4) = PathTableMLBA(t) + PathTableSectors(t)
    BY <1>11, <1>14 DEF EndOf
  <2> QED BY <2>1, <2>2, <2>3
<1>15. IsPlan(<<w1, w2, w3, w4>>)
  BY <1>12, FourWrites
<1>16. SizesFit(t) => Chained(<<w1, w2, w3, w4>>, SystemArea, PathTableMLBA(t) + PathTableSectors(t))
  <2> SUFFICES ASSUME SizesFit(t)
               PROVE  Chained(<<w1, w2, w3, w4>>, SystemArea, PathTableMLBA(t) + PathTableSectors(t))
    OBVIOUS
  <2>1. Chained(<<w1, w2, w3, w4>>, w1.lba, EndOf(w4))
    BY <1>12, <1>14, FourWrites
  <2> QED BY <1>8, <1>14, <2>1
<1> QED BY <1>13, <1>15, <1>16

\* ... the directories ...
DirWrites(t) == [i \in 1..Len(OrderedDirs(t)) |-> DirWrite(t, OrderedDirs(t)[i])]

\* The directories are written one behind the other, in the order of the layout.
LEMMA DirsChained ==
  ASSUME NEW t, NEW n, TreeInv(t, n), Distinct(t), NEW next, Placed(t, next)
  PROVE  /\ IsPlan(DirWrites(t))
         /\ SizesFit(t) => Chained(DirWrites(t), next[0], next[Len(OrderedDirs(t))])
<1>1. PICK dirs : dirs = OrderedDirs(t)
  OBVIOUS
<1>2. PICK m \in Nat : m = Len(dirs)
  BY <1>1, PlacingLists DEF Lists
<1>3. \A i \in 1..m : dirs[i] \in Directories(t) /\ dirs[i] = Placing(t)[i] /\ i \in 1..Len(Placing(t))
  <2>1. /\ dirs \in Seq(Directories(t)) /\ Len(Placing(t)) = m + Len(OrderedFiles(t)) /\ Len(OrderedFiles(t)) \in Nat
        /\ \A i \in 1..m : Placing(t)[i] = dirs[i]
    BY <1>1, <1>2, PlacingLists DEF Lists
  <2>2. \A i \in 1..m : dirs[i] \in Directories(t)
    BY <1>2, <2>1
  <2>3. \A i \in 1..m : i \in 1..Len(Placing(t))
    BY <2>1
  <2> QED BY <2>1, <2>2, <2>3
<1>4. PICK ws : ws = DirWrites(t)
  OBVIOUS
<1>5. ws = [i \in 1..m |-> ws[i]] /\ \A i \in 1..m : ws[i] = DirWrite(t, dirs[i])
  <2>1. ws = [i \in 1..m |-> DirWrite(t, dirs[i])]
    BY <1>1, <1>2, <1>4, Zenon DEF DirWrites
  <2> QED BY <2>1
<1>6. \A i \in 1..m : IsWrite(ws[i])
  BY <1>3, <1>5, DirWriteIs
<1>7. IsPlan(ws) /\ Len(ws) = m
  BY <1>5, <1>6, PlanIs
<1>8. ASSUME SizesFit(t), NEW i \in 1..m
      PROVE  ws[i].lba = next[i - 1] /\ EndOf(ws[i]) = next[i]
  <2>1. PICK p \in Directories(t) : p = dirs[i]
    BY <1>3
  <2>2. /\ next[i] = next[i - 1] + SectorsFor(LenOf(t, p))
        /\ Layout(t).lba[p] = next[i - 1]
    BY <1>3, <2>1 DEF Placed
  <2>3. ws[i].lba = Layout(t).lba[p] /\ EndOf(ws[i]) = Layout(t).lba[p] + SectorsFor(LenOf(t, p))
    BY <1>5, <1>8, <2>1, DirWriteIs
  <2> QED BY <2>2, <2>3
<1>9. SizesFit(t) => Chained(ws, next[0], next[m])
  BY <1>7, <1>8, Zenon DEF Chained
<1> QED BY <1>1, <1>2, <1>4, <1>7, <1>9

\* ... and the files of s.
FileWrites(t, s) == [i \in 1..Len(s) |-> FileWrite(t, s[i])]

\* The writes of files are writes.
LEMMA FilesPlanned ==
  ASSUME NEW t, NEW n, TreeInv(t, n), Distinct(t), NEW s \in Seq(DOMAIN t \ Directories(t))
  PROVE  /\ IsPlan(FileWrites(t, s)) /\ Len(FileWrites(t, s)) = Len(s)
         /\ \A i \in 1..Len(s) : FileWrites(t, s)[i] = FileWrite(t, s[i])
<1>1. Len(s) \in Nat /\ \A i \in 1..Len(s) : s[i] \in DOMAIN t \ Directories(t)
  OBVIOUS
<1>2. PICK ws : ws = FileWrites(t, s)
  OBVIOUS
<1>3. ws = [i \in 1..Len(s) |-> ws[i]] /\ \A i \in 1..Len(s) : ws[i] = FileWrite(t, s[i])
  BY <1>2 DEF FileWrites
<1>4. \A i \in 1..Len(s) : IsWrite(ws[i])
  BY <1>1, <1>3, FileWriteIs
<1>5. IsPlan(ws) /\ Len(ws) = Len(s)
  BY <1>1, <1>3, <1>4, PlanIs
<1> QED BY <1>2, <1>3, <1>5

\* The files with data are written behind the directories, up to the end of the volume.
LEMMA FilesChained ==
  ASSUME NEW t, NEW n, TreeInv(t, n), Distinct(t), NEW next, Placed(t, next)
  PROVE  /\ IsPlan(FileWrites(t, FilesWithData(t)))
         /\ SizesFit(t) =>
              Chained(FileWrites(t, FilesWithData(t)), next[Len(OrderedDirs(t))], next[Len(Placing(t))])
<1> DEFINE F == DOMAIN t \ Directories(t)
<1>1. PICK files \in Seq(F) : files = OrderedFiles(t)
  BY PlacingLists DEF Lists
<1>2. PICK m \in Nat : m = Len(files)
  OBVIOUS
<1>3. PICK nd \in Nat : nd = Len(OrderedDirs(t))
  BY PlacingLists DEF Lists
<1>4. /\ Len(Placing(t)) = nd + m
      /\ \A i \in 1..m : Placing(t)[nd + i] = files[i]
  BY <1>1, <1>2, <1>3, PlacingLists
<1> HIDE DEF F
<1>5. PICK kept :
        /\ FilesWithData(t) = kept[m]
        /\ kept[0] = << >>
        /\ \A i \in 1..m :
             kept[i] = IF t[files[i]].data.size = 0 THEN kept[i - 1] ELSE Append(kept[i - 1], files[i])
        /\ \A i \in 0..m : kept[i] \in Seq(F)
  BY <1>1, <1>2, FilesKept
<1>6. \A i \in 1..m : files[i] \in F
  BY <1>1, <1>2
<1>7. ASSUME NEW s \in Seq(F)
      PROVE  /\ IsPlan(FileWrites(t, s)) /\ Len(FileWrites(t, s)) = Len(s)
             /\ \A i \in 1..Len(s) : FileWrites(t, s)[i] = FileWrite(t, s[i])
  BY FilesPlanned DEF F
<1>8. IsPlan(FileWrites(t, FilesWithData(t)))
  <2>1. m \in 0..m
    OBVIOUS
  <2> QED BY <1>5, <1>7, <2>1
<1>9. ASSUME SizesFit(t)
      PROVE  Chained(FileWrites(t, kept[m]), next[nd], next[nd + m])
  <2> DEFINE G == {i \in 0..m : Chained(FileWrites(t, kept[i]), next[nd], next[nd + i])}
  <2>1. 0 \in G
    <3>1. kept[0] \in Seq(F) /\ Len(kept[0]) = 0
      BY <1>5
    <3>2. Len(FileWrites(t, kept[0])) = 0
      BY <1>7, <3>1
    <3>3. Chained(FileWrites(t, kept[0]), next[nd], next[nd])
      BY <3>2, ChainOfNone
    <3>4. nd + 0 = nd /\ 0 \in 0..m
      OBVIOUS
    <3>5. Chained(FileWrites(t, kept[0]), next[nd], next[nd + 0])
      BY <3>3, <3>4
    <3> QED BY <3>4, <3>5
  <2>2. ASSUME NEW i \in 1..m, i - 1 \in G
        PROVE  i \in G
    <3>1. i - 1 \in 0..m /\ i \in 0..m /\ nd + i \in 1..Len(Placing(t)) /\ nd + (i - 1) = (nd + i) - 1
      BY <1>4
    <3>2. PICK p \in F : p = files[i]
      BY <1>6
    <3>3. PICK j : j = nd + i
      OBVIOUS
    <3>4. Placing(t)[j] = p /\ j \in 1..Len(Placing(t)) /\ nd + (i - 1) = j - 1
      BY <1>4, <3>1, <3>2, <3>3
    <3>5. next[j] = next[j - 1] + SectorsFor(LenOf(t, p)) /\ Layout(t).lba[p] = next[j - 1] /\ next[j - 1] \in Nat
      <4>1. j - 1 \in 0..Len(Placing(t))
        BY <1>4, <3>1, <3>3
      <4> QED BY <3>4, <4>1 DEF Placed
    <3>6. PICK b : b = next[j - 1]
      OBVIOUS
    <3>7. PICK s \in Seq(F) : s = kept[i - 1]
      BY <1>5, <3>1
    <3>8. Chained(FileWrites(t, s), next[nd], b)
      BY <2>2, <3>4, <3>6, <3>7
    <3>9. Chained(FileWrites(t, kept[i]), next[nd], next[j])
      <4>1. CASE t[p].data.size = 0
        <5>1. kept[i] = s
          BY <1>5, <3>2, <3>7, <4>1
        <5>2. SectorsFor(LenOf(t, p)) = 0
          BY <1>9, <4>1, FileWriteIs DEF F
        <5>3. next[j] = b
          BY <3>5, <3>6, <5>2
        <5> QED BY <3>8, <5>1, <5>3
      <4>2. CASE t[p].data.size # 0
        <5>1. kept[i] = Append(s, p)
          BY <1>5, <3>2, <3>7, <4>2
        <5>2. PICK r \in Seq(F) : r = Append(s, p)
          <6>1. Append(s, p) \in Seq(F)
            OBVIOUS
          <6> QED BY <6>1, Zenon
        <5>3. /\ Len(s) \in Nat /\ Len(r) = Len(s) + 1 /\ r[Len(r)] = p
              /\ \A k \in 1..Len(s) : r[k] = s[k]
          BY <5>2
        <5>4. PICK u : u = FileWrites(t, s)
          OBVIOUS
        <5>5. PICK v : v = FileWrites(t, r)
          OBVIOUS
        <5>6. /\ Len(u) = Len(s) /\ \A k \in 1..Len(s) : u[k] = FileWrite(t, s[k])
              /\ Len(v) = Len(r) /\ \A k \in 1..Len(r) : v[k] = FileWrite(t, r[k])
          BY <1>7, <5>4, <5>5
        <5>7. /\ Len(u) \in Nat /\ Len(v) = Len(u) + 1
              /\ \A k \in 1..Len(u) : v[k] = u[k]
              /\ v[Len(v)] = FileWrite(t, p)
          BY <5>3, <5>6
        <5>8. v[Len(v)].lba = b /\ EndOf(v[Len(v)]) = next[j]
          BY <1>9, <3>5, <3>6, <5>7, FileWriteIs DEF F
        <5>9. Chained(u, next[nd], b)
          BY <3>8, <5>4
        <5>10. Chained(v, next[nd], next[j])
          BY <5>7, <5>8, <5>9, ChainGrows
        <5> QED BY <5>1, <5>2, <5>5, <5>10
      <4> QED BY <4>1, <4>2
    <3> QED BY <3>1, <3>3, <3>9
  <2> HIDE DEF G
  <2>3. \A i \in 0..m : i \in G
    BY <2>1, <2>2, InductionTo
  <2>4. m \in G
    BY <2>3
  <2> QED BY <2>4 DEF G
<1> QED BY <1>3, <1>4, <1>5, <1>8, <1>9

\* WriteTo writes every sector of the volume once, in order, if no size wraps.
LEMMA WritesChained ==
  ASSUME NEW t, NEW n, TreeInv(t, n), Distinct(t)
  PROVE  /\ IsPlan(Writes(t))
         /\ SizesFit(t) => Chained(Writes(t), 0, TotalSectors(t, Layout(t)))
<1>1. PICK next : Placed(t, next)
  BY LayoutPlaces
<1>2. PICK N : N = Len(Placing(t))
  OBVIOUS
<1>3. PICK nd : nd = Len(OrderedDirs(t))
  OBVIOUS
<1>4. PICK z : z = Zeros
  OBVIOUS
<1>5. PICK d : d = Descriptors(t)
  OBVIOUS
<1>6. PICK ds : ds = DirWrites(t)
  OBVIOUS
<1>7. PICK fs : fs = FileWrites(t, FilesWithData(t))
  OBVIOUS
<1>8. Writes(t) = z \o d \o ds \o fs
  BY <1>4, <1>5, <1>6, <1>7, Zenon
     DEF Writes, Zeros, Descriptors, DirWrites, DirWrite, FileWrites, FileWrite
<1>9. IsPlan(z) /\ Chained(z, 0, SystemArea)
  BY <1>4, ZerosChained
<1>10. IsPlan(d) /\ (SizesFit(t) => Chained(d, SystemArea, next[0]))
  <2>1. next[0] = PathTableMLBA(t) + PathTableSectors(t)
    BY <1>1 DEF Placed
  <2> QED BY <1>5, <2>1, DescriptorsChained
<1>11. IsPlan(ds) /\ (SizesFit(t) => Chained(ds, next[0], next[nd]))
  BY <1>1, <1>3, <1>6, DirsChained
<1>12. IsPlan(fs) /\ (SizesFit(t) => Chained(fs, next[nd], next[N]))
  BY <1>1, <1>2, <1>3, <1>7, FilesChained
<1>13. IsPlan(z \o d) /\ (SizesFit(t) => Chained(z \o d, 0, next[0]))
  BY <1>9, <1>10, PlansJoin, ChainsJoin
<1>14. IsPlan(z \o d \o ds) /\ (SizesFit(t) => Chained(z \o d \o ds, 0, next[nd]))
  <2>1. PICK u : u = z \o d
    OBVIOUS
  <2> QED BY <1>11, <1>13, <2>1, PlansJoin, ChainsJoin
<1>15. IsPlan(z \o d \o ds \o fs) /\ (SizesFit(t) => Chained(z \o d \o ds \o fs, 0, next[N]))
  <2>1. PICK u : u = z \o d \o ds
    OBVIOUS
  <2> QED BY <1>12, <1>14, <2>1, PlansJoin, ChainsJoin
<1>16. TotalSectors(t, Layout(t)) = next[N]
  BY <1>1, <1>2, VolumeEnd
<1> QED BY <1>8, <1>15, <1>16

\* What is left of a run of writes after the first.
LEMMA RestOfPlan ==
  ASSUME NEW ws, IsPlan(ws), ws # << >>
  PROVE  /\ IsWrite(Head(ws)) /\ IsPlan(Tail(ws)) /\ Len(ws) \in Nat \ {0}
         /\ Len(Tail(ws)) = Len(ws) - 1
         /\ \A b : (\E a : Chained(ws, a, b)) => \E a : Chained(Tail(ws), a, b)
<1>1. PICK S : S = Elements(ws)
  OBVIOUS
<1>2. ws \in Seq(S) /\ \A w \in S : IsWrite(w)
  BY <1>1 DEF IsPlan
<1>3. Len(ws) \in Nat \ {0}
  BY <1>2, EmptySequence
<1>4. Head(ws) = ws[1] /\ ws[1] \in S
  BY <1>2, <1>3
<1>5. PICK r : r = Tail(ws)
  OBVIOUS
<1>6. r \in Seq(S) /\ Len(r) = Len(ws) - 1 /\ \A i \in 1..Len(r) : r[i] = ws[i + 1]
  BY <1>2, <1>3, <1>5
<1>7. IsPlan(r)
  <2>1. Len(r) \in Nat /\ r = [i \in 1..Len(r) |-> r[i]] /\ \A i \in 1..Len(r) : r[i] \in S
    BY <1>6
  <2> QED BY <1>2, <2>1, PlanIs
<1>8. ASSUME NEW a, NEW b, Chained(ws, a, b)
      PROVE  \E c : Chained(r, c, b)
  <2>1. PICK f : /\ f[0] = a /\ f[Len(ws)] = b
                 /\ \A i \in 1..Len(ws) : ws[i].lba = f[i - 1] /\ EndOf(ws[i]) = f[i]
    BY <1>8, Zenon DEF Chained
  <2>2. PICK g : g = [i \in 0..Len(r) |-> f[i + 1]]
    OBVIOUS
  <2>3. \A i \in 0..Len(r) : g[i] = f[i + 1]
    BY <2>2
  <2>4. g[Len(r)] = b
    <3>1. Len(r) \in 0..Len(r) /\ Len(r) + 1 = Len(ws)
      BY <1>3, <1>6
    <3> QED BY <2>1, <2>3, <3>1
  <2>5. ASSUME NEW i \in 1..Len(r)
        PROVE  r[i].lba = g[i - 1] /\ EndOf(r[i]) = g[i]
    <3>1. i \in 0..Len(r) /\ i - 1 \in 0..Len(r) /\ i + 1 \in 1..Len(ws) /\ (i + 1) - 1 = i /\ (i - 1) + 1 = i
      BY <1>3, <1>6
    <3>2. r[i] = ws[i + 1] /\ g[i] = f[i + 1] /\ g[i - 1] = f[i]
      BY <1>6, <2>3, <3>1
    <3> QED BY <2>1, <3>1, <3>2
  <2>6. g[0] = g[0]
    OBVIOUS
  <2>7. Chained(r, g[0], b)
    BY <2>4, <2>5, <2>6, Zenon DEF Chained
  <2> QED BY <2>7
<1> QED BY <1>2, <1>3, <1>4, <1>5, <1>6, <1>7, <1>8, Zenon

---------------------------------------------------------------------------
(* The invariant of a running WriteTo *)

(* What is left of a running WriteTo is a run of writes up to the end of   *)
(* the volume.                                                             *)
WInv ==
  /\ IsPlan(plan)
  /\ plan # << >> => result = "none"
  /\ plan # << >> /\ SizesFit(tree) => \E a : Chained(plan, a, TotalSectors(tree, Layout(tree)))
  /\ DOMAIN sink \subseteq Nat
  /\ result \in {"none", "ok", "refused", "failed"}
  /\ writes \in 0..MaxWrites

\* No writes are a plan.
LEMMA NoPlan == IsPlan(<< >>)
<1>1. PICK ws : ws = << >>
  OBVIOUS
<1>5. PICK m \in Nat : m = 0
  OBVIOUS
<1>2. ws = [i \in 1..m |-> ws[i]]
  BY <1>1, <1>5
<1>3. \A i \in 1..m : IsWrite(ws[i])
  BY <1>5
<1>4. IsPlan(ws)
  BY <1>2, <1>3, PlanIs
<1> QED BY <1>1, <1>4

\* WInv holds before the first call.
LEMMA InitWInv == Init => WInv
<1> SUFFICES ASSUME Init
             PROVE  WInv
  OBVIOUS
<1>1. IsPlan(plan) /\ plan = << >>
  BY NoPlan DEF Init
<1>2. DOMAIN sink \subseteq Nat
  BY DEF Init
<1>3. result \in {"none", "ok", "refused", "failed"} /\ writes \in 0..MaxWrites
  BY BuilderAssumption DEF Init
<1> QED BY <1>1, <1>2, <1>3 DEF WInv

\* A write leaves sectors at natural addresses.
LEMMA WrittenTyped ==
  ASSUME NEW w, IsWrite(w), NEW n \in Int, DOMAIN sink \subseteq Nat
  PROVE  DOMAIN Written(w, n) \subseteq Nat
<1>1. DOMAIN Written(w, n) = DOMAIN sink \cup (w.lba..(w.lba + n - 1))
  BY DEF Written
<1>2. w.lba..(w.lba + n - 1) \subseteq Nat
  BY DEF IsWrite
<1> QED BY <1>1, <1>2

\* Every call and every write keeps WInv.
LEMMA NextWInv == WInv /\ IInv /\ IInv' /\ [Next]_vars => WInv'
<1> SUFFICES ASSUME WInv, IInv, IInv', [Next]_vars
             PROVE  WInv'
  OBVIOUS
<1>1. ASSUME Adding, result' \in {"none", "refused"}
      PROVE  WInv'
  <2>1. plan' = << >> /\ sink' = sink /\ writes' = writes
    BY <1>1 DEF Adding
  <2>2. IsPlan(plan')
    BY <2>1, NoPlan
  <2>3. result' \in {"none", "ok", "refused", "failed"}
    BY <1>1
  <2> QED BY <2>1, <2>2, <2>3 DEF WInv
<1>2. ASSUME NEW path \in DirPaths, AddDir(path)
      PROVE  WInv'
  <2>1. Adding /\ result' \in {"none", "refused"}
    BY <1>2 DEF AddDir
  <2> QED BY <1>1, <2>1
<1>3. ASSUME NEW path \in FilePaths, NEW data \in Contents, AddFile(path, data)
      PROVE  WInv'
  <2>1. Adding /\ result' \in {"none", "refused"}
    BY <1>3 DEF AddFile
  <2> QED BY <1>1, <2>1
<1>4. ASSUME WriteTo
      PROVE  WInv'
  <2>1. /\ tree' \in Identified(tree) /\ plan' = Writes(tree') /\ result' = "none"
        /\ writes < MaxWrites /\ writes' = writes + 1 /\ sink' = sink
    BY <1>4 DEF WriteTo
  <2>2. TreeInv(tree', adds) /\ Distinct(tree')
    <3>1. TreeInv(tree, adds) /\ adds \in 0..MaxAdds
      BY BuilderAssumption DEF IInv
    <3> QED BY <2>1, <3>1, IdentifiedKeeps
  <2>3. PICK t : t = tree'
    OBVIOUS
  <2>4. IsPlan(Writes(t)) /\ (SizesFit(t) => Chained(Writes(t), 0, TotalSectors(t, Layout(t))))
    BY <2>2, <2>3, WritesChained
  <2>5. IsPlan(plan')
    BY <2>1, <2>3, <2>4
  <2>6. (plan # << >> /\ SizesFit(tree) => \E a : Chained(plan, a, TotalSectors(tree, Layout(tree))))'
    <3> SUFFICES ASSUME SizesFit(tree)'
                 PROVE  (\E a : Chained(plan, a, TotalSectors(tree, Layout(tree))))'
      OBVIOUS
    <3>1. SizesFit(t)
      BY <2>3 DEF SizesFit
    <3>2. Chained(plan', 0, TotalSectors(t, Layout(t)))
      BY <2>1, <2>3, <2>4, <3>1
    <3> QED BY <2>3, <3>2
  <2>7. writes' \in 0..MaxWrites
    BY <2>1, BuilderAssumption DEF WInv
  <2> QED BY <2>1, <2>5, <2>6, <2>7 DEF WInv
<1>5. ASSUME WriteNext
      PROVE  WInv'
  <2>1. /\ plan # << >> /\ sink' = Written(Head(plan), Len(Head(plan).sectors))
        /\ plan' = Tail(plan) /\ result' = IF Len(plan) = 1 THEN "ok" ELSE "none"
        /\ tree' = tree /\ writes' = writes
    BY <1>5 DEF WriteNext
  <2>2. PICK p : p = plan
    OBVIOUS
  <2>3. IsPlan(p) /\ p # << >>
    BY <2>1, <2>2 DEF WInv
  <2>4. /\ IsWrite(Head(p)) /\ IsPlan(Tail(p)) /\ Len(p) \in Nat \ {0}
        /\ Len(Tail(p)) = Len(p) - 1
        /\ \A b : (\E a : Chained(p, a, b)) => \E a : Chained(Tail(p), a, b)
    BY <2>3, RestOfPlan
  <2>5. DOMAIN sink' \subseteq Nat
    <3>1. Len(Head(p).sectors) \in Int
      BY <2>4 DEF IsWrite
    <3>2. DOMAIN sink \subseteq Nat
      BY DEF WInv
    <3> QED BY <2>1, <2>2, <2>4, <3>1, <3>2, WrittenTyped
  <2>6. plan' # << >> => result' = "none"
    <3>1. Len(p) = 1 => Tail(p) = << >>
      <4>1. PICK r : r = Tail(p)
        OBVIOUS
      <4>2. PICK S : r \in Seq(S)
        BY <2>4, <4>1 DEF IsPlan
      <4>3. Len(p) = 1 => Len(r) = 0
        BY <2>4, <4>1
      <4> QED BY <4>1, <4>2, <4>3, EmptySequence
    <3> QED BY <2>1, <2>2, <3>1
  <2>7. (plan # << >> /\ SizesFit(tree) => \E a : Chained(plan, a, TotalSectors(tree, Layout(tree))))'
    <3> SUFFICES ASSUME SizesFit(tree)'
                 PROVE  (\E a : Chained(plan, a, TotalSectors(tree, Layout(tree))))'
      OBVIOUS
    <3>1. SizesFit(tree)
      BY <2>1 DEF SizesFit
    <3>2. PICK b : b = TotalSectors(tree, Layout(tree))
      OBVIOUS
    <3>3. \E a : Chained(p, a, b)
      BY <2>1, <2>2, <3>1, <3>2 DEF WInv
    <3>4. \E a : Chained(plan', a, b)
      BY <2>1, <2>2, <2>4, <3>3
    <3> QED BY <2>1, <3>2, <3>4
  <2>8. IsPlan(plan') /\ result' \in {"none", "ok", "refused", "failed"}
    BY <2>1, <2>2, <2>4
  <2> QED BY <2>1, <2>5, <2>6, <2>7, <2>8 DEF WInv
<1>6. ASSUME WriteFails
      PROVE  WInv'
  <2>1. PICK k \in 0..(Len(Head(plan).sectors) - 1) : sink' = Written(Head(plan), k)
    BY <1>6 DEF WriteFails
  <2>2. plan # << >> /\ plan' = << >> /\ result' = "failed" /\ writes' = writes
    BY <1>6 DEF WriteFails
  <2>3. IsWrite(Head(plan)) /\ DOMAIN sink \subseteq Nat
    BY <2>2, RestOfPlan DEF WInv
  <2>4. k \in Int
    BY <2>1
  <2>5. DOMAIN sink' \subseteq Nat
    BY <2>1, <2>3, <2>4, WrittenTyped
  <2>6. IsPlan(plan')
    BY <2>2, NoPlan
  <2> QED BY <2>2, <2>5, <2>6 DEF WInv
<1>7. ASSUME UNCHANGED vars
      PROVE  WInv'
  <2>1. /\ plan' = plan /\ tree' = tree /\ sink' = sink /\ result' = result /\ writes' = writes
    BY <1>7 DEF vars
  <2> QED BY <2>1 DEF WInv, SizesFit
<1> QED BY <1>2, <1>3, <1>4, <1>5, <1>6, <1>7 DEF Next

\* WInv holds in every state of the builder.
THEOREM WritesInvariance == Spec => []WInv
<1>1. Init => WInv
  BY InitWInv
<1>2. WInv /\ IInv /\ IInv' /\ [Next]_vars => WInv'
  BY NextWInv
<1> QED BY <1>1, <1>2, Invariance, PTL DEF Spec

(* The tree, the sectors and the results of the builder have the types of  *)
(* the code's: every node but the root is in a directory, and a WriteTo    *)
(* that has writes left has returned nothing.                              *)
THEOREM BuilderTyped == Spec => []TypeOK
<1>1. IInv /\ WInv => TypeOK
  <2> SUFFICES ASSUME IInv, WInv
               PROVE  TypeOK
    OBVIOUS
  <2>1. ASSUME NEW p \in DOMAIN tree
        PROVE  /\ DOMAIN tree[p] = {"isDir", "data", "id"}
               /\ tree[p].isDir \in BOOLEAN
               /\ tree[p].data \in Contents \cup {NoData}
    <3>1. tree[p] \in Nodes
      BY DEF IInv, TreeInv
    <3> QED BY <3>1 DEF Nodes
  <2>2. \A p \in DOMAIN tree : p # << >> => Front(p) \in DOMAIN tree /\ tree[Front(p)].isDir
    BY DEF IInv, TreeInv
  <2>3. << >> \in DOMAIN tree /\ tree[<< >>].isDir
    BY DEF IInv, TreeInv
  <2> QED BY <2>1, <2>2, <2>3 DEF TypeOK, IInv, WInv
<1> QED BY <1>1, Invariance, WritesInvariance, PTL

(* layout and WriteTo agree on the places of all sectors (create.go:444,   *)
(* 660): unless a size is too large for the code's uint32 arithmetic, the  *)
(* writes follow one another without a gap or an overlap, and the last one *)
(* ends where the volume descriptor says the volume ends, for every tree.  *)
THEOREM WritesFollowOneAnother == Spec => [](SizesFit(tree) => WritesAreContiguous)
<1>1. WInv => (SizesFit(tree) => WritesAreContiguous)
  <2> SUFFICES ASSUME WInv, SizesFit(tree), LaidOut
               PROVE  /\ \A i \in 1..(Len(plan) - 1) : EndOf(plan[i]) = plan[i + 1].lba
                      /\ EndOf(Last(plan)) = TotalSectors(tree, Layout(tree))
    BY DEF WritesAreContiguous
  <2>1. plan # << >>
    BY DEF LaidOut
  <2>2. PICK b : b = TotalSectors(tree, Layout(tree))
    OBVIOUS
  <2>3. PICK a : Chained(plan, a, b)
    BY <2>1, <2>2 DEF WInv
  <2>4. PICK f : /\ f[0] = a /\ f[Len(plan)] = b
                 /\ \A i \in 1..Len(plan) : plan[i].lba = f[i - 1] /\ EndOf(plan[i]) = f[i]
    BY <2>3, Zenon DEF Chained
  <2>5. Len(plan) \in Nat \ {0}
    BY <2>1, RestOfPlan DEF WInv
  <2>6. ASSUME NEW i \in 1..(Len(plan) - 1)
        PROVE  EndOf(plan[i]) = plan[i + 1].lba
    <3>1. i \in 1..Len(plan) /\ i + 1 \in 1..Len(plan) /\ (i + 1) - 1 = i
      BY <2>5
    <3> QED BY <2>4, <3>1
  <2>7. EndOf(Last(plan)) = b
    <3>1. Len(plan) \in 1..Len(plan) /\ Last(plan) = plan[Len(plan)]
      BY <2>5 DEF Last
    <3> QED BY <2>4, <3>1
  <2> QED BY <2>2, <2>6, <2>7
<1> QED BY <1>1, WritesInvariance, PTL

---------------------------------------------------------------------------
(* The image keeps what was written *)

\* Later writes of a run are behind the earlier ones.
LEMMA ChainInOrder ==
  ASSUME NEW ws, IsPlan(ws), NEW a, NEW b, Chained(ws, a, b), NEW k \in 1..Len(ws)
  PROVE  \A i \in 1..(k - 1) : EndOf(ws[i]) <= ws[k].lba
<1>1. PICK f : /\ f[0] = a /\ f[Len(ws)] = b
               /\ \A i \in 1..Len(ws) : ws[i].lba = f[i - 1] /\ EndOf(ws[i]) = f[i]
  BY Zenon DEF Chained
<1>2. PICK n \in Nat : n = Len(ws)
  <2>1. ws \in Seq(Elements(ws))
    BY DEF IsPlan
  <2>2. PICK S : S = Elements(ws)
    OBVIOUS
  <2> QED BY <2>1, <2>2
<1>3. \A i \in 1..n : ws[i].lba \in Nat /\ Len(ws[i].sectors) \in Nat
  BY <1>2 DEF IsPlan, Elements, IsWrite
<1>4. \A i \in 1..n : f[i - 1] \in Nat /\ f[i] \in Nat /\ f[i - 1] <= f[i]
  <2> TAKE i \in 1..n
  <2>1. PICK x \in Nat : x = ws[i].lba
    BY <1>3
  <2>2. PICK l \in Nat : l = Len(ws[i].sectors)
    BY <1>3
  <2>3. f[i - 1] = x /\ f[i] = x + l
    BY <1>1, <1>2, <2>1, <2>2 DEF EndOf
  <2> QED BY <2>3
<1> SUFFICES ASSUME NEW i \in 1..(k - 1)
             PROVE  EndOf(ws[i]) <= ws[k].lba
  OBVIOUS
<1>5. k \in 1..n /\ i \in 1..n /\ k - 1 \in Nat
  BY <1>2
<1> DEFINE G == {j \in 0..n : j < i \/ (f[j] \in Nat /\ f[i] <= f[j])}
<1>6. 0 \in G
  BY <1>5
<1>7. ASSUME NEW j \in 1..n, j - 1 \in G
      PROVE  j \in G
  <2>1. j \in 0..n /\ f[j - 1] \in Nat /\ f[j] \in Nat /\ f[j - 1] <= f[j] /\ f[i] \in Nat
    BY <1>4, <1>5
  <2>2. CASE j < i
    BY <2>1, <2>2
  <2>3. CASE j = i
    BY <2>1, <2>3
  <2>4. CASE j > i
    <3>1. f[i] <= f[j - 1]
      BY <1>7, <1>5, <2>4
    <3> QED BY <2>1, <3>1
  <2> QED BY <1>5, <2>2, <2>3, <2>4
<1> HIDE DEF G
<1>8. \A j \in 0..n : j \in G
  BY <1>6, <1>7, InductionTo
<1>9. k - 1 \in G
  BY <1>5, <1>8
<1>10. f[i] <= f[k - 1]
  BY <1>5, <1>9 DEF G
<1> QED BY <1>1, <1>2, <1>5, <1>10

\* The sink has the sectors of w.
Landed(w) ==
  \A s \in 1..Len(w.sectors) :
    w.lba + s - 1 \in DOMAIN sink /\ sink[w.lba + s - 1] = w.sectors[s]

\* A write lands, and spares the sectors before it.
LEMMA WriteLands ==
  ASSUME NEW w, IsWrite(w), sink' = Written(w, Len(w.sectors))
  PROVE  /\ Landed(w)'
         /\ \A v : IsWrite(v) /\ Landed(v) /\ EndOf(v) <= w.lba => Landed(v)'
<1>1. PICK a \in Nat : a = w.lba
  BY DEF IsWrite
<1>2. PICK n \in Nat : n = Len(w.sectors)
  BY DEF IsWrite
<1>3. sink' = [s \in DOMAIN sink \cup (a..(a + n - 1)) |->
                 IF s \in a..(a + n - 1) THEN w.sectors[s - a + 1] ELSE sink[s]]
  BY <1>1, <1>2 DEF Written
<1>4. /\ DOMAIN sink' = DOMAIN sink \cup (a..(a + n - 1))
      /\ \A s \in a..(a + n - 1) : sink'[s] = w.sectors[s - a + 1]
      /\ \A s \in DOMAIN sink : s \notin a..(a + n - 1) => sink'[s] = sink[s]
  BY <1>3
<1>5. ASSUME NEW s \in 1..n
      PROVE  a + s - 1 \in DOMAIN sink' /\ sink'[a + s - 1] = w.sectors[s]
  <2>1. PICK x \in Nat : x = a + s - 1
    OBVIOUS
  <2>2. x \in a..(a + n - 1) /\ x - a + 1 = s
    BY <2>1
  <2> QED BY <1>4, <2>1, <2>2
<1>6. Landed(w)'
  BY <1>1, <1>2, <1>5 DEF Landed
<1>7. ASSUME NEW v, IsWrite(v), Landed(v), EndOf(v) <= a
      PROVE  Landed(v)'
  <2>1. PICK b \in Nat : b = v.lba
    BY <1>7 DEF IsWrite
  <2>2. PICK m \in Nat : m = Len(v.sectors)
    BY <1>7 DEF IsWrite
  <2>3. b + m <= a
    BY <1>7, <2>1, <2>2 DEF EndOf
  <2>4. ASSUME NEW s \in 1..m
        PROVE  b + s - 1 \in DOMAIN sink' /\ sink'[b + s - 1] = v.sectors[s]
    <3>1. PICK x \in Nat : x = b + s - 1
      OBVIOUS
    <3>2. x \in DOMAIN sink /\ sink[x] = v.sectors[s]
      BY <1>7, <2>1, <2>2, <3>1 DEF Landed
    <3>3. x \notin a..(a + n - 1)
      BY <2>3, <3>1
    <3> QED BY <1>4, <3>1, <3>2, <3>3
  <2> QED BY <2>1, <2>2, <2>4 DEF Landed
<1> QED BY <1>1, <1>6, <1>7

\* Of the writes of the last layout, those before the rest of the plan have landed.
LandedTo(t, p) ==
  \E k \in 0..Len(Writes(t)) :
    /\ Len(p) = Len(Writes(t)) - k
    /\ \A i \in 1..Len(p) : p[i] = Writes(t)[k + i]
    /\ \A i \in 1..k : Landed(Writes(t)[i])

AllLanded(t) == \A i \in 1..Len(Writes(t)) : Landed(Writes(t)[i])

(* The writes that are done stay in the image until the caller edits the   *)
(* tree or writes it again.                                                *)
ImageInv ==
  /\ result = "ok" => Distinct(tree)
  /\ plan # << >> /\ SizesFit(tree) => LandedTo(tree, plan)
  /\ result = "ok" /\ SizesFit(tree) => AllLanded(tree)

\* ImageInv holds before the first call.
LEMMA InitImage == Init => ImageInv
BY DEF Init, ImageInv

\* Every call and every write keeps ImageInv.
LEMMA NextImage == ImageInv /\ WInv /\ IInv /\ [Next]_vars => ImageInv'
<1> SUFFICES ASSUME ImageInv, WInv, IInv, [Next]_vars
             PROVE  ImageInv'
  OBVIOUS
<1>1. ASSUME Adding, result' \in {"none", "refused"}
      PROVE  ImageInv'
  BY <1>1 DEF Adding, ImageInv
<1>2. ASSUME NEW path \in DirPaths, AddDir(path)
      PROVE  ImageInv'
  <2>1. Adding /\ result' \in {"none", "refused"}
    BY <1>2 DEF AddDir
  <2> QED BY <1>1, <2>1
<1>3. ASSUME NEW path \in FilePaths, NEW data \in Contents, AddFile(path, data)
      PROVE  ImageInv'
  <2>1. Adding /\ result' \in {"none", "refused"}
    BY <1>3 DEF AddFile
  <2> QED BY <1>1, <2>1
<1>4. ASSUME WriteTo
      PROVE  ImageInv'
  <2>1. tree' \in Identified(tree) /\ plan' = Writes(tree') /\ result' = "none"
    BY <1>4 DEF WriteTo
  <2>2. TreeInv(tree', adds) /\ Distinct(tree')
    <3>1. TreeInv(tree, adds) /\ adds \in 0..MaxAdds
      BY BuilderAssumption DEF IInv
    <3> QED BY <2>1, <3>1, IdentifiedKeeps
  <2>3. PICK ws : ws = Writes(tree')
    OBVIOUS
  <2>4. Len(ws) \in Nat
    <3>1. IsPlan(ws)
      BY <2>2, <2>3, WritesChained
    <3>2. PICK S : ws \in Seq(S)
      BY <3>1 DEF IsPlan
    <3> QED BY <3>2
  <2>5. PICK m \in Nat : m = 0
    OBVIOUS
  <2>6. /\ m \in 0..Len(ws) /\ Len(ws) = Len(ws) - m
        /\ \A i \in 1..Len(ws) : ws[i] = ws[m + i]
        /\ \A i \in 1..m : Landed(ws[i])'
    BY <2>4, <2>5
  <2>7. LandedTo(tree, plan)'
    BY <2>1, <2>3, <2>6 DEF LandedTo
  <2> QED BY <2>1, <2>7 DEF ImageInv
<1>5. ASSUME WriteNext
      PROVE  ImageInv'
  <2>1. /\ plan # << >> /\ sink' = Written(Head(plan), Len(Head(plan).sectors))
        /\ plan' = Tail(plan) /\ result' = IF Len(plan) = 1 THEN "ok" ELSE "none"
        /\ tree' = tree
    BY <1>5 DEF WriteNext
  <2>2. TreeInv(tree, adds) /\ Distinct(tree)
    BY <2>1 DEF IInv
  <2>3. ASSUME SizesFit(tree)
        PROVE  LandedTo(tree, plan)' /\ (result' = "ok" => AllLanded(tree)')
    <3>1. PICK ws : ws = Writes(tree)
      OBVIOUS
    <3>2. PICK b : b = TotalSectors(tree, Layout(tree))
      OBVIOUS
    <3>3. IsPlan(ws) /\ Chained(ws, 0, b)
      BY <2>2, <2>3, <3>1, <3>2, WritesChained
    <3>4. Len(ws) \in Nat /\ \A i \in 1..Len(ws) : IsWrite(ws[i])
      <4>1. PICK S : S = Elements(ws)
        OBVIOUS
      <4>2. ws \in Seq(S) /\ \A w \in S : IsWrite(w)
        BY <3>3, <4>1 DEF IsPlan
      <4> QED BY <4>2
    <3>5. PICK k \in 0..Len(ws) :
            /\ Len(plan) = Len(ws) - k
            /\ \A i \in 1..Len(plan) : plan[i] = ws[k + i]
            /\ \A i \in 1..k : Landed(ws[i])
      BY <2>1, <2>3, <3>1 DEF ImageInv, LandedTo
    <3>6. PICK S : plan \in Seq(S)
      BY DEF WInv, IsPlan
    <3>21. PICK n \in Nat : n = Len(ws) /\ k \in 0..n /\ Len(plan) = n - k
      BY <3>4, <3>5
    <3>7. Len(plan) \in Nat \ {0} /\ Len(plan) # 0
      BY <2>1, <3>6, EmptySequence
    <3>8. k + 1 \in 1..Len(ws) /\ 1 \in 1..Len(plan) /\ Head(plan) = plan[1] /\ plan[1] = ws[k + 1]
      BY <3>4, <3>5, <3>6, <3>7
    <3>9. PICK w : w = ws[k + 1]
      OBVIOUS
    <3>10. IsWrite(w) /\ sink' = Written(w, Len(w.sectors))
      BY <2>1, <3>4, <3>8, <3>9
    <3>11. Landed(w)' /\ \A v : IsWrite(v) /\ Landed(v) /\ EndOf(v) <= w.lba => Landed(v)'
      BY <3>10, WriteLands
    <3>12. \A i \in 1..k : EndOf(ws[i]) <= w.lba
      <4>1. \A i \in 1..((k + 1) - 1) : EndOf(ws[i]) <= ws[k + 1].lba
        BY <3>3, <3>8, ChainInOrder
      <4>2. (k + 1) - 1 = k
        BY <3>5
      <4> QED BY <3>9, <4>1, <4>2
    <3>13. \A i \in 1..(k + 1) : Landed(ws[i])'
      <4> TAKE i \in 1..(k + 1)
      <4>1. CASE i = k + 1
        BY <3>9, <3>11, <4>1
      <4>2. CASE i \in 1..k
        <5>1. i \in 1..Len(ws)
          BY <3>21, <4>2
        <5> QED BY <3>4, <3>5, <3>11, <3>12, <4>2, <5>1
      <4> QED BY <3>5, <4>1, <4>2
    <3>14. PICK p : p = Tail(plan)
      OBVIOUS
    <3>15. Len(p) = Len(ws) - (k + 1) /\ \A i \in 1..Len(p) : p[i] = ws[(k + 1) + i]
      <4>1. Len(p) = Len(plan) - 1 /\ \A i \in 1..Len(p) : p[i] = plan[i + 1] /\ i + 1 \in 1..Len(plan)
        BY <3>6, <3>7, <3>14
      <4>2. \A i \in 1..Len(p) : k + (i + 1) = (k + 1) + i
        BY <3>5
      <4>3. \A i \in 1..Len(p) : p[i] = ws[(k + 1) + i]
        <5> TAKE i \in 1..Len(p)
        <5>1. p[i] = ws[k + (i + 1)]
          BY <3>5, <4>1
        <5> QED BY <4>2, <5>1
      <4> QED BY <3>4, <3>5, <4>1, <4>3
    <3>16. (Writes(tree))' = ws /\ plan' = p
      BY <2>1, <3>1, <3>14
    <3>17. k + 1 \in 0..Len(ws)
      BY <3>8
    <3>18. LandedTo(tree, plan)'
      BY <3>13, <3>15, <3>16, <3>17 DEF LandedTo
    <3>19. Len(plan) = 1 => k + 1 = Len(ws)
      <4>1. k \in Int /\ (n - k = 1 => k + 1 = n)
        BY <3>21
      <4> QED BY <3>21, <4>1
    <3>20. result' = "ok" => AllLanded(tree)'
      BY <2>1, <3>13, <3>16, <3>19 DEF AllLanded
    <3> QED BY <3>18, <3>20
  <2>4. SizesFit(tree)' => SizesFit(tree)
    BY <2>1 DEF SizesFit
  <2>5. Distinct(tree)'
    BY <2>1, <2>2
  <2> QED BY <2>3, <2>4, <2>5 DEF ImageInv
<1>6. ASSUME WriteFails
      PROVE  ImageInv'
  <2>1. plan' = << >> /\ result' = "failed"
    BY <1>6 DEF WriteFails
  <2> QED BY <2>1 DEF ImageInv
<1>7. ASSUME UNCHANGED vars
      PROVE  ImageInv'
  <2>1. plan' = plan /\ tree' = tree /\ sink' = sink /\ result' = result
    BY <1>7 DEF vars
  <2>2. \A w : Landed(w)' <=> Landed(w)
    BY <2>1 DEF Landed
  <2>3. LandedTo(tree, plan) => LandedTo(tree, plan)'
    BY <2>1, <2>2 DEF LandedTo
  <2>4. AllLanded(tree) => AllLanded(tree)'
    BY <2>1, <2>2 DEF AllLanded
  <2>5. SizesFit(tree)' => SizesFit(tree)
    BY <2>1 DEF SizesFit
  <2> QED BY <2>1, <2>3, <2>4, <2>5 DEF ImageInv
<1> QED BY <1>2, <1>3, <1>4, <1>5, <1>6, <1>7 DEF Next

(* Every write that is done stays in the image, although a WriteTo writes  *)
(* over what an earlier or a failed one left there, unless a size is too   *)
(* large for the uint32 arithmetic.                                        *)
THEOREM ImageInvariance == Spec => []ImageInv
BY InitImage, NextImage, Invariance, WritesInvariance, PTL DEF Spec

---------------------------------------------------------------------------
(* What is in the image after WriteTo *)

\* Two runs of writes together have the writes of both.
LEMMA ElementsJoin ==
  ASSUME NEW u, NEW v, IsPlan(u), IsPlan(v)
  PROVE  Elements(u) \subseteq Elements(u \o v) /\ Elements(v) \subseteq Elements(u \o v)
<1>1. PICK w : w = u \o v
  OBVIOUS
<1>2. /\ Len(u) \in Nat /\ Len(v) \in Nat /\ Len(w) = Len(u) + Len(v)
      /\ \A i \in 1..Len(u) : w[i] = u[i]
      /\ \A i \in 1..Len(v) : w[Len(u) + i] = v[i]
  BY <1>1, PlansJoin
<1>3. ASSUME NEW x \in Elements(u)
      PROVE  x \in Elements(w)
  <2>1. PICK i \in 1..Len(u) : u[i] = x
    BY DEF Elements
  <2>2. i \in 1..Len(w) /\ w[i] = x
    BY <1>2, <2>1
  <2> QED BY <2>2 DEF Elements
<1>4. ASSUME NEW x \in Elements(v)
      PROVE  x \in Elements(w)
  <2>1. PICK i \in 1..Len(v) : v[i] = x
    BY DEF Elements
  <2>2. Len(u) + i \in 1..Len(w) /\ w[Len(u) + i] = x
    BY <1>2, <2>1
  <2> QED BY <2>2 DEF Elements
<1> QED BY <1>1, <1>3, <1>4

\* No file with data is left out.
LEMMA DataIsKept ==
  ASSUME NEW t, NEW n, TreeInv(t, n), Distinct(t), NEW p \in DOMAIN t \ Directories(t), t[p].data.size # 0
  PROVE  /\ FilesWithData(t) \in Seq(DOMAIN t \ Directories(t))
         /\ \E j \in 1..Len(FilesWithData(t)) : FilesWithData(t)[j] = p
<1>1. PICK S : S = DOMAIN t \ Directories(t)
  OBVIOUS
<1>2. PICK files : files = OrderedFiles(t)
  OBVIOUS
<1>3. files \in Seq(S) /\ Len(files) \in Nat /\ \E i \in 1..Len(files) : files[i] = p
  <2>1. Lists(S, files) /\ p \in S
    BY <1>1, <1>2, PlacingLists
  <2> QED BY <2>1 DEF Lists
<1>4. PICK kept :
        /\ FilesWithData(t) = kept[Len(files)]
        /\ kept[0] = << >>
        /\ \A i \in 1..Len(files) :
             kept[i] = IF t[files[i]].data.size = 0 THEN kept[i - 1] ELSE Append(kept[i - 1], files[i])
        /\ \A i \in 0..Len(files) : kept[i] \in Seq(S)
  BY <1>2, <1>3, FilesKept
<1>5. PICK m \in 1..Len(files) : files[m] = p
  BY <1>3
<1> DEFINE G == {k \in 0..Len(files) : k >= m => \E j \in 1..Len(kept[k]) : kept[k][j] = p}
<1>6. 0 \in G
  BY <1>3, <1>5
<1>7. ASSUME NEW k \in 1..Len(files), k - 1 \in G
      PROVE  k \in G
  <2>1. k \in 0..Len(files) /\ k - 1 \in 0..Len(files) /\ kept[k - 1] \in Seq(S) /\ files[k] \in S
    BY <1>3, <1>4
  <2>2. CASE k < m
    BY <2>1, <2>2
  <2>3. CASE k = m
    <3>1. kept[k] = Append(kept[k - 1], p)
      BY <1>4, <1>5, <2>3
    <3>2. PICK a : a = kept[k - 1]
      OBVIOUS
    <3>3. a \in Seq(S) /\ p \in S
      BY <1>1, <2>1, <3>2
    <3>4. Len(Append(a, p)) \in 1..Len(Append(a, p)) /\ Append(a, p)[Len(Append(a, p))] = p
      BY <3>3
    <3> QED BY <2>1, <3>1, <3>2, <3>4
  <2>4. CASE k > m
    <3>1. PICK j \in 1..Len(kept[k - 1]) : kept[k - 1][j] = p
      BY <1>7, <2>1, <2>4
    <3>2. CASE t[files[k]].data.size = 0
      BY <1>4, <2>1, <3>1, <3>2
    <3>3. CASE t[files[k]].data.size # 0
      <4>1. kept[k] = Append(kept[k - 1], files[k])
        BY <1>4, <3>3
      <4>2. PICK a : a = kept[k - 1]
        OBVIOUS
      <4>3. PICK x : x = files[k]
        OBVIOUS
      <4>4. j \in 1..Len(Append(a, x)) /\ Append(a, x)[j] = p
        BY <2>1, <3>1, <4>2, <4>3
      <4> QED BY <2>1, <4>1, <4>2, <4>3, <4>4
    <3> QED BY <3>2, <3>3
  <2> QED BY <1>5, <2>2, <2>3, <2>4
<1> HIDE DEF G
<1>8. \A k \in 0..Len(files) : k \in G
  BY <1>3, <1>6, <1>7, InductionTo
<1>9. Len(files) \in G /\ Len(files) >= m /\ Len(files) \in 0..Len(files)
  BY <1>3, <1>5, <1>8
<1> QED BY <1>1, <1>4, <1>9 DEF G

\* What WriteTo writes.
LEMMA WritesHave ==
  ASSUME NEW t, NEW n, TreeInv(t, n), Distinct(t)
  PROVE  /\ WriteAt(SystemArea, <<PrimaryVolumeDescriptor(t, Layout(t))>>) \in Elements(Writes(t))
         /\ WriteAt(PathTableLLBA, PathTable(t, Layout(t), FALSE)) \in Elements(Writes(t))
         /\ WriteAt(PathTableMLBA(t), PathTable(t, Layout(t), TRUE)) \in Elements(Writes(t))
         /\ \A d \in Directories(t) : DirWrite(t, d) \in Elements(Writes(t))
         /\ \A p \in DOMAIN t \ Directories(t) :
              t[p].data.size # 0 => FileWrite(t, p) \in Elements(Writes(t))
<1>4. PICK z : z = Zeros
  OBVIOUS
<1>5. PICK d : d = Descriptors(t)
  OBVIOUS
<1>6. PICK ds : ds = DirWrites(t)
  OBVIOUS
<1>7. PICK fs : fs = FileWrites(t, FilesWithData(t))
  OBVIOUS
<1>8. Writes(t) = z \o d \o ds \o fs
  BY <1>4, <1>5, <1>6, <1>7, Zenon
     DEF Writes, Zeros, Descriptors, DirWrites, DirWrite, FileWrites, FileWrite
<1>9. PICK next : Placed(t, next)
  BY LayoutPlaces
<1>10. IsPlan(z) /\ IsPlan(d) /\ IsPlan(ds) /\ IsPlan(fs)
  BY <1>4, <1>5, <1>6, <1>7, <1>9, ZerosChained, DescriptorsChained, DirsChained, FilesChained
<1>11. PICK u : u = z \o d
  OBVIOUS
<1>12. IsPlan(u) /\ Elements(d) \subseteq Elements(u)
  BY <1>10, <1>11, PlansJoin, ElementsJoin
<1>13. PICK v : v = u \o ds
  OBVIOUS
<1>14. IsPlan(v) /\ Elements(u) \subseteq Elements(v) /\ Elements(ds) \subseteq Elements(v)
  BY <1>10, <1>12, <1>13, PlansJoin, ElementsJoin
<1>15. Writes(t) = v \o fs
  BY <1>8, <1>11, <1>13
<1>16. Elements(v) \subseteq Elements(Writes(t)) /\ Elements(fs) \subseteq Elements(Writes(t))
  BY <1>10, <1>14, <1>15, ElementsJoin
<1>17. PICK w1 : w1 = WriteAt(SystemArea, <<PrimaryVolumeDescriptor(t, Layout(t))>>)
  OBVIOUS
<1>18. PICK w2 : w2 = WriteAt(SystemArea + 1, <<[kind |-> "terminator"]>>)
  OBVIOUS
<1>19. PICK w3 : w3 = WriteAt(PathTableLLBA, PathTable(t, Layout(t), FALSE))
  OBVIOUS
<1>20. PICK w4 : w4 = WriteAt(PathTableMLBA(t), PathTable(t, Layout(t), TRUE))
  OBVIOUS
<1>21. d = <<w1, w2, w3, w4>>
  BY <1>5, <1>17, <1>18, <1>19, <1>20, Zenon DEF Descriptors
<1>22. w1 \in Elements(d) /\ w3 \in Elements(d) /\ w4 \in Elements(d)
  <2>1. d[1] = w1 /\ d[3] = w3 /\ d[4] = w4 /\ Len(d) = 4
    BY <1>21
  <2>2. 1 \in 1..4 /\ 3 \in 1..4 /\ 4 \in 1..4
    OBVIOUS
  <2> QED BY <2>1, <2>2 DEF Elements
<1>23. w1 \in Elements(Writes(t)) /\ w3 \in Elements(Writes(t)) /\ w4 \in Elements(Writes(t))
  BY <1>12, <1>14, <1>16, <1>22
<1>24. ASSUME NEW x \in Directories(t)
       PROVE  DirWrite(t, x) \in Elements(Writes(t))
  <2>1. PICK dirs : dirs = OrderedDirs(t)
    OBVIOUS
  <2>2. PICK m \in Nat : m = Len(dirs)
    BY <2>1, PlacingLists DEF Lists
  <2>3. PICK i \in 1..m : dirs[i] = x
    <3>1. Lists(Directories(t), dirs)
      BY <2>1, PlacingLists
    <3> QED BY <2>2, <3>1 DEF Lists
  <2>4. ds = [j \in 1..m |-> DirWrite(t, dirs[j])]
    BY <1>6, <2>1, <2>2, Zenon DEF DirWrites
  <2>5. ds[i] = DirWrite(t, x)
    BY <2>3, <2>4
  <2>6. ds = [j \in 1..m |-> ds[j]]
    BY <2>4
  <2>7. Len(ds) = m
    <3>1. DOMAIN ds = 1..m
      BY <2>4
    <3> QED BY <2>6, <3>1, LengthOf
  <2>8. ds[i] \in Elements(ds)
    BY <2>7 DEF Elements
  <2> QED BY <1>14, <1>16, <2>5, <2>8
<1>25. ASSUME NEW x \in DOMAIN t \ Directories(t), t[x].data.size # 0
       PROVE  FileWrite(t, x) \in Elements(Writes(t))
  <2>1. PICK s : s = FilesWithData(t)
    OBVIOUS
  <2>2. s \in Seq(DOMAIN t \ Directories(t)) /\ \E j \in 1..Len(s) : s[j] = x
    BY <1>25, <2>1, DataIsKept
  <2>3. PICK j \in 1..Len(s) : s[j] = x
    BY <2>2
  <2>4. fs[j] = FileWrite(t, x) /\ Len(fs) = Len(s)
    BY <1>7, <2>1, <2>2, <2>3, FilesPlanned
  <2>5. fs[j] \in Elements(fs)
    BY <2>4 DEF Elements
  <2> QED BY <1>16, <2>4, <2>5
<1> QED BY <1>17, <1>19, <1>20, <1>23, <1>24, <1>25

---------------------------------------------------------------------------
(* The records of a directory, in its sectors *)

\* Ordered puts numbers in their order.
LEMMA NumbersOrdered ==
  ASSUME NEW S, IsFiniteSet(S), S \subseteq Nat
  PROVE  Enumerates(S, [x \in S |-> {y \in S : y < x}], Ordered(S, LAMBDA i, j : i < j))
<1> DEFINE B == [x \in S |-> {y \in S : y < x}]
<1>1. Orders(S, B)
  <2>1. B \in [S -> SUBSET S] /\ \A x \in S : B[x] = {y \in S : y < x}
    OBVIOUS
  <2> HIDE DEF B
  <2>2. \A x \in S : x \notin B[x]
    BY <2>1
  <2>3. ASSUME NEW x \in S, NEW y \in S, y \in B[x], NEW z \in B[y]
        PROVE  z \in B[x]
    <3>1. y < x /\ z \in S /\ z < y
      BY <2>1, <2>3
    <3>2. z < x
      BY <3>1
    <3> QED BY <2>1, <3>1, <3>2
  <2>4. \A x, y \in S : x # y => x \in B[y] \/ y \in B[x]
    BY <2>1
  <2> QED BY <2>1, <2>2, <2>3, <2>4 DEF Orders
<1>2. PICK s : s = Ordered(S, LAMBDA i, j : i < j)
  OBVIOUS
<1>3. s = [i \in 1..Cardinality(S) |-> CHOOSE x \in S : Cardinality({y \in S : y < x}) = i - 1]
  BY <1>2, Zenon DEF Ordered
<1>4. \A i \in 1..Cardinality(S) :
        (\E x \in S : Cardinality(B[x]) = i - 1) => s[i] \in S /\ Cardinality(B[s[i]]) = i - 1
  <2> TAKE i \in 1..Cardinality(S)
  <2> SUFFICES ASSUME \E x \in S : Cardinality(B[x]) = i - 1
               PROVE  s[i] \in S /\ Cardinality(B[s[i]]) = i - 1
    OBVIOUS
  <2>1. \E x \in S : Cardinality({y \in S : y < x}) = i - 1
    OBVIOUS
  <2>2. s[i] = CHOOSE x \in S : Cardinality({y \in S : y < x}) = i - 1
    BY <1>3
  <2>3. s[i] \in S /\ Cardinality({y \in S : y < s[i]}) = i - 1
    BY <2>1, <2>2
  <2> QED BY <2>3
<1>5. s = [i \in 1..Cardinality(S) |-> s[i]]
  <2> DEFINE g(i) == CHOOSE x \in S : Cardinality({y \in S : y < x}) = i - 1
  <2>1. s = [i \in 1..Cardinality(S) |-> g(i)]
    BY <1>3
  <2> HIDE DEF g
  <2> QED BY <2>1
<1> HIDE DEF B
<1>6. Enumerates(S, B, s)
  BY <1>1, <1>4, <1>5, Enumerated
<1> QED BY <1>2, <1>6 DEF B

\* A record is put at or behind the end of the one before it.
LEMMA FitForward ==
  ASSUME NEW pos \in Nat, NEW rl \in Nat
  PROVE  Fit(pos, rl) \in Nat /\ pos <= Fit(pos, rl)
<1>1. SectorSize \in Nat \ {0}
  BY BuilderAssumption
<1>2. PICK q \in Nat : q = pos \div SectorSize
  BY <1>1, Division
<1>3. pos < q * SectorSize + SectorSize
  BY <1>1, <1>2, Division
<1>4. PICK x \in Nat : x = q * SectorSize
  BY <1>1
<1>5. (q + 1) * SectorSize = x + SectorSize
  BY <1>1, <1>2, <1>4, Multiples
<1>6. Fit(pos, rl) = x + SectorSize \/ Fit(pos, rl) = pos
  BY <1>2, <1>5 DEF Fit
<1> QED BY <1>1, <1>3, <1>4, <1>6

\* The records of a directory follow one another up to the end of the last.
LEMMA EndsGrow ==
  ASSUME NEW ids \in Seq(Nat)
  PROVE  /\ \A i \in 1..Len(ids) :
              /\ Ends(ids)[i] - DirRecordLen(ids[i]) \in Nat
              /\ Ends(ids)[i - 1] <= Ends(ids)[i] - DirRecordLen(ids[i])
              /\ Ends(ids)[i] - DirRecordLen(ids[i]) < Ends(ids)[Len(ids)]
         /\ \A i \in 0..Len(ids) : Ends(ids)[i] \in Nat
<1>1. PICK e : e = Ends(ids)
  OBVIOUS
<1>2. PICK n \in Nat : n = Len(ids)
  OBVIOUS
<1>3. /\ \A i \in 1..n : e[i] = Fit(e[i - 1], DirRecordLen(ids[i])) + DirRecordLen(ids[i])
      /\ \A i \in 0..n : e[i] \in Nat
  BY <1>1, <1>2, EndsTyped
<1>4. ASSUME NEW i \in 1..n
      PROVE  /\ e[i] - DirRecordLen(ids[i]) \in Nat /\ e[i - 1] <= e[i] - DirRecordLen(ids[i])
             /\ e[i] - DirRecordLen(ids[i]) < e[i] /\ e[i - 1] <= e[i] /\ e[i] \in Nat
  <2>1. ids[i] \in Nat /\ e[i - 1] \in Nat
    <3>1. i - 1 \in 0..n
      OBVIOUS
    <3>2. e[i - 1] \in Nat
      BY <1>3, <3>1
    <3>3. ids[i] \in Nat
      BY <1>2
    <3> QED BY <3>2, <3>3
  <2>2. PICK rl \in Nat \ {0} : rl = DirRecordLen(ids[i])
    BY <2>1, RecordLengths
  <2>3. PICK f \in Nat : f = Fit(e[i - 1], rl) /\ e[i - 1] <= f
    BY <2>1, FitForward
  <2>4. e[i] = f + rl
    BY <1>3, <2>2, <2>3
  <2>5. e[i] \in Nat /\ e[i] - rl = f /\ f < e[i]
    BY <2>2, <2>3, <2>4
  <2>6. e[i - 1] <= f /\ e[i - 1] <= e[i]
    BY <2>1, <2>2, <2>3, <2>4
  <2> QED BY <2>2, <2>3, <2>5, <2>6
<1>5. ASSUME NEW i \in 1..n
      PROVE  e[i] <= e[n]
  <2> DEFINE G == {k \in 0..n : k < i \/ e[i] <= e[k]}
  <2>1. 0 \in G
    OBVIOUS
  <2>2. ASSUME NEW k \in 1..n, k - 1 \in G
        PROVE  k \in G
    <3>1. k \in 0..n /\ e[k - 1] \in Nat /\ e[k - 1] <= e[k] /\ e[k] \in Nat /\ e[i] \in Nat
      BY <1>3, <1>4
    <3>2. CASE k < i
      BY <3>1, <3>2
    <3>3. CASE k = i
      BY <3>1, <3>3
    <3>4. CASE k > i
      <4>1. e[i] <= e[k - 1]
        BY <2>2, <3>4
      <4> QED BY <3>1, <4>1
    <3> QED BY <3>2, <3>3, <3>4
  <2> HIDE DEF G
  <2>3. \A k \in 0..n : k \in G
    BY <2>1, <2>2, InductionTo
  <2>4. n \in G
    BY <2>3
  <2> QED BY <2>4 DEF G
<1>6. ASSUME NEW i \in 1..n
      PROVE  e[i] - DirRecordLen(ids[i]) < e[n]
  <2>1. PICK x \in Nat : x = e[i] - DirRecordLen(ids[i])
    BY <1>4
  <2>2. x < e[i] /\ e[i] <= e[n] /\ e[i] \in Nat /\ e[n] \in Nat
    BY <1>3, <1>4, <1>5, <2>1
  <2> QED BY <2>1, <2>2
<1> QED BY <1>1, <1>2, <1>3, <1>4, <1>6

\* An offset below the end of k sectors is in one of them.
LEMMA InSectors ==
  ASSUME NEW e \in Nat, NEW x \in Nat, x < e
  PROVE  x \div SectorSize + 1 \in 1..((e + SectorSize - 1) \div SectorSize)
<1>1. PICK b \in Nat \ {0} : b = SectorSize
  BY BuilderAssumption
<1>2. PICK m \in Nat : m = e + b - 1
  OBVIOUS
<1>3. PICK q \in Nat : q = m \div b /\ m < q * b + b
  BY <1>2, Division
<1>4. PICK r \in Nat : r = x \div b /\ r * b <= x
  BY Division
<1>5. q * b \in Nat /\ r * b \in Nat
  OBVIOUS
<1>6. r * b < q * b
  BY <1>2, <1>3, <1>4, <1>5
<1>7. r < q
  BY <1>5, <1>6, Multiples
<1> QED BY <1>1, <1>2, <1>3, <1>4, <1>7

\* The records of a directory: its own, its parent's, and those of its children.
KidRecord(t, q) == Record(t[q].id, t[q].isDir, Layout(t), q)
OwnRecord(t, d) == Record(Self, TRUE, Layout(t), d)
ParentRecord(t, d) == Record(Parent, TRUE, Layout(t), ParentOf(d))

RecordsOf(t, d) ==
  {OwnRecord(t, d), ParentRecord(t, d)} \cup {KidRecord(t, q) : q \in Children(t, d)}

\* The same, in the order they are written in.
Rows(t, d) ==
  LET kids == OrderedChildren(t, d)
  IN <<OwnRecord(t, d), ParentRecord(t, d)>> \o [i \in 1..Len(kids) |-> KidRecord(t, kids[i])]

\* Rows of the directory itself, of its parent, and of its children in this order.
InRows(t, d, kids, rows) ==
  /\ Len(kids) \in Nat
  /\ Len(rows) = Len(kids) + 2
  /\ rows[1] = OwnRecord(t, d)
  /\ rows[2] = ParentRecord(t, d)
  /\ \A i \in 1..Len(kids) : rows[i + 2] = KidRecord(t, kids[i])

\* What the rows of a directory are.
LEMMA RowsAre ==
  ASSUME NEW t, NEW n, TreeInv(t, n), Distinct(t), NEW d \in DOMAIN t,
         NEW kids, kids = OrderedChildren(t, d), NEW rows, rows = Rows(t, d)
  PROVE  /\ InRows(t, d, kids, rows)
         /\ rows \in Seq(RecordsOf(t, d))
         /\ \A r \in RecordsOf(t, d) : \E i \in 1..Len(rows) : rows[i] = r
<1>1. PICK S : S = RecordsOf(t, d)
  OBVIOUS
<1>2. PICK m \in Nat : m = Len(kids)
  BY KidsTyped
<1>3. \A i \in 1..m : kids[i] \in Children(t, d)
  BY <1>2, KidsTyped
<1>4. PICK o : o = OwnRecord(t, d)
  OBVIOUS
<1>5. PICK p : p = ParentRecord(t, d)
  OBVIOUS
<1>6. o \in S /\ p \in S /\ \A q \in Children(t, d) : KidRecord(t, q) \in S
  BY <1>1, <1>4, <1>5 DEF RecordsOf
<1>7. PICK a : a = <<o, p>>
  OBVIOUS
<1>8. a \in Seq(S) /\ Len(a) = 2 /\ a[1] = o /\ a[2] = p
  BY <1>6, <1>7
<1>9. PICK b : b = [i \in 1..m |-> KidRecord(t, kids[i])]
  OBVIOUS
<1>10. b \in [1..m -> S] /\ \A i \in 1..m : b[i] = KidRecord(t, kids[i])
  BY <1>3, <1>6, <1>9
<1>11. b \in Seq(S) /\ Len(b) = m
  BY <1>10, FunctionIsSequence
<1>12. rows = a \o b
  BY <1>2, <1>4, <1>5, <1>7, <1>9 DEF Rows
<1>13. /\ rows \in Seq(S) /\ Len(rows) = 2 + m /\ \A i \in 1..2 : rows[i] = a[i]
       /\ \A i \in 1..m : rows[2 + i] = b[i]
  <2>1. PICK c : c = a \o b
    OBVIOUS
  <2>2. /\ c \in Seq(S)
        /\ Len(c) = Len(a) + Len(b)
        /\ \A i \in 1..Len(a) : c[i] = a[i]
        /\ \A i \in 1..Len(b) : c[Len(a) + i] = b[i]
    <3>1. a \in Seq(S) /\ b \in Seq(S)
      BY <1>8, <1>11
    <3>2. /\ a \o b \in Seq(S)
          /\ Len(a \o b) = Len(a) + Len(b)
          /\ \A i \in 1..Len(a) : (a \o b)[i] = a[i]
          /\ \A i \in 1..Len(b) : (a \o b)[Len(a) + i] = b[i]
      BY <3>1, Joined
    <3> QED BY <2>1, <3>2
  <2>3. rows = c
    BY <1>12, <2>1
  <2> QED BY <1>8, <1>11, <2>2, <2>3
<1>14. rows[1] = o /\ rows[2] = p
  BY <1>8, <1>13
<1>15. \A i \in 1..m : rows[i + 2] = KidRecord(t, kids[i])
  BY <1>10, <1>13
<1>16. ASSUME NEW r \in S
       PROVE  \E i \in 1..Len(rows) : rows[i] = r
  <2>1. 1 \in 1..Len(rows) /\ 2 \in 1..Len(rows)
    BY <1>13
  <2>2. CASE r = o
    BY <1>14, <2>1, <2>2
  <2>3. CASE r = p
    BY <1>14, <2>1, <2>3
  <2>4. ASSUME NEW q \in Children(t, d), r = KidRecord(t, q)
        PROVE  \E i \in 1..Len(rows) : rows[i] = r
    <3>1. PICK C : C = Children(t, d)
      OBVIOUS
    <3>2. Elements(kids) = C
      BY <3>1, ChildrenOrdered DEF Enumerates
    <3>3. PICK i \in 1..m : kids[i] = q
      BY <1>2, <3>1, <3>2 DEF Elements
    <3>4. rows[i + 2] = r /\ i + 2 \in 1..Len(rows)
      BY <1>13, <1>15, <2>4, <3>3
    <3> QED BY <3>4
  <2> QED BY <1>1, <1>4, <1>5, <2>2, <2>3, <2>4 DEF RecordsOf
<1>17. InRows(t, d, kids, rows)
  BY <1>2, <1>4, <1>5, <1>13, <1>14, <1>15 DEF InRows
<1>18. rows \in Seq(RecordsOf(t, d))
  BY <1>1, <1>13
<1> QED BY <1>1, <1>16, <1>17, <1>18

\* The rows whose place is in sector s, in their order.
Row(ids, i) == (Emitted(ids)[i] - DirRecordLen(ids[i])) \div SectorSize + 1
RowsIn(ids, s) == Ordered({i \in 1..Len(ids) : Row(ids, i) = s}, LAMBDA i, j : i < j)

\* directoryExtent emits the records where directoryExtentSize counted them.
LEMMA EmittedAsCounted ==
  ASSUME NEW ids
  PROVE  Emitted(ids) = Ends(ids)
BY Zenon DEF Emitted, EmitAt, Ends, Fit

LEMMA RowIs ==
  ASSUME NEW ids, NEW i
  PROVE  Row(ids, i) = (Ends(ids)[i] - DirRecordLen(ids[i])) \div SectorSize + 1
BY EmittedAsCounted, Zenon DEF Row

\* x is a directory extent of K sectors with these rows, their identifiers of these lengths.
Filed(rows, ids, K, x) ==
  /\ Len(ids) = Len(rows) /\ Len(rows) \in Nat /\ 2 <= Len(rows)
  /\ ids[1] = 1 /\ ids[2] = 1
  /\ K = (Ends(ids)[Len(ids)] + SectorSize - 1) \div SectorSize
  /\ x = [s \in 1..K |-> x[s]]
  /\ \A s \in 1..K :
       /\ x[s].kind = "records"
       /\ x[s].records = [k \in 1..Len(RowsIn(ids, s)) |-> rows[RowsIn(ids, s)[k]]]

\* Each sector of a directory has the rows whose place is in it.
LEMMA ExtentIs ==
  ASSUME NEW t, NEW n, TreeInv(t, n), Distinct(t), NEW d \in Directories(t),
         NEW rows, rows = Rows(t, d), NEW x, x = DirectoryExtent(t, Layout(t), d)
  PROVE  \E ids \in Seq(Nat) : \E K \in Nat :
           Filed(rows, ids, K, x) /\ Layout(t).len[d] \div SectorSize = K
<1>1. PICK kids : kids = OrderedChildren(t, d)
  OBVIOUS
<1>2. d \in DOMAIN t /\ t[d].isDir
  BY DEF Directories
<1>3. /\ Len(kids) \in Nat /\ Len(rows) = Len(kids) + 2
      /\ rows[1] = OwnRecord(t, d) /\ rows[2] = ParentRecord(t, d)
      /\ \A i \in 1..Len(kids) : rows[i + 2] = KidRecord(t, kids[i])
  <2>1. d \in DOMAIN t
    BY <1>2
  <2>2. InRows(t, d, kids, rows)
    BY <1>1, <2>1, RowsAre
  <2> QED BY <2>2 DEF InRows
<1>4. PICK m \in Nat : m = Len(kids)
  BY <1>3
<1>5. PICK ids : ids = [i \in 1..(m + 2) |-> IF i <= 2 THEN 1 ELSE Len(t[kids[i - 2]].id)]
  OBVIOUS
<1>6. ids \in [1..(m + 2) -> Nat] /\ ids[1] = 1 /\ ids[2] = 1
  <2>1. \A i \in 1..m : Len(t[kids[i]].id) \in Nat
    BY <1>1, <1>2, <1>4, KidsTyped
  <2>2. \A i \in 1..(m + 2) : i <= 2 \/ i - 2 \in 1..m
    OBVIOUS
  <2>3. \A i \in 1..(m + 2) : ids[i] = IF i <= 2 THEN 1 ELSE Len(t[kids[i - 2]].id)
    BY <1>5
  <2>4. \A i \in 1..(m + 2) : ids[i] \in Nat
    BY <2>1, <2>2, <2>3
  <2>5. ids = [i \in 1..(m + 2) |-> ids[i]]
    BY <1>5
  <2>6. ids[1] = 1 /\ ids[2] = 1
    BY <2>3
  <2> QED BY <2>4, <2>5, <2>6
<1>7. ids \in Seq(Nat) /\ Len(ids) = m + 2
  BY <1>6, FunctionIsSequence
<1>8. ids = [i \in 1..Len(rows) |-> Len(rows[i].id)]
  <2>1. Len(rows[1].id) = 1 /\ Len(rows[2].id) = 1
    <3>1. rows[1].id = Self /\ rows[2].id = Parent
      BY <1>3 DEF OwnRecord, ParentRecord, Record
    <3> QED BY <3>1 DEF Self, Parent
  <2>2. ASSUME NEW i \in 1..m
        PROVE  Len(rows[i + 2].id) = Len(t[kids[i]].id)
    <3>1. PICK r : r = KidRecord(t, kids[i])
      OBVIOUS
    <3>2. rows[i + 2] = r
      BY <1>3, <1>4, <3>1
    <3>3. r.id = t[kids[i]].id
      BY <3>1 DEF KidRecord, Record
    <3> QED BY <3>2, <3>3
  <2>3. ASSUME NEW i \in 1..(m + 2)
        PROVE  ids[i] = Len(rows[i].id)
    <3>1. CASE i = 1 \/ i = 2
      BY <1>6, <2>1, <3>1
    <3>2. CASE i > 2
      <4>1. PICK j \in 1..m : j = i - 2 /\ i = j + 2
        BY <3>2
      <4>2. ids[i] = Len(t[kids[j]].id)
        BY <1>5, <3>2, <4>1
      <4> QED BY <2>2, <4>1, <4>2
    <3> QED BY <3>1, <3>2
  <2>4. ids = [i \in 1..(m + 2) |-> ids[i]]
    BY <1>5
  <2> QED BY <1>3, <1>4, <2>3, <2>4
<1>9. PICK e \in Nat : e = Ends(ids)[Len(ids)]
  <2>1. Len(ids) \in 0..Len(ids)
    BY <1>7
  <2> QED BY <1>7, <2>1, EndsTyped
<1>10. PICK K \in Nat : K = (e + SectorSize - 1) \div SectorSize
  <2>1. PICK b \in Nat \ {0} : b = SectorSize
    BY BuilderAssumption
  <2>2. PICK y \in Nat : y = e + b - 1
    OBVIOUS
  <2> QED BY <2>1, <2>2, Division
<1>11. DirectoryExtentSize(t, d) = K * SectorSize
  <2>1. ids = [i \in 1..(Len(kids) + 2) |-> IF i <= 2 THEN 1 ELSE Len(t[kids[i - 2]].id)]
    BY <1>4, <1>5
  <2> QED BY <1>1, <1>9, <1>10, <2>1, Zenon DEF DirectoryExtentSize
<1>12. Layout(t).len[d] = K * SectorSize /\ Layout(t).len[d] \div SectorSize = K
  <2>1. Layout(t).len[d] = K * SectorSize
    BY <1>2, <1>11, Placements DEF LenOf
  <2> QED BY <2>1, WholeSectors
<1>13. x = [s \in 1..K |->
              [kind |-> "records",
               records |-> [k \in 1..Len(RowsIn(ids, s)) |-> rows[RowsIn(ids, s)[k]]]]]
  <2>1. PICK l : l = Layout(t)
    OBVIOUS
  <2>2. rows = <<Record(Self, TRUE, l, d), Record(Parent, TRUE, l, ParentOf(d))>>
               \o [i \in 1..Len(kids) |-> Record(t[kids[i]].id, t[kids[i]].isDir, l, kids[i])]
    BY <1>1, <2>1, Zenon DEF Rows, OwnRecord, ParentRecord, KidRecord
  <2>3. Len(ids) = Len(rows)
    BY <1>3, <1>4, <1>7
  <2>4. l.len[d] \div SectorSize = K
    BY <1>12, <2>1
  <2> QED BY <1>1, <1>8, <2>1, <2>2, <2>3, <2>4, Zenon DEF DirectoryExtent, RowsIn, Row
<1>14. x = [s \in 1..K |-> x[s]]
  BY <1>13
<1>15. \A s \in 1..K :
         /\ x[s].kind = "records"
         /\ x[s].records = [k \in 1..Len(RowsIn(ids, s)) |-> rows[RowsIn(ids, s)[k]]]
  BY <1>13
<1>16. /\ Len(ids) = Len(rows) /\ Len(rows) \in Nat /\ 2 <= Len(rows)
       /\ ids[1] = 1 /\ ids[2] = 1
       /\ K = (Ends(ids)[Len(ids)] + SectorSize - 1) \div SectorSize
  BY <1>3, <1>4, <1>6, <1>7, <1>9, <1>10
<1>17. Filed(rows, ids, K, x)
  BY <1>14, <1>15, <1>16 DEF Filed
<1> QED BY <1>7, <1>12, <1>17, Zenon

\* The rows of a sector, as numbers in their order.
LEMMA RowsInAre ==
  ASSUME NEW ids \in Seq(Nat), NEW s \in Int
  PROVE  LET R == {i \in 1..Len(ids) : Row(ids, i) = s}
         IN /\ RowsIn(ids, s) \in Seq(R) /\ Len(RowsIn(ids, s)) \in Nat
            /\ Elements(RowsIn(ids, s)) = R
            /\ \A i, j \in 1..Len(RowsIn(ids, s)) : i < j => RowsIn(ids, s)[i] < RowsIn(ids, s)[j]
<1>1. PICK R : R = {i \in 1..Len(ids) : Row(ids, i) = s}
  OBVIOUS
<1>2. IsFiniteSet(R) /\ R \subseteq Nat /\ R \in SUBSET (1..Len(ids))
  <2>1. R \in SUBSET (1..Len(ids)) /\ Len(ids) \in Nat
    BY <1>1
  <2>2. PICK m \in Int : m = Len(ids)
    OBVIOUS
  <2>3. R \in SUBSET (1..m) /\ 1 \in Int
    BY <2>1, <2>2
  <2>4. IsFiniteSet(R)
    BY <2>3, Bounded
  <2> QED BY <2>1, <2>4
<1>3. PICK w : w = RowsIn(ids, s)
  OBVIOUS
<1>4. w = Ordered(R, LAMBDA i, j : i < j)
  BY <1>1, <1>3, Zenon DEF RowsIn
<1>5. PICK B : B = [i \in R |-> {j \in R : j < i}]
  OBVIOUS
<1>6. Enumerates(R, B, w)
  BY <1>2, <1>4, <1>5, NumbersOrdered
<1>7. w \in Seq(R) /\ Len(w) \in Nat /\ Elements(w) = R
  BY <1>6 DEF Enumerates
<1>8. ASSUME NEW i \in 1..Len(w), NEW j \in 1..Len(w), i < j
      PROVE  w[i] < w[j]
  <2>1. w[i] \in B[w[j]] /\ w[j] \in R
    BY <1>6, <1>7, <1>8 DEF Enumerates
  <2> QED BY <1>5, <2>1
<1> QED BY <1>1, <1>3, <1>7, <1>8

\* The sectors of a directory have its records and nothing else.
LEMMA ExtentHas ==
  ASSUME NEW t, NEW n, TreeInv(t, n), Distinct(t), NEW d \in Directories(t),
         NEW x, x = DirectoryExtent(t, Layout(t), d)
  PROVE  /\ Len(x) \in Nat /\ Layout(t).len[d] \div SectorSize = Len(x)
         /\ x = [s \in 1..Len(x) |-> x[s]]
         /\ \A s \in 1..Len(x) : x[s].kind = "records" /\ x[s].records \in Seq(RecordsOf(t, d))
         /\ \A r \in RecordsOf(t, d) :
              \E s \in 1..Len(x) : \E k \in 1..Len(x[s].records) : x[s].records[k] = r
<1>1. PICK S : S = RecordsOf(t, d)
  OBVIOUS
<1>2. PICK rows : rows = Rows(t, d)
  OBVIOUS
<1>3. d \in DOMAIN t
  BY DEF Directories
<1>4. rows \in Seq(S) /\ \A r \in S : \E i \in 1..Len(rows) : rows[i] = r
  BY <1>1, <1>2, <1>3, RowsAre
<1>5. PICK ids \in Seq(Nat), K \in Nat : Filed(rows, ids, K, x) /\ Layout(t).len[d] \div SectorSize = K
  BY <1>2, ExtentIs
<1>6. /\ Len(ids) = Len(rows) /\ Len(rows) \in Nat /\ 2 <= Len(rows)
      /\ K = (Ends(ids)[Len(ids)] + SectorSize - 1) \div SectorSize
      /\ x = [s \in 1..K |-> x[s]]
      /\ \A s \in 1..K :
           /\ x[s].kind = "records"
           /\ x[s].records = [k \in 1..Len(RowsIn(ids, s)) |-> rows[RowsIn(ids, s)[k]]]
  BY <1>5 DEF Filed
<1>7. Len(x) = K
  <2>1. DOMAIN x = 1..K
    BY <1>6
  <2> QED BY <1>6, <2>1, LengthOf
<1>8. ASSUME NEW s \in 1..K
      PROVE  /\ x[s].kind = "records" /\ x[s].records \in Seq(S)
             /\ \A i \in 1..Len(rows) :
                  Row(ids, i) = s => \E k \in 1..Len(x[s].records) : x[s].records[k] = rows[i]
  <2>1. PICK R : R = {i \in 1..Len(ids) : Row(ids, i) = s}
    OBVIOUS
  <2>2. PICK w : w = RowsIn(ids, s)
    OBVIOUS
  <2>3. w \in Seq(R) /\ Len(w) \in Nat /\ Elements(w) = R
    BY <2>1, <2>2, RowsInAre
  <2>4. PICK y : y = x[s].records
    OBVIOUS
  <2>5. y = [i \in 1..Len(w) |-> rows[w[i]]]
    BY <1>6, <2>2, <2>4
  <2>6. ASSUME NEW i \in 1..Len(w)
        PROVE  w[i] \in 1..Len(rows) /\ rows[w[i]] \in S
    <3>1. w[i] \in R
      BY <2>3
    <3>2. w[i] \in 1..Len(rows)
      BY <1>6, <2>1, <3>1
    <3> QED BY <1>4, <3>2
  <2>7. y \in [1..Len(w) -> S]
    BY <2>5, <2>6
  <2>8. y \in Seq(S) /\ Len(y) = Len(w)
    BY <2>3, <2>7, FunctionIsSequence
  <2>9. ASSUME NEW i \in 1..Len(rows), Row(ids, i) = s
        PROVE  \E k \in 1..Len(y) : y[k] = rows[i]
    <3>1. i \in Elements(w)
      BY <1>6, <2>1, <2>3, <2>9
    <3>2. PICK k \in 1..Len(w) : w[k] = i
      BY <3>1 DEF Elements
    <3> QED BY <2>5, <2>8, <3>2
  <2> QED BY <1>6, <2>4, <2>8, <2>9
<1>9. ASSUME NEW r \in S
      PROVE  \E s \in 1..K : \E k \in 1..Len(x[s].records) : x[s].records[k] = r
  <2>1. PICK i \in 1..Len(rows) : rows[i] = r
    BY <1>4
  <2>2. i \in 1..Len(ids)
    BY <1>6, <2>1
  <2>3. PICK e \in Nat : e = Ends(ids)[Len(ids)]
    BY EndsGrow
  <2>4. PICK p \in Nat : p = Ends(ids)[i] - DirRecordLen(ids[i]) /\ p < e
    BY <2>2, <2>3, EndsGrow
  <2>5. Row(ids, i) = p \div SectorSize + 1
    BY <2>4, RowIs
  <2>6. Row(ids, i) \in 1..K
    BY <1>6, <2>3, <2>4, <2>5, InSectors
  <2>7. PICK s \in 1..K : s = Row(ids, i)
    BY <2>6
  <2> QED BY <1>8, <2>1, <2>7
<1> QED BY <1>1, <1>5, <1>6, <1>7, <1>8, <1>9

---------------------------------------------------------------------------
(* What the reader finds *)

\* A write that is in the image is what the reader reads there.
LEMMA LandedIsRead ==
  ASSUME NEW w, IsWrite(w), Landed(w), NEW lba, lba = w.lba, NEW x, x = w.sectors,
         NEW m \in Nat, m = Len(x), x = [s \in 1..m |-> x[s]]
  PROVE  SectorsAt(lba, m) = x
<1>1. PICK a \in Nat : a = lba
  BY DEF IsWrite
<1>2. PICK y : y = SectorsAt(lba, m)
  OBVIOUS
<1>3. y = [i \in 1..m |-> IF a + i - 1 \in DOMAIN sink THEN sink[a + i - 1] ELSE [kind |-> "missing"]]
  BY <1>1, <1>2 DEF SectorsAt
<1>4. ASSUME NEW i \in 1..m
      PROVE  y[i] = x[i]
  <2>1. a + i - 1 \in DOMAIN sink /\ sink[a + i - 1] = x[i]
    BY <1>1 DEF Landed
  <2> QED BY <1>3, <2>1
<1>5. y = [i \in 1..m |-> y[i]]
  BY <1>3
<1>6. y = x
  BY <1>4, <1>5
<1> QED BY <1>2, <1>6

\* The sectors of x have records of S only.
HaveRecords(S, x) ==
  /\ Len(x) \in Nat
  /\ \A s \in 1..Len(x) : x[s].kind = "records" /\ x[s].records \in Seq(S)

\* f has the records of all of these sectors.
Collects(S, x, f) ==
  /\ f \in Seq(S)
  /\ \A s \in 1..Len(x) : \A k \in 1..Len(x[s].records) : \E j \in 1..Len(f) : f[j] = x[s].records[k]

\* The reader collects the records of all sectors of a directory.
LEMMA RecordsCollected ==
  ASSUME NEW S, NEW x, HaveRecords(S, x),
         NEW dir, SectorsAt(dir.lba, dir.len \div SectorSize) = x
  PROVE  Collects(S, x, Records(dir))
<1> SUFFICES ASSUME NEW m \in Nat, Len(x) = m,
                    \A s \in 1..m : x[s].kind = "records" /\ x[s].records \in Seq(S)
             PROVE  Collects(S, x, Records(dir))
  BY DEF HaveRecords
<1> DEFINE F == Seq(S)
           step == [i \in 1..m |-> [a \in F |-> a \o x[i].records]]
           Rec(f) == f = [i \in 0..Len(x) |->
                            IF i = 0 THEN << >>
                            ELSE IF x[i].kind = "records" THEN f[i - 1] \o x[i].records
                            ELSE f[i - 1]]
           found == CHOOSE f : Rec(f)
<1>1. \A i \in 1..m : \A a \in F : a \o x[i].records \in F
  <2> TAKE i \in 1..m
  <2> TAKE a \in F
  <2>1. PICK b \in Seq(S) : b = x[i].records
    OBVIOUS
  <2>2. a \o b \in Seq(S)
    BY Joined
  <2> QED BY <2>1, <2>2
<1>2. << >> \in F
  OBVIOUS
<1>3. Steps(m, F, << >>, step)
  <2> HIDE DEF F
  <2>1. step \in [1..m -> [F -> F]]
    BY <1>1
  <2> HIDE DEF step
  <2> QED BY <1>2, <2>1 DEF Steps
<1>4. PICK f : Takes(m, F, << >>, step, f)
  <2> HIDE DEF F, step
  <2> QED BY <1>3, RecursionExists
<1>5. f \in [0..m -> F] /\ f[0] = << >> /\ \A i \in 1..m : f[i] = step[i][f[i - 1]]
  <2> HIDE DEF F, step
  <2> QED BY <1>4 DEF Takes
<1>6. ASSUME NEW i \in 1..m
      PROVE  f[i] = f[i - 1] \o x[i].records
  <2> HIDE DEF F
  <2>1. f[i - 1] \in F
    BY <1>5
  <2>2. step[i] = [a \in F |-> a \o x[i].records]
    OBVIOUS
  <2> HIDE DEF step
  <2> QED BY <1>5, <2>1, <2>2
<1>7. Rec(f)
  <2> HIDE DEF F
  <2>1. f = [i \in 0..m |-> f[i]]
    BY <1>5
  <2>2. \A i \in 0..m : i # 0 => i \in 1..m
    OBVIOUS
  <2>3. \A i \in 0..m : f[i] = IF i = 0 THEN << >>
                               ELSE IF x[i].kind = "records" THEN f[i - 1] \o x[i].records
                               ELSE f[i - 1]
    BY <1>5, <1>6, <2>2
  <2> QED BY <2>1, <2>3
<1>8. Rec(found)
  <2> HIDE DEF Rec
  <2> QED BY <1>7
<1>9. Records(dir) = found[m]
  BY Zenon DEF Records
<1>10. found[0] = << >> /\ \A i \in 1..m : found[i] = found[i - 1] \o x[i].records
  <2>1. found = [i \in 0..m |-> IF i = 0 THEN << >>
                                ELSE IF x[i].kind = "records" THEN found[i - 1] \o x[i].records
                                ELSE found[i - 1]]
    <3> HIDE DEF found
    <3> QED BY <1>8
  <2> HIDE DEF found
  <2>2. \A i \in 0..m : found[i] = IF i = 0 THEN << >>
                                   ELSE IF x[i].kind = "records" THEN found[i - 1] \o x[i].records
                                   ELSE found[i - 1]
    BY <2>1
  <2>3. found[0] = << >>
    BY <2>2
  <2>4. ASSUME NEW i \in 1..m
        PROVE  found[i] = found[i - 1] \o x[i].records
    <3>1. i \in 0..m /\ i # 0
      OBVIOUS
    <3> QED BY <2>2, <3>1
  <2> QED BY <2>3, <2>4
<1> HIDE DEF found, F, step, Rec
<1>11. \A i \in 0..m : found[i] \in F
  <2>1. found[0] \in F
    BY <1>2, <1>10
  <2>2. ASSUME NEW i \in 1..m, found[i - 1] \in F
        PROVE  found[i] \in F
    BY <1>1, <1>10, <2>2, Zenon
  <2> QED BY <2>1, <2>2, StaysIn
<1>12. ASSUME NEW s \in 1..m, NEW k \in 1..Len(x[s].records)
       PROVE  \E j \in 1..Len(found[m]) : found[m][j] = x[s].records[k]
  <2> DEFINE G == {i \in 0..m : i >= s => \E j \in 1..Len(found[i]) : found[i][j] = x[s].records[k]}
  <2>1. 0 \in G
    OBVIOUS
  <2>2. ASSUME NEW i \in 1..m, i - 1 \in G
        PROVE  i \in G
    <3>1. PICK a \in Seq(S) : a = found[i - 1]
      BY <1>11 DEF F
    <3>2. PICK b \in Seq(S) : b = x[i].records
      OBVIOUS
    <3>3. PICK c : c = a \o b
      OBVIOUS
    <3>4. /\ Len(c) = Len(a) + Len(b)
          /\ \A j \in 1..Len(a) : c[j] = a[j]
          /\ \A j \in 1..Len(b) : c[Len(a) + j] = b[j]
      BY <3>3, Joined
    <3>5. found[i] = c
      BY <1>10, <3>1, <3>2, <3>3
    <3>6. CASE i < s
      BY <3>6
    <3>7. CASE i = s
      <4>1. c[Len(a) + k] = x[s].records[k] /\ Len(a) + k \in 1..Len(c)
        BY <3>2, <3>4, <3>7
      <4> QED BY <3>5, <4>1
    <3>8. CASE i > s
      <4>1. PICK j \in 1..Len(a) : a[j] = x[s].records[k]
        BY <2>2, <3>1, <3>8
      <4>2. c[j] = x[s].records[k] /\ j \in 1..Len(c)
        BY <3>4, <4>1
      <4> QED BY <3>5, <4>2
    <3> QED BY <3>6, <3>7, <3>8
  <2> HIDE DEF G
  <2>3. \A i \in 0..m : i \in G
    BY <2>1, <2>2, InductionTo
  <2>4. m \in G
    BY <2>3
  <2> QED BY <2>4 DEF G
<1>13. found[m] \in Seq(S)
  BY <1>11 DEF F
<1>14. PICK r : r = found[m]
  OBVIOUS
<1>15. Records(dir) = r
  BY <1>9, <1>14
<1>16. r \in Seq(S)
  BY <1>13, <1>14
<1>17. \A s \in 1..m : \A k \in 1..Len(x[s].records) : \E j \in 1..Len(r) : r[j] = x[s].records[k]
  BY <1>12, <1>14
<1> QED BY <1>15, <1>16, <1>17 DEF Collects

\* After a WriteTo, the reader finds in a directory its records and nothing else.
LEMMA DirRead ==
  ASSUME NEW t, NEW n, TreeInv(t, n), Distinct(t), AllLanded(t), NEW d \in Directories(t),
         NEW r, r.lba = Layout(t).lba[d], r.len = Layout(t).len[d]
  PROVE  Records(r) \in Seq(RecordsOf(t, d)) /\ ToSet(Records(r)) = RecordsOf(t, d)
<1>1. PICK x : x = DirectoryExtent(t, Layout(t), d)
  OBVIOUS
<1>2. PICK S : S = RecordsOf(t, d)
  OBVIOUS
<1>3. /\ Len(x) \in Nat /\ Layout(t).len[d] \div SectorSize = Len(x)
      /\ x = [s \in 1..Len(x) |-> x[s]]
      /\ \A s \in 1..Len(x) : x[s].kind = "records" /\ x[s].records \in Seq(S)
      /\ \A e \in S : \E s \in 1..Len(x) : \E k \in 1..Len(x[s].records) : x[s].records[k] = e
  BY <1>1, <1>2, ExtentHas
<1>4. PICK m \in Nat : m = Len(x)
  BY <1>3
<1>5. PICK w : w = DirWrite(t, d)
  OBVIOUS
<1>6. IsWrite(w) /\ w.lba = Layout(t).lba[d] /\ w.sectors = x
  <2>1. IsWrite(w) /\ w.lba = Layout(t).lba[d]
    BY <1>5, DirWriteIs
  <2>2. w.sectors = x
    BY <1>1, <1>5, WriteIs DEF DirWrite
  <2> QED BY <2>1, <2>2
<1>7. Landed(w)
  <2>1. PICK ws : ws = Writes(t)
    OBVIOUS
  <2>2. w \in Elements(ws)
    BY <1>5, <2>1, WritesHave
  <2>3. PICK i \in 1..Len(ws) : ws[i] = w
    BY <2>2 DEF Elements
  <2> QED BY <2>1, <2>3 DEF AllLanded
<1>8. SectorsAt(r.lba, m) = x
  BY <1>3, <1>4, <1>6, <1>7, LandedIsRead
<1>9. SectorsAt(r.lba, r.len \div SectorSize) = x
  BY <1>3, <1>4, <1>8
<1>10. PICK f : f = Records(r)
  OBVIOUS
<1>11. /\ f \in Seq(S)
       /\ \A s \in 1..m : \A k \in 1..Len(x[s].records) :
            \E j \in 1..Len(f) : f[j] = x[s].records[k]
  <2>1. HaveRecords(S, x)
    BY <1>3 DEF HaveRecords
  <2>2. Collects(S, x, Records(r))
    BY <1>9, <2>1, RecordsCollected
  <2> QED BY <1>4, <1>10, <2>2 DEF Collects
<1>12. ToSet(f) \subseteq S
  BY <1>11 DEF ToSet
<1>13. ASSUME NEW e \in S
       PROVE  e \in ToSet(f)
  <2>1. PICK s \in 1..m : \E k \in 1..Len(x[s].records) : x[s].records[k] = e
    BY <1>3, <1>4
  <2>2. PICK j \in 1..Len(f) : f[j] = e
    BY <1>11, <2>1
  <2>3. DOMAIN f = 1..Len(f)
    BY <1>11
  <2> QED BY <2>2, <2>3 DEF ToSet
<1> QED BY <1>2, <1>10, <1>11, <1>12, <1>13

\* The children of a directory are told from "." and "..", and from one another.
LEMMA KidsListed ==
  ASSUME NEW t, NEW n, TreeInv(t, n), Distinct(t), NEW d \in Directories(t)
  PROVE  {r \in RecordsOf(t, d) : Listed(r)} = {KidRecord(t, q) : q \in Children(t, d)}
<1>1. ~Listed(OwnRecord(t, d)) /\ ~Listed(ParentRecord(t, d))
  BY DEF OwnRecord, ParentRecord, Record, Listed
<1>2. ASSUME NEW q \in Children(t, d)
      PROVE  Listed(KidRecord(t, q))
  <2>1. q \in DOMAIN t
    BY DEF Children
  <2>2. PICK id : id = t[q].id
    OBVIOUS
  <2>3. id \in Seq(Chars)
    BY <2>1, <2>2 DEF TreeInv, Nodes
  <2>4. "0x00" \notin Chars /\ "0x01" \notin Chars
    BY DEF Chars, VChars, DChars
  <2>5. id # Self /\ id # Parent
    <3>1. Self \notin Seq(Chars)
      <4>1. PICK s : s = Self
        OBVIOUS
      <4>2. Len(s) = 1 /\ s[1] = "0x00"
        BY <4>1 DEF Self
      <4> QED BY <2>4, <4>1, <4>2
    <3>2. Parent \notin Seq(Chars)
      <4>1. PICK s : s = Parent
        OBVIOUS
      <4>2. Len(s) = 1 /\ s[1] = "0x01"
        BY <4>1 DEF Parent
      <4> QED BY <2>4, <4>1, <4>2
    <3> QED BY <2>3, <3>1, <3>2
  <2> QED BY <2>2, <2>5 DEF KidRecord, Record, Listed
<1> QED BY <1>1, <1>2 DEF RecordsOf

\* The identifiers on the way to a node are those on the way to its directory and its own.
LEMMA IdPathOfChild ==
  ASSUME NEW t, NEW n, TreeInv(t, n), NEW d \in DOMAIN t, NEW q \in Children(t, d)
  PROVE  IdPath(t, q) = Append(IdPath(t, d), t[q].id)
<1>1. q \in DOMAIN t /\ q # << >> /\ Front(q) = d
  BY DEF Children
<1>2. PICK S : S = Part
  OBVIOUS
<1>3. q \in Seq(S) /\ d \in Seq(S)
  BY <1>1, <1>2 DEF TreeInv
<1>4. Len(q) \in Nat /\ Len(q) # 0 /\ Len(d) = Len(q) - 1
  BY <1>1, <1>3, LastTyped
<1>5. PICK m \in Nat : m = Len(d) /\ Len(q) = m + 1
  BY <1>4
<1>6. \A k \in 1..m : q[k] = d[k]
  BY <1>1, <1>3, <1>5 DEF Front
<1>7. PICK a : a = IdPath(t, q)
  OBVIOUS
<1>8. PICK b : b = IdPath(t, d)
  OBVIOUS
<1>9. PICK C : C = Seq(Chars)
  OBVIOUS
<1>10. /\ a \in Seq(C) /\ Len(a) = m + 1 /\ \A k \in 1..(m + 1) : a[k] = t[SubSeq(q, 1, k)].id
  BY <1>1, <1>5, <1>7, <1>9, IdPathTyped
<1>11. /\ b \in Seq(C) /\ Len(b) = m /\ \A k \in 1..m : b[k] = t[SubSeq(d, 1, k)].id
  BY <1>5, <1>8, <1>9, IdPathTyped
<1>12. ASSUME NEW k \in 1..m
       PROVE  a[k] = b[k]
  <2>1. SubSeq(q, 1, k) = SubSeq(d, 1, k)
    <3>1. k \in Nat /\ k <= Len(q) /\ k <= Len(d) /\ \A j \in 1..k : q[j] = d[j]
      BY <1>5, <1>6
    <3> QED BY <1>3, <3>1, PrefixesAgree
  <2>2. k \in 1..(m + 1)
    OBVIOUS
  <2>3. a[k] = t[SubSeq(q, 1, k)].id
    BY <1>10, <2>2, Zenon
  <2>4. b[k] = t[SubSeq(d, 1, k)].id
    BY <1>11, Zenon
  <2> QED BY <2>1, <2>3, <2>4, Zenon
<1>13. SubSeq(q, 1, m + 1) = q
  BY <1>3, <1>5
<1>14. PICK x \in C : x = t[q].id
  BY <1>1, <1>9 DEF TreeInv, Nodes
<1>15. a[m + 1] = x
  <2>1. m + 1 \in 1..(m + 1)
    OBVIOUS
  <2>2. a[m + 1] = t[SubSeq(q, 1, m + 1)].id
    BY <1>10, <2>1, Zenon
  <2> QED BY <1>13, <1>14, <2>2, Zenon
<1>16. PICK c : c = Append(b, x)
  OBVIOUS
<1>17. c \in Seq(C) /\ Len(c) = m + 1 /\ c[m + 1] = x /\ \A k \in 1..m : c[k] = b[k]
  BY <1>11, <1>14, <1>16
<1>18. \A k \in 1..Len(a) : a[k] = c[k]
  <2> TAKE k \in 1..Len(a)
  <2>1. CASE k = m + 1
    BY <1>15, <1>17, <2>1
  <2>2. CASE k # m + 1
    <3>1. k \in 1..m
      BY <1>10, <2>2
    <3> QED BY <1>12, <1>17, <3>1
  <2> QED BY <2>1, <2>2
<1>19. a = c
  BY <1>10, <1>17, <1>18, SameElements
<1> QED BY <1>7, <1>8, <1>14, <1>16, <1>19

\* The record of a node in its directory, or in the volume descriptor.
RecordAt(t, p) == IF p = << >> THEN OwnRecord(t, p) ELSE KidRecord(t, p)

\* What the reader knows of a node: the identifiers on the way to it, and its record.
EntryOf(t, p) == [path |-> IdPath(t, p), rec |-> RecordAt(t, p)]

\* What the reader knows of the nodes no further than i from the root.
UpTo(t, i) == {EntryOf(t, p) : p \in {q \in DOMAIN t : Len(q) <= i}}

\* What the reader finds in the directory of an entry.
Found(e) ==
  {[path |-> Append(e.path, r.id), rec |-> r] : r \in {x \in ToSet(Records(e.rec)) : Listed(x)}}

\* The record of a node is the place and the kind of the node.
LEMMA RecordAtIs ==
  ASSUME NEW t, NEW n, TreeInv(t, n), NEW p \in DOMAIN t
  PROVE  /\ RecordAt(t, p).isDir = t[p].isDir
         /\ RecordAt(t, p).lba = Layout(t).lba[p] /\ RecordAt(t, p).len = Layout(t).len[p]
<1>1. t[p].isDir \in BOOLEAN /\ (p = << >> => t[p].isDir = TRUE)
  BY DEF TreeInv, Nodes
<1>2. CASE p = << >>
  BY <1>1, <1>2 DEF RecordAt, OwnRecord, Record
<1>3. CASE p # << >>
  BY <1>3 DEF RecordAt, KidRecord, Record
<1> QED BY <1>2, <1>3

\* In a directory the reader finds its children.
LEMMA ChildrenFound ==
  ASSUME NEW t, NEW n, TreeInv(t, n), Distinct(t), AllLanded(t), NEW d \in Directories(t)
  PROVE  Found(EntryOf(t, d)) = {EntryOf(t, q) : q \in Children(t, d)}
<1>1. PICK r : r = RecordAt(t, d)
  OBVIOUS
<1>2. d \in DOMAIN t
  BY DEF Directories
<1>3. r.lba = Layout(t).lba[d] /\ r.len = Layout(t).len[d]
  BY <1>1, <1>2, RecordAtIs
<1>4. ToSet(Records(r)) = RecordsOf(t, d)
  BY <1>3, DirRead
<1>5. {x \in ToSet(Records(r)) : Listed(x)} = {KidRecord(t, q) : q \in Children(t, d)}
  BY <1>4, KidsListed
<1>6. PICK a : a = IdPath(t, d)
  OBVIOUS
<1>7. EntryOf(t, d).path = a /\ EntryOf(t, d).rec = r
  BY <1>1, <1>6 DEF EntryOf
<1>8. Found(EntryOf(t, d)) = {[path |-> Append(a, x.id), rec |-> x] : x \in {KidRecord(t, q) : q \in Children(t, d)}}
  BY <1>5, <1>7 DEF Found
<1>9. ASSUME NEW q \in Children(t, d)
      PROVE  [path |-> Append(a, KidRecord(t, q).id), rec |-> KidRecord(t, q)] = EntryOf(t, q)
  <2>1. KidRecord(t, q).id = t[q].id
    BY DEF KidRecord, Record
  <2>2. IdPath(t, q) = Append(a, t[q].id)
    BY <1>2, <1>6, IdPathOfChild
  <2>3. RecordAt(t, q) = KidRecord(t, q)
    BY DEF RecordAt, Children
  <2> QED BY <2>1, <2>2, <2>3 DEF EntryOf
<1> QED BY <1>8, <1>9

\* One level more of directories is one level more of nodes.
LEMMA OneLevelDown ==
  ASSUME NEW t, NEW n, TreeInv(t, n), Distinct(t), AllLanded(t), NEW i \in Nat
  PROVE  UpTo(t, i) \cup UNION {Found(e) : e \in {x \in UpTo(t, i) : x.rec.isDir}} = UpTo(t, i + 1)
<1>1. \A p \in DOMAIN t : Len(p) \in Nat /\ (EntryOf(t, p).rec.isDir <=> t[p].isDir)
  <2> TAKE p \in DOMAIN t
  <2>1. Len(p) \in Nat
    BY IdPathTyped
  <2>2. EntryOf(t, p).rec = RecordAt(t, p)
    BY DEF EntryOf
  <2> QED BY <2>1, <2>2, RecordAtIs
<1>2. PICK N : N = UNION {Found(e) : e \in {x \in UpTo(t, i) : x.rec.isDir}}
  OBVIOUS
<1>3. ASSUME NEW p \in DOMAIN t, Len(p) <= i
      PROVE  EntryOf(t, p) \in UpTo(t, i + 1)
  <2>1. Len(p) <= i + 1
    BY <1>1, <1>3
  <2> QED BY <2>1 DEF UpTo
<1>4. ASSUME NEW p \in DOMAIN t, Len(p) <= i, t[p].isDir, NEW x \in Found(EntryOf(t, p))
      PROVE  x \in UpTo(t, i + 1)
  <2>1. p \in Directories(t)
    BY <1>4 DEF Directories
  <2>2. PICK q \in Children(t, p) : x = EntryOf(t, q)
    BY <2>1, ChildrenFound
  <2>3. q \in DOMAIN t /\ q # << >> /\ Front(q) = p /\ q \in Seq(Part)
    BY DEF Children, TreeInv
  <2>4. Len(p) = Len(q) - 1 /\ Len(q) \in Nat
    BY <2>3, LastTyped
  <2>5. Len(q) <= i + 1
    BY <1>4, <2>4
  <2> QED BY <2>2, <2>3, <2>5 DEF UpTo
<1>5. ASSUME NEW q \in DOMAIN t, Len(q) = i + 1
      PROVE  EntryOf(t, q) \in N
  <2>1. q \in Seq(Part)
    BY DEF TreeInv
  <2>2. q # << >>
    <3>1. PICK S : S = Part
      OBVIOUS
    <3>2. q \in Seq(S) /\ Len(q) # 0
      BY <1>5, <2>1, <3>1
    <3> QED BY <3>2, EmptySequence
  <2>3. PICK p : p = Front(q)
    OBVIOUS
  <2>4. p \in DOMAIN t /\ t[p].isDir /\ Len(p) = i
    <3>1. Len(p) = Len(q) - 1
      BY <2>1, <2>2, <2>3, LastTyped
    <3> QED BY <1>5, <2>2, <2>3, <3>1 DEF TreeInv
  <2>5. q \in Children(t, p) /\ p \in Directories(t)
    BY <2>2, <2>3, <2>4 DEF Children, Directories
  <2>6. EntryOf(t, q) \in Found(EntryOf(t, p))
    BY <2>5, ChildrenFound
  <2>7. EntryOf(t, p) \in {x \in UpTo(t, i) : x.rec.isDir}
    BY <1>1, <2>4 DEF UpTo
  <2> QED BY <1>2, <2>6, <2>7
<1>6. UpTo(t, i) \subseteq UpTo(t, i + 1)
  BY <1>3 DEF UpTo
<1>7. N \subseteq UpTo(t, i + 1)
  <2> SUFFICES ASSUME NEW e \in UpTo(t, i), e.rec.isDir, NEW x \in Found(e)
               PROVE  x \in UpTo(t, i + 1)
    BY <1>2
  <2>1. PICK p \in DOMAIN t : e = EntryOf(t, p) /\ Len(p) <= i
    BY DEF UpTo
  <2> QED BY <1>1, <1>4, <2>1
<1>8. ASSUME NEW x \in UpTo(t, i + 1)
      PROVE  x \in UpTo(t, i) \cup N
  <2>1. PICK q \in DOMAIN t : x = EntryOf(t, q) /\ Len(q) <= i + 1
    BY DEF UpTo
  <2>2. Len(q) = i + 1 \/ Len(q) <= i
    BY <1>1, <2>1
  <2>3. CASE Len(q) = i + 1
    BY <1>5, <2>1, <2>3
  <2>4. CASE Len(q) <= i
    BY <2>1, <2>4 DEF UpTo
  <2> QED BY <2>2, <2>3, <2>4
<1> QED BY <1>2, <1>6, <1>7, <1>8

\* The volume descriptor is where the reader looks for it.
LEMMA DescriptorRead ==
  ASSUME NEW t, NEW n, TreeInv(t, n), Distinct(t), AllLanded(t)
  PROVE  sink[SystemArea] = PrimaryVolumeDescriptor(t, Layout(t))
<1>1. PICK v : v = PrimaryVolumeDescriptor(t, Layout(t))
  OBVIOUS
<1>2. PICK w : w = WriteAt(SystemArea, <<v>>)
  OBVIOUS
<1>3. PICK ws : ws = Writes(t)
  OBVIOUS
<1>4. w \in Elements(ws)
  BY <1>1, <1>2, <1>3, WritesHave
<1>5. PICK i \in 1..Len(ws) : ws[i] = w
  BY <1>4 DEF Elements
<1>6. Landed(w)
  BY <1>3, <1>5 DEF AllLanded
<1>7. PICK x : x = <<v>>
  OBVIOUS
<1>8. w.lba = SystemArea /\ w.sectors = x
  BY <1>2, <1>7, WriteIs
<1>9. Len(x) = 1 /\ x[1] = v
  BY <1>7
<1>10. sink[SystemArea + 1 - 1] = v
  BY <1>6, <1>8, <1>9 DEF Landed
<1>11. SystemArea + 1 - 1 = SystemArea
  BY BuilderAssumption
<1> QED BY <1>1, <1>10, <1>11

\* The reader reaches the nodes of the tree, and nothing else.
LEMMA ReachableIs ==
  ASSUME NEW t, t = tree, NEW n, TreeInv(t, n), Distinct(t), AllLanded(t)
  PROVE  Reachable = {EntryOf(t, p) : p \in DOMAIN t}
<1>1. PICK m \in Nat : Depth = m /\ \A p \in DOMAIN t : Len(p) \in Nat /\ Len(p) <= m
  <2>1. PICK P : P = {Len(p) : p \in DOMAIN t}
    OBVIOUS
  <2>2. \A p \in DOMAIN t : Len(p) \in Nat
    BY IdPathTyped
  <2>3. P \in SUBSET Nat /\ P # {}
    BY <2>1, <2>2 DEF TreeInv
  <2>4. PICK v : v = [p \in DOMAIN t |-> Len(p)]
    OBVIOUS
  <2>5. v \in [DOMAIN t -> Nat] /\ \A p \in DOMAIN t : v[p] = Len(p)
    BY <2>2, <2>4
  <2>6. PICK b \in Nat : \A p \in DOMAIN t : v[p] <= b
    BY <2>5, FiniteBound DEF TreeInv
  <2>7. \A k \in P : k <= b
    BY <2>1, <2>5, <2>6
  <2>8. PICK m \in P : \A k \in P : k <= m
    BY <2>3, <2>7, GreatestNatural
  <2>9. Depth = CHOOSE k \in P : \A p \in DOMAIN t : Len(p) <= k
    BY <2>1 DEF Depth
  <2>10. \A p \in DOMAIN t : Len(p) <= m
    BY <2>1, <2>8
  <2>11. Depth \in P /\ \A p \in DOMAIN t : Len(p) <= Depth
    BY <2>8, <2>9, <2>10
  <2> QED BY <2>2, <2>3, <2>11
<1>2. PICK M \in Nat : M = m + 1
  OBVIOUS
<1> DEFINE Rec(f) == f = [i \in 0..M |->
                            IF i = 0 THEN {[path |-> << >>, rec |-> RootRecord]}
                            ELSE f[i - 1] \cup UNION {Found(e) : e \in {x \in f[i - 1] : x.rec.isDir}}]
           seen == CHOOSE f : Rec(f)
           h == [i \in 0..M |-> UpTo(t, i)]
<1>3. Reachable = seen[M]
  BY <1>1, <1>2, Zenon DEF Reachable, Found
<1>4. UpTo(t, 0) = {[path |-> << >>, rec |-> RootRecord]}
  <2>1. RootRecord = OwnRecord(t, << >>)
    <3>1. PICK l : l = Layout(t)
      OBVIOUS
    <3>2. PrimaryVolumeDescriptor(t, l).root = Record(Self, TRUE, l, << >>)
      BY DEF PrimaryVolumeDescriptor
    <3> QED BY <3>1, <3>2, DescriptorRead DEF RootRecord, OwnRecord
  <2>2. << >> \in DOMAIN t /\ Len(<< >>) = 0
    BY DEF TreeInv
  <2>3. ASSUME NEW p \in DOMAIN t, Len(p) <= 0
        PROVE  p = << >>
    <3>1. p \in Seq(Part)
      BY DEF TreeInv
    <3>2. PICK S : S = Part
      OBVIOUS
    <3>3. p \in Seq(S) /\ Len(p) = 0
      BY <1>1, <2>3, <3>1, <3>2
    <3> QED BY <3>3, EmptySequence
  <2>4. IdPath(t, << >>) = << >>
    <3>1. PICK a : a = IdPath(t, << >>)
      OBVIOUS
    <3>2. PICK C : C = Seq(Chars)
      OBVIOUS
    <3>3. a \in Seq(C) /\ Len(a) = 0
      BY <2>2, <3>1, <3>2, IdPathTyped
    <3> QED BY <3>1, <3>3, EmptySequence
  <2>5. EntryOf(t, << >>) = [path |-> << >>, rec |-> RootRecord]
    BY <2>1, <2>4 DEF EntryOf, RecordAt
  <2>6. \A p \in DOMAIN t : Len(p) <= 0 <=> p = << >>
    BY <2>2, <2>3
  <2> QED BY <2>2, <2>5, <2>6 DEF UpTo
<1>5. Rec(h)
  <2>1. h[0] = {[path |-> << >>, rec |-> RootRecord]}
    BY <1>4
  <2>2. ASSUME NEW i \in 1..M
        PROVE  h[i] = h[i - 1] \cup UNION {Found(e) : e \in {x \in h[i - 1] : x.rec.isDir}}
    <3>1. PICK k \in Nat : k = i - 1 /\ i = k + 1
      OBVIOUS
    <3>2. h[i] = UpTo(t, k + 1) /\ h[i - 1] = UpTo(t, k)
      BY <3>1
    <3> HIDE DEF h
    <3> QED BY <3>2, OneLevelDown
  <2>3. h = [i \in 0..M |-> h[i]]
    OBVIOUS
  <2> HIDE DEF h
  <2>4. \A i \in 0..M : i # 0 => i \in 1..M
    OBVIOUS
  <2>5. \A i \in 0..M :
          h[i] = IF i = 0 THEN {[path |-> << >>, rec |-> RootRecord]}
                 ELSE h[i - 1] \cup UNION {Found(e) : e \in {x \in h[i - 1] : x.rec.isDir}}
    BY <2>1, <2>2, <2>4
  <2> QED BY <2>3, <2>5
<1>6. Rec(seen)
  <2> HIDE DEF Rec
  <2> QED BY <1>5
<1>7. \A i \in 0..M : seen[i] = h[i]
  <2>1. seen[0] = h[0] /\ \A i \in 1..M : seen[i - 1] = h[i - 1] => seen[i] = h[i]
    <3>1. ASSUME NEW f, Rec(f)
          PROVE  /\ f[0] = {[path |-> << >>, rec |-> RootRecord]}
                 /\ \A i \in 1..M :
                      f[i] = f[i - 1] \cup UNION {Found(e) : e \in {x \in f[i - 1] : x.rec.isDir}}
      <4>1. \A i \in 0..M :
              f[i] = IF i = 0 THEN {[path |-> << >>, rec |-> RootRecord]}
                     ELSE f[i - 1] \cup UNION {Found(e) : e \in {x \in f[i - 1] : x.rec.isDir}}
        BY <3>1
      <4>2. \A i \in 1..M : i \in 0..M /\ i # 0
        OBVIOUS
      <4>3. 0 \in 0..M
        OBVIOUS
      <4> QED BY <4>1, <4>2, <4>3
    <3> HIDE DEF Rec, seen, h
    <3>2. /\ seen[0] = {[path |-> << >>, rec |-> RootRecord]}
          /\ \A i \in 1..M :
               seen[i] = seen[i - 1] \cup UNION {Found(e) : e \in {x \in seen[i - 1] : x.rec.isDir}}
      BY <1>6, <3>1, Zenon
    <3>3. /\ h[0] = {[path |-> << >>, rec |-> RootRecord]}
          /\ \A i \in 1..M :
               h[i] = h[i - 1] \cup UNION {Found(e) : e \in {x \in h[i - 1] : x.rec.isDir}}
      BY <1>5, <3>1, Zenon
    <3> QED BY <3>2, <3>3, Zenon
  <2> HIDE DEF seen, h
  <2> QED BY <2>1, StaysEqual
<1>8. Reachable = UpTo(t, M)
  BY <1>2, <1>3, <1>7
<1>9. UpTo(t, M) = {EntryOf(t, p) : p \in DOMAIN t}
  <2>1. \A p \in DOMAIN t : Len(p) <= M
    BY <1>1, <1>2
  <2> QED BY <2>1 DEF UpTo
<1> QED BY <1>8, <1>9

\* The reader reads of a file what the caller gave for it.
LEMMA FileRead ==
  ASSUME NEW t, NEW n, TreeInv(t, n), Distinct(t), AllLanded(t), SizesFit(t),
         NEW p \in DOMAIN t \ Directories(t),
         NEW r, r.lba = Layout(t).lba[p], r.len = Layout(t).len[p]
  PROVE  SectorsAt(r.lba, (r.len + SectorSize - 1) \div SectorSize) = FileData(t[p].data)
<1>1. p \in DOMAIN t /\ ~t[p].isDir
  BY DEF Directories
<1>2. PICK k \in Nat : t[p].data.size = k
  BY <1>1, LengthsTyped
<1>3. SectorSize \in Nat \ {0}
  BY BuilderAssumption
<1>4. r.len = k
  <2>1. k + SectorSize <= Word
    BY <1>1, <1>2 DEF SizesFit
  <2>2. k % Word = k
    BY <2>1, SectorsOf
  <2> QED BY <1>1, <1>2, <2>2, Placements DEF LenOf
<1>5. PICK m \in Nat : m = (k + SectorSize - 1) \div SectorSize
  <2>1. PICK x \in Nat : x = k + SectorSize - 1
    BY <1>3
  <2> QED BY <1>3, <2>1, Division
<1>6. PICK x : x = FileData(t[p].data)
  OBVIOUS
<1>7. DOMAIN x = 1..m /\ x = [s \in 1..m |-> x[s]]
  BY <1>2, <1>5, <1>6 DEF FileData
<1>8. Len(x) = m
  BY <1>7, LengthOf
<1>9. CASE k = 0
  <2>1. m = 0
    <3>1. PICK b \in Nat \ {0} : b = SectorSize
      BY <1>3
    <3>2. PICK y \in Nat : y = 0 + b - 1 /\ y < b
      OBVIOUS
    <3>3. PICK q \in Nat : q = y \div b /\ q * b <= y
      BY <3>2, Division
    <3>4. q * b < 0 * b + b
      BY <3>2, <3>3
    <3>5. q <= 0
      BY <3>4, Multiples
    <3> QED BY <1>5, <1>9, <3>1, <3>2, <3>3, <3>5
  <2>2. PICK y : y = SectorsAt(r.lba, m)
    OBVIOUS
  <2>3. DOMAIN y = 1..m /\ y = [s \in 1..m |-> y[s]]
    BY <2>2 DEF SectorsAt
  <2>4. \A s \in 1..m : y[s] = x[s]
    BY <2>1
  <2>5. y = x
    BY <1>7, <2>3, <2>4
  <2> QED BY <1>4, <1>5, <1>6, <2>2, <2>5
<1>10. CASE k # 0
  <2>1. PICK w : w = FileWrite(t, p)
    OBVIOUS
  <2>2. IsWrite(w) /\ w.lba = Layout(t).lba[p]
    BY <2>1, FileWriteIs
  <2>3. w.sectors = x
    BY <1>6, <2>1, WriteIs DEF FileWrite
  <2>4. Landed(w)
    <3>1. PICK ws : ws = Writes(t)
      OBVIOUS
    <3>2. w \in Elements(ws)
      BY <1>2, <1>10, <2>1, <3>1, WritesHave
    <3>3. PICK i \in 1..Len(ws) : ws[i] = w
      BY <3>2 DEF Elements
    <3> QED BY <3>1, <3>3 DEF AllLanded
  <2>5. SectorsAt(r.lba, m) = x
    BY <1>7, <1>8, <2>2, <2>3, <2>4, LandedIsRead
  <2> QED BY <1>4, <1>5, <1>6, <2>5
<1> QED BY <1>9, <1>10

(* create.go:49-50, the image reads back: unless a size is too large for   *)
(* the uint32 arithmetic, what the reader finds after a WriteTo that       *)
(* returned nil are the nodes of the tree, each under its identifiers and  *)
(* with its data, for every tree, whatever was written there before.       *)
THEOREM ImageReadsBack == Spec => [](SizesFit(tree) => ReadsBack)
<1>1. IInv /\ ImageInv => (SizesFit(tree) => ReadsBack)
  <2> SUFFICES ASSUME IInv, ImageInv, SizesFit(tree), result = "ok"
               PROVE  {[path |-> e.path, isDir |-> e.rec.isDir,
                        data |-> IF e.rec.isDir THEN << >>
                                 ELSE SectorsAt(e.rec.lba, (e.rec.len + SectorSize - 1) \div SectorSize)] :
                          e \in Reachable}
                      = {[path |-> IdPath(tree, p), isDir |-> tree[p].isDir,
                          data |-> IF tree[p].isDir THEN << >> ELSE FileData(tree[p].data)] :
                          p \in DOMAIN tree}
    BY DEF ReadsBack
  <2>1. PICK t : t = tree
    OBVIOUS
  <2>2. PICK n : n = adds
    OBVIOUS
  <2>3. TreeInv(t, n) /\ Distinct(t) /\ AllLanded(t) /\ SizesFit(t)
    BY <2>1, <2>2 DEF IInv, ImageInv
  <2> DEFINE Read(e) == [path |-> e.path, isDir |-> e.rec.isDir,
                         data |-> IF e.rec.isDir THEN << >>
                                  ELSE SectorsAt(e.rec.lba, (e.rec.len + SectorSize - 1) \div SectorSize)]
             Node(p) == [path |-> IdPath(t, p), isDir |-> t[p].isDir,
                         data |-> IF t[p].isDir THEN << >> ELSE FileData(t[p].data)]
  <2>4. ASSUME NEW p \in DOMAIN t
        PROVE  Read(EntryOf(t, p)) = Node(p)
    <3>1. PICK r : r = RecordAt(t, p)
      OBVIOUS
    <3>2. r.isDir = t[p].isDir /\ r.lba = Layout(t).lba[p] /\ r.len = Layout(t).len[p]
      BY <2>3, <3>1, RecordAtIs
    <3>3. EntryOf(t, p).path = IdPath(t, p) /\ EntryOf(t, p).rec = r
      BY <3>1 DEF EntryOf
    <3>4. ~t[p].isDir => SectorsAt(r.lba, (r.len + SectorSize - 1) \div SectorSize) = FileData(t[p].data)
      BY <2>3, <3>2, FileRead DEF Directories
    <3> QED BY <3>2, <3>3, <3>4, Zenon
  <2>5. Reachable = {EntryOf(t, p) : p \in DOMAIN t}
    BY <2>1, <2>3, ReachableIs
  <2>6. {Read(e) : e \in {EntryOf(t, p) : p \in DOMAIN t}} = {Node(p) : p \in DOMAIN t}
    <3> HIDE DEF Read, Node
    <3> QED BY <2>4
  <2> QED BY <2>1, <2>5, <2>6, Zenon
<1> QED BY <1>1, Invariance, ImageInvariance, PTL

---------------------------------------------------------------------------
(* The path tables *)

\* p comes before q where directories are written breadth first.
Earlier(t, p, q) == Len(p) < Len(q) \/ (Len(p) = Len(q) /\ IdPathBelow(t, p, q))

\* The number of a directory in a path table.
DirIndex(t, d) == CHOOSE i \in 1..Len(OrderedDirs(t)) : OrderedDirs(t)[i] = d

\* The entries of a path table.
TableOf(t) ==
  [i \in 1..Len(OrderedDirs(t)) |->
     [id |-> PathTableIdent(t, OrderedDirs(t)[i]), lba |-> Layout(t).lba[OrderedDirs(t)[i]],
      parent |-> DirIndex(t, ParentOf(OrderedDirs(t)[i]))]]

\* Directories are numbered from the root, breadth first.
LEMMA DirsNumbered ==
  ASSUME NEW t, NEW n, TreeInv(t, n), Distinct(t), NEW dirs, dirs = OrderedDirs(t)
  PROVE  /\ Len(dirs) \in Nat /\ 1 \in 1..Len(dirs) /\ dirs[1] = << >>
         /\ \A i \in 1..Len(dirs) : dirs[i] \in Directories(t) /\ (i > 1 => dirs[i] # << >>)
         /\ \A d \in Directories(t) :
              DirIndex(t, d) \in 1..Len(dirs) /\ dirs[DirIndex(t, d)] = d
         /\ \A i, j \in 1..Len(dirs) : i < j => Earlier(t, dirs[i], dirs[j])
         /\ \A i, j \in 1..Len(dirs) : Earlier(t, dirs[i], dirs[j]) => i < j
<1>1. PICK S : S = Directories(t)
  OBVIOUS
<1>2. PICK B : B = [x \in Directories(t) |-> DirsBefore(t, x)]
  OBVIOUS
<1>3. Enumerates(S, B, dirs)
  BY <1>1, <1>2, DirsOrdered
<1>4. /\ dirs \in Seq(S) /\ Elements(dirs) = S
      /\ \A i, j \in 1..Len(dirs) : i < j => dirs[i] \in B[dirs[j]] /\ dirs[i] # dirs[j]
  BY <1>3 DEF Enumerates
<1>5. PICK m \in Nat : m = Len(dirs)
  BY <1>4
<1>6. \A i \in 1..m : dirs[i] \in S
  BY <1>4, <1>5
<1>7. \A x \in S : x \in DOMAIN t /\ Len(x) \in Nat
  BY <1>1, IdPathTyped DEF Directories
<1>8. ASSUME NEW i \in 1..m, NEW j \in 1..m, i < j
      PROVE  Earlier(t, dirs[i], dirs[j])
  <2>1. dirs[i] \in B[dirs[j]] /\ dirs[j] \in Directories(t)
    BY <1>1, <1>4, <1>5, <1>6, <1>8
  <2>2. dirs[i] \in DirsBefore(t, dirs[j])
    BY <1>2, <2>1
  <2> QED BY <2>2 DEF DirsBefore, Earlier
<1>9. \A x, y \in S : ~(Earlier(t, x, y) /\ Earlier(t, y, x))
  <2> SUFFICES ASSUME NEW x \in S, NEW y \in S, Earlier(t, x, y), Earlier(t, y, x)
               PROVE  FALSE
    OBVIOUS
  <2>1. Len(x) = Len(y) /\ IdPathBelow(t, x, y) /\ IdPathBelow(t, y, x)
    BY <1>7 DEF Earlier
  <2>2. IdPathBelow(t, x, x)
    BY <1>7, <2>1, IdPathTransitive
  <2> QED BY <1>7, <2>2, IdPathIrreflexive
<1>10. ASSUME NEW i \in 1..m, NEW j \in 1..m, Earlier(t, dirs[i], dirs[j])
       PROVE  i < j
  <2>1. CASE i = j
    BY <1>6, <1>9, <1>10, <2>1
  <2>2. CASE j < i
    BY <1>6, <1>8, <1>9, <1>10, <2>2
  <2> QED BY <2>1, <2>2
<1>11. ASSUME NEW d \in S
       PROVE  DirIndex(t, d) \in 1..m /\ dirs[DirIndex(t, d)] = d
  <2>1. \E i \in 1..m : dirs[i] = d
    BY <1>4, <1>5 DEF Elements
  <2>2. DirIndex(t, d) = CHOOSE i \in 1..m : dirs[i] = d
    BY <1>5, Zenon DEF DirIndex
  <2> QED BY <2>1, <2>2
<1>12. << >> \in S
  BY <1>1 DEF TreeInv, Directories
<1>13. ASSUME NEW i \in 1..m, dirs[i] = << >>
       PROVE  i = 1
  <2>1. CASE 1 < i
    <3>1. Earlier(t, dirs[1], << >>) /\ dirs[1] \in S /\ dirs[1] # dirs[i]
      BY <1>4, <1>5, <1>6, <1>8, <1>13, <2>1
    <3>2. PICK p : p = dirs[1]
      OBVIOUS
    <3>3. Len(p) <= 0 /\ Len(p) \in Nat
      BY <1>7, <3>1, <3>2 DEF Earlier
    <3>4. PICK C : C = Part
      OBVIOUS
    <3>5. p \in Seq(C) /\ Len(p) = 0
      BY <1>7, <3>1, <3>2, <3>3, <3>4 DEF TreeInv
    <3>6. p = << >>
      BY <3>5, EmptySequence
    <3> QED BY <1>13, <3>1, <3>2, <3>6
  <2> QED BY <2>1
<1>14. DirIndex(t, << >>) = 1 /\ 1 \in 1..m /\ dirs[1] = << >>
  BY <1>11, <1>12, <1>13
<1>15. \A i \in 1..m : i > 1 => dirs[i] # << >>
  BY <1>13
<1> QED BY <1>1, <1>5, <1>6, <1>8, <1>10, <1>11, <1>14, <1>15

\* The parent of a directory.
LEMMA ParentIs ==
  ASSUME NEW t, NEW n, TreeInv(t, n), NEW d \in Directories(t)
  PROVE  /\ ParentOf(d) \in Directories(t)
         /\ d # << >> => Len(ParentOf(d)) = Len(d) - 1 /\ Len(d) \in Nat /\ d \in Children(t, ParentOf(d))
<1>1. d \in DOMAIN t /\ t[d].isDir /\ d \in Seq(Part)
  BY DEF Directories, TreeInv
<1>2. CASE d = << >>
  BY <1>2 DEF ParentOf
<1>3. CASE d # << >>
  <2>1. ParentOf(d) = Front(d)
    BY <1>3 DEF ParentOf
  <2>2. Front(d) \in DOMAIN t /\ t[Front(d)].isDir
    BY <1>1, <1>3 DEF TreeInv
  <2>3. Len(Front(d)) = Len(d) - 1 /\ Len(d) \in Nat
    BY <1>1, <1>3, LastTyped
  <2> QED BY <1>1, <1>3, <2>1, <2>2, <2>3 DEF Directories, Children
<1> QED BY <1>2, <1>3

\* Nodes on the same level with the same identifiers are the same.
LEMMA IdPathTells ==
  ASSUME NEW t, NEW n, TreeInv(t, n), Distinct(t), NEW p \in DOMAIN t, NEW q \in DOMAIN t,
         Len(p) = Len(q), \A k \in 1..Len(p) : IdPath(t, p)[k] = IdPath(t, q)[k]
  PROVE  p = q
<1> SUFFICES ASSUME p # q
             PROVE  FALSE
  OBVIOUS
<1>1. PICK m \in Nat : m = Len(p) /\ m = Len(q)
  BY IdPathTyped
<1>2. \A k \in 1..m : IdPath(t, p)[k] = IdPath(t, q)[k] /\ IdPath(t, p)[k] \in Seq(Chars)
  <2>1. PICK a : a = IdPath(t, p)
    OBVIOUS
  <2>2. PICK C : C = Seq(Chars)
    OBVIOUS
  <2>3. a \in Seq(C) /\ Len(a) = m
    BY <1>1, <2>1, <2>2, IdPathTyped
  <2>4. \A k \in 1..m : a[k] \in C
    BY <2>3
  <2> QED BY <1>1, <2>1, <2>2, <2>4
<1>3. IdPathBelow(t, p, q) \/ IdPathBelow(t, q, p)
  BY <1>1, IdPathTotal
<1>4. ~IdPathBelow(t, p, q)
  <2> SUFFICES ASSUME IdPathBelow(t, p, q)
               PROVE  FALSE
    OBVIOUS
  <2>1. PICK k \in 1..m : Below(IdPath(t, p)[k], IdPath(t, q)[k])
    BY <1>1, IdPathBelowIs
  <2> QED BY <1>2, <2>1, BelowIrreflexive
<1>5. ~IdPathBelow(t, q, p)
  <2> SUFFICES ASSUME IdPathBelow(t, q, p)
               PROVE  FALSE
    OBVIOUS
  <2>1. PICK k \in 1..m : Below(IdPath(t, q)[k], IdPath(t, p)[k])
    BY <1>1, IdPathBelowIs
  <2> QED BY <1>2, <2>1, BelowIrreflexive
<1> QED BY <1>3, <1>4, <1>5

\* The identifiers on the way to a child are those on the way to its parent, then its own.
LEMMA IdPathExtends ==
  ASSUME NEW t, NEW n, TreeInv(t, n), NEW d \in DOMAIN t, NEW q \in Children(t, d),
         NEW l \in Nat, l = Len(d)
  PROVE  /\ \A j \in 1..l : IdPath(t, q)[j] = IdPath(t, d)[j]
         /\ IdPath(t, q)[l + 1] = t[q].id
<1>1. PICK a : a = IdPath(t, d)
  OBVIOUS
<1>2. PICK C : C = Seq(Chars)
  OBVIOUS
<1>3. a \in Seq(C) /\ Len(a) = l
  BY <1>1, <1>2, IdPathTyped
<1>4. PICK x \in C : x = t[q].id
  BY <1>2 DEF TreeInv, Nodes, Children
<1>5. PICK c : c = Append(a, x)
  OBVIOUS
<1>6. c[l + 1] = x /\ \A j \in 1..l : c[j] = a[j]
  BY <1>3, <1>5
<1>7. IdPath(t, q) = c
  BY <1>1, <1>4, <1>5, IdPathOfChild
<1> QED BY <1>1, <1>4, <1>6, <1>7

\* A sum is at least its first part.
LEMMA SumGrows ==
  ASSUME NEW s \in Seq(Nat), 1 \in 1..Len(s)
  PROVE  Sum(s) \in Nat /\ s[1] <= Sum(s)
<1> DEFINE n == Len(s)
           Rec(f) == f = [i \in 0..n |-> IF i = 0 THEN 0 ELSE f[i - 1] + s[i]]
           upTo == CHOOSE f : Rec(f)
<1>1. n \in Nat /\ s \in [1..n -> Nat] /\ 1 \in 1..n /\ s[1] \in Nat
  OBVIOUS
<1>2. \E f : Rec(f)
  BY <1>1, SumsExist
<1>3. Rec(upTo)
  <2> HIDE DEF Rec
  <2> QED BY <1>2
<1>4. Sum(s) = upTo[n]
  BY DEF Sum
<1>5. \A i \in 0..n : upTo[i] = IF i = 0 THEN 0 ELSE upTo[i - 1] + s[i]
  <2> HIDE DEF upTo, n
  <2> QED BY <1>3
<1> HIDE DEF upTo, n
<1>6. upTo[0] = 0 /\ \A i \in 1..n : upTo[i] = upTo[i - 1] + s[i]
  <2>1. 0 \in 0..n /\ \A i \in 1..n : i \in 0..n /\ i # 0
    BY <1>1
  <2> QED BY <1>5, <2>1
<1>7. \A k \in 0..n : upTo[k] \in Nat /\ upTo[k] <= upTo[n]
  <2>1. 0 \in Nat
    OBVIOUS
  <2> QED BY <1>1, <1>6, <2>1, TotalsGrow
<1>8. upTo[1] = s[1]
  BY <1>1, <1>6
<1>9. 1 \in 0..n /\ n \in 0..n
  BY <1>1
<1> QED BY <1>4, <1>7, <1>8, <1>9

\* Parents come first, and their children in the order of their identifiers.
LEMMA TableOrdered ==
  ASSUME NEW t, NEW n, TreeInv(t, n), Distinct(t), NEW dirs, dirs = OrderedDirs(t)
  PROVE  /\ \A i \in 2..Len(dirs) : DirIndex(t, ParentOf(dirs[i])) < i
         /\ \A i \in 2..(Len(dirs) - 1) :
              LET a == DirIndex(t, ParentOf(dirs[i]))
                  b == DirIndex(t, ParentOf(dirs[i + 1]))
              IN a < b \/ (a = b /\ Below(t[dirs[i]].id, t[dirs[i + 1]].id))
<1>1. /\ Len(dirs) \in Nat
      /\ \A i \in 1..Len(dirs) : dirs[i] \in Directories(t) /\ (i > 1 => dirs[i] # << >>)
      /\ \A d \in Directories(t) : DirIndex(t, d) \in 1..Len(dirs) /\ dirs[DirIndex(t, d)] = d
      /\ \A i, j \in 1..Len(dirs) : i < j => Earlier(t, dirs[i], dirs[j])
      /\ \A i, j \in 1..Len(dirs) : Earlier(t, dirs[i], dirs[j]) => i < j
  BY DirsNumbered
<1>2. PICK m \in Nat : m = Len(dirs)
  BY <1>1
<1>3. ASSUME NEW p \in Directories(t), NEW q \in Directories(t), Earlier(t, p, q)
      PROVE  DirIndex(t, p) < DirIndex(t, q)
  BY <1>1, <1>3
<1>4. ASSUME NEW i \in 2..m
      PROVE  DirIndex(t, ParentOf(dirs[i])) < i
  <2>1. PICK d : d = dirs[i]
    OBVIOUS
  <2>2. i \in 1..m /\ d \in Directories(t) /\ d # << >>
    BY <1>1, <1>2, <2>1
  <2>3. PICK p : p = ParentOf(d)
    OBVIOUS
  <2>4. p \in Directories(t) /\ Len(p) = Len(d) - 1 /\ Len(d) \in Nat
    BY <2>2, <2>3, ParentIs
  <2>5. Len(p) < Len(d)
    BY <2>4
  <2>6. PICK k \in 1..m : k = DirIndex(t, p) /\ dirs[k] = p
    BY <1>1, <1>2, <2>4
  <2>7. Earlier(t, dirs[k], dirs[i])
    BY <2>1, <2>5, <2>6 DEF Earlier
  <2>8. k < i
    BY <1>1, <1>2, <2>2, <2>7
  <2> QED BY <2>1, <2>3, <2>6, <2>8
<1>5. ASSUME NEW i \in 2..(m - 1)
      PROVE  \/ DirIndex(t, ParentOf(dirs[i])) < DirIndex(t, ParentOf(dirs[i + 1]))
             \/ /\ DirIndex(t, ParentOf(dirs[i])) = DirIndex(t, ParentOf(dirs[i + 1]))
                /\ Below(t[dirs[i]].id, t[dirs[i + 1]].id)
  <2>1. PICK p : p = dirs[i]
    OBVIOUS
  <2>2. PICK q : q = dirs[i + 1]
    OBVIOUS
  <2>3. i \in 1..m /\ i + 1 \in 1..m /\ i > 1 /\ i + 1 > 1 /\ i < i + 1
    OBVIOUS
  <2>4. /\ p \in Directories(t) /\ q \in Directories(t) /\ p # << >> /\ q # << >>
        /\ Earlier(t, p, q)
    BY <1>1, <1>2, <2>1, <2>2, <2>3
  <2>5. PICK a : a = ParentOf(p)
    OBVIOUS
  <2>6. PICK b : b = ParentOf(q)
    OBVIOUS
  <2>7. /\ a \in Directories(t) /\ Len(a) = Len(p) - 1 /\ Len(p) \in Nat /\ p \in Children(t, a)
        /\ b \in Directories(t) /\ Len(b) = Len(q) - 1 /\ Len(q) \in Nat /\ q \in Children(t, b)
    BY <2>4, <2>5, <2>6, ParentIs
  <2>8. a \in DOMAIN t /\ b \in DOMAIN t /\ p \in DOMAIN t /\ q \in DOMAIN t
    BY <2>4, <2>7 DEF Directories
  <2>9. CASE Len(p) < Len(q)
    <3>1. Earlier(t, a, b)
      BY <2>7, <2>9 DEF Earlier
    <3> QED BY <1>3, <2>1, <2>2, <2>5, <2>6, <2>7, <3>1
  <2>10. CASE Len(p) = Len(q) /\ IdPathBelow(t, p, q)
    <3>1. PICK l \in Nat : l = Len(a) /\ l = Len(b) /\ Len(p) = l + 1 /\ Len(q) = l + 1
      <4>1. Len(a) \in Nat
        BY <2>8, IdPathTyped
      <4> QED BY <2>7, <2>10, <4>1
    <3>2. PICK k \in 1..(l + 1) :
            /\ \A j \in 1..(k - 1) : IdPath(t, p)[j] = IdPath(t, q)[j]
            /\ Below(IdPath(t, p)[k], IdPath(t, q)[k])
      BY <2>8, <2>10, <3>1, IdPathBelowIs
    <3>3. /\ \A j \in 1..l : IdPath(t, p)[j] = IdPath(t, a)[j]
          /\ IdPath(t, p)[l + 1] = t[p].id
      BY <2>7, <2>8, <3>1, IdPathExtends
    <3>4. /\ \A j \in 1..l : IdPath(t, q)[j] = IdPath(t, b)[j]
          /\ IdPath(t, q)[l + 1] = t[q].id
      BY <2>7, <2>8, <3>1, IdPathExtends
    <3>5. CASE k = l + 1
      <4>1. \A j \in 1..l : IdPath(t, a)[j] = IdPath(t, b)[j]
        <5> TAKE j \in 1..l
        <5>1. j \in 1..(k - 1)
          BY <3>5
        <5> QED BY <3>2, <3>3, <3>4, <5>1
      <4>2. a = b
        BY <2>8, <3>1, <4>1, IdPathTells
      <4>3. Below(t[p].id, t[q].id)
        BY <3>2, <3>3, <3>4, <3>5
      <4> QED BY <2>1, <2>2, <2>5, <2>6, <4>2, <4>3
    <3>6. CASE k # l + 1
      <4>1. k \in 1..l /\ \A j \in 1..(k - 1) : j \in 1..l
        BY <3>6
      <4>2. /\ \A j \in 1..(k - 1) : IdPath(t, a)[j] = IdPath(t, b)[j]
            /\ Below(IdPath(t, a)[k], IdPath(t, b)[k])
        BY <3>2, <3>3, <3>4, <4>1
      <4>3. IdPathBelow(t, a, b)
        BY <2>8, <3>1, <4>1, <4>2, IdPathBelowIs
      <4>4. Earlier(t, a, b)
        BY <3>1, <4>3 DEF Earlier
      <4> QED BY <1>3, <2>1, <2>2, <2>5, <2>6, <2>7, <4>4
    <3> QED BY <3>5, <3>6
  <2> QED BY <2>4, <2>9, <2>10 DEF Earlier
<1> QED BY <1>2, <1>4, <1>5

\* There is a path table to write.
LEMMA PathTableNotEmpty ==
  ASSUME NEW t, NEW n, TreeInv(t, n), Distinct(t)
  PROVE  PathTableSize(t) \in Nat \ {0}
<1>1. PICK dirs : dirs = OrderedDirs(t)
  OBVIOUS
<1>2. /\ Len(dirs) \in Nat /\ 1 \in 1..Len(dirs) /\ dirs[1] = << >>
      /\ \A i \in 1..Len(dirs) : dirs[i] \in Directories(t)
  BY <1>1, DirsNumbered
<1>3. PICK m \in Nat : m = Len(dirs) /\ 1 \in 1..m
  BY <1>2
<1>4. ASSUME NEW i \in 1..m
      PROVE  Len(PathTableIdent(t, dirs[i])) \in Nat
  <2>1. dirs[i] \in DOMAIN t
    BY <1>2, <1>3 DEF Directories
  <2>2. t[dirs[i]].id \in Seq(Chars)
    BY <2>1 DEF TreeInv, Nodes
  <2>3. Len(t[dirs[i]].id) \in Nat
    BY <2>2
  <2>4. Len(Self) \in Nat
    BY DEF Self
  <2> QED BY <2>3, <2>4 DEF PathTableIdent
<1>5. PICK s : s = [i \in 1..m |-> PathTableEntryLen(Len(PathTableIdent(t, dirs[i])))]
  OBVIOUS
<1>6. s \in [1..m -> Nat]
  BY <1>4, <1>5, RecordLengths
<1>7. s \in Seq(Nat) /\ Len(s) = m
  BY <1>6, FunctionIsSequence
<1>8. s[1] \in Nat \ {0}
  <2>1. PICK k \in Nat : k = Len(PathTableIdent(t, dirs[1]))
    BY <1>3, <1>4
  <2>2. s[1] = PathTableEntryLen(k)
    BY <1>3, <1>5, <2>1
  <2> QED BY <2>2 DEF PathTableEntryLen
<1>9. PathTableSize(t) = Sum(s)
  BY <1>1, <1>3, <1>5 DEF PathTableSize
<1>10. s[1] <= Sum(s) /\ Sum(s) \in Nat
  BY <1>3, <1>7, SumGrows
<1> QED BY <1>8, <1>9, <1>10

\* Both path tables are where the volume descriptor says.
LEMMA TableRead ==
  ASSUME NEW t, NEW n, TreeInv(t, n), Distinct(t), AllLanded(t), NEW msb \in BOOLEAN,
         NEW at, at = (IF msb THEN PathTableMLBA(t) ELSE PathTableLLBA)
  PROVE  \A s \in 1..((PathTableSize(t) + SectorSize - 1) \div SectorSize) :
           sink[at + s - 1] = [kind |-> "pathTable", msb |-> msb, entries |-> TableOf(t), part |-> s]
<1>1. PICK x : x = PathTable(t, Layout(t), msb)
  OBVIOUS
<1>2. PICK K : K = (PathTableSize(t) + SectorSize - 1) \div SectorSize
  OBVIOUS
<1>3. PICK w : w = WriteAt(at, x)
  OBVIOUS
<1>4. x = [s \in 1..K |-> [kind |-> "pathTable", msb |-> msb, entries |-> TableOf(t), part |-> s]]
  BY <1>1, <1>2, Zenon DEF PathTable, TableOf, DirIndex
<1>5. K \in Nat
  <2>1. PICK b \in Nat \ {0} : b = SectorSize
    BY BuilderAssumption
  <2>2. PICK k \in Nat : k = PathTableSize(t)
    BY LengthsTyped
  <2>3. PICK y \in Nat : y = k + b - 1
    OBVIOUS
  <2> QED BY <1>2, <2>1, <2>2, <2>3, Division
<1>6. Len(x) = K
  <2>1. DOMAIN x = 1..K /\ x = [s \in DOMAIN x |-> x[s]]
    BY <1>4
  <2> QED BY <1>5, <2>1, LengthOf
<1>7. PICK ws : ws = Writes(t)
  OBVIOUS
<1>8. w \in Elements(ws)
  <2>1. CASE msb = TRUE
    <3>1. w = WriteAt(PathTableMLBA(t), PathTable(t, Layout(t), TRUE))
      BY <1>1, <1>3, <2>1
    <3> QED BY <1>7, <3>1, WritesHave
  <2>2. CASE msb = FALSE
    <3>1. w = WriteAt(PathTableLLBA, PathTable(t, Layout(t), FALSE))
      BY <1>1, <1>3, <2>2
    <3> QED BY <1>7, <3>1, WritesHave
  <2> QED BY <2>1, <2>2
<1>9. PICK i \in 1..Len(ws) : ws[i] = w
  BY <1>8 DEF Elements
<1>10. Landed(w)
  BY <1>7, <1>9 DEF AllLanded
<1>11. w.lba = at /\ w.sectors = x
  BY <1>3, WriteIs
<1>12. \A s \in 1..K : sink[at + s - 1] = x[s]
  BY <1>6, <1>10, <1>11 DEF Landed
<1> QED BY <1>2, <1>4, <1>12

\* "." and ".." fit into a sector.
DotsFit == 2 * DirRecordLen(1) <= SectorSize

\* They are the first two rows of the first sector.
LEMMA DotsFirst ==
  ASSUME DotsFit, NEW ids \in Seq(Nat), 2 <= Len(ids), ids[1] = 1, ids[2] = 1
  PROVE  /\ Row(ids, 1) = 1 /\ Row(ids, 2) = 1
         /\ Len(RowsIn(ids, 1)) \in Nat /\ 2 <= Len(RowsIn(ids, 1))
         /\ RowsIn(ids, 1)[1] = 1 /\ RowsIn(ids, 1)[2] = 2
<1>1. PICK b \in Nat \ {0} : b = SectorSize /\ 68 <= b
  <2>1. DirRecordLen(1) = 34
    BY DEF DirRecordLen
  <2> QED BY <2>1, BuilderAssumption DEF DotsFit
<1>2. DirRecordLen(1) = 34
  BY DEF DirRecordLen
<1>3. PICK m \in Nat : m = Len(ids) /\ 2 <= m
  OBVIOUS
<1>4. ASSUME NEW y \in Nat, y < b
      PROVE  y \div b = 0
  <2>1. PICK q \in Nat : q = y \div b /\ q * b <= y
    BY Division
  <2>2. q * b < 0 * b + b
    BY <1>4, <2>1
  <2>3. q <= 0
    BY <2>2, Multiples
  <2> QED BY <2>1, <2>3
<1>5. 0 \div b = 0 /\ 33 \div b = 0 /\ 34 \div b = 0 /\ 67 \div b = 0
  BY <1>1, <1>4
<1>6. Fit(0, 34) = 0 /\ Fit(34, 34) = 34
  <2>1. 0 + 34 - 1 = 33 /\ 34 + 34 - 1 = 67
    OBVIOUS
  <2> QED BY <1>1, <1>5, <2>1 DEF Fit
<1>7. PICK e : e = Ends(ids)
  OBVIOUS
<1>8. e[0] = 0 /\ \A i \in 1..m : e[i] = Fit(e[i - 1], DirRecordLen(ids[i])) + DirRecordLen(ids[i])
  BY <1>3, <1>7, EndsTyped
<1>9. e[1] = 34 /\ e[2] = 68
  <2>1. 1 \in 1..m /\ 2 \in 1..m
    BY <1>3
  <2>2. e[1] = Fit(e[0], 34) + 34
    BY <1>2, <1>8, <2>1
  <2>3. e[2] = Fit(e[1], 34) + 34
    BY <1>2, <1>8, <2>1
  <2> QED BY <1>6, <1>8, <2>2, <2>3
<1>10. Row(ids, 1) = 1 /\ Row(ids, 2) = 1
  <2>1. 34 - 34 = 0 /\ 68 - 34 = 34
    OBVIOUS
  <2>2. Row(ids, 1) = 0 \div b + 1
    BY <1>1, <1>2, <1>7, <1>9, <2>1, RowIs
  <2>3. Row(ids, 2) = 34 \div b + 1
    BY <1>1, <1>2, <1>7, <1>9, <2>1, RowIs
  <2> QED BY <1>5, <2>2, <2>3
<1>11. PICK one \in Int : one = 1
  OBVIOUS
<1>12. PICK R : R = {i \in 1..m : Row(ids, i) = one}
  OBVIOUS
<1>13. PICK w : w = RowsIn(ids, one)
  OBVIOUS
<1>14. /\ w \in Seq(R) /\ Len(w) \in Nat /\ Elements(w) = R
       /\ \A i, j \in 1..Len(w) : i < j => w[i] < w[j]
  BY <1>3, <1>12, <1>13, RowsInAre
<1>15. 1 \in R /\ 2 \in R
  BY <1>3, <1>10, <1>11, <1>12
<1>16. PICK k \in Nat : k = Len(w)
  BY <1>14
<1>17. \A i \in 1..k : w[i] \in 1..m
  BY <1>12, <1>14, <1>16
<1>18. PICK i \in 1..k : w[i] = 1
  BY <1>14, <1>15, <1>16 DEF Elements
<1>19. PICK j \in 1..k : w[j] = 2
  BY <1>14, <1>15, <1>16 DEF Elements
<1>20. i = 1
  <2> SUFFICES ASSUME 1 < i
               PROVE  FALSE
    OBVIOUS
  <2>1. 1 \in 1..k /\ w[1] < w[i]
    BY <1>14, <1>16
  <2> QED BY <1>17, <1>18, <2>1
<1>21. j = 2
  <2>1. j # 1
    BY <1>18, <1>19, <1>20
  <2> SUFFICES ASSUME 2 < j
               PROVE  FALSE
    BY <2>1
  <2>2. 1 \in 1..k /\ 2 \in 1..k /\ w[1] < w[2] /\ w[2] < w[j]
    BY <1>14, <1>16
  <2> QED BY <1>17, <1>18, <1>19, <1>20, <2>2
<1> QED BY <1>10, <1>11, <1>13, <1>14, <1>16, <1>18, <1>19, <1>20, <1>21

\* The first sector of a directory begins with "." and "..".
LEMMA DotsRead ==
  ASSUME DotsFit, NEW t, NEW n, TreeInv(t, n), Distinct(t), AllLanded(t), NEW d \in Directories(t)
  PROVE  LET dir == sink[Layout(t).lba[d]].records
         IN dir[1] = OwnRecord(t, d) /\ dir[2] = ParentRecord(t, d)
<1>1. PICK x : x = DirectoryExtent(t, Layout(t), d)
  OBVIOUS
<1>2. PICK rows : rows = Rows(t, d)
  OBVIOUS
<1>3. d \in DOMAIN t
  BY DEF Directories
<1>4. rows[1] = OwnRecord(t, d) /\ rows[2] = ParentRecord(t, d)
  <2>1. PICK kids : kids = OrderedChildren(t, d)
    OBVIOUS
  <2>2. InRows(t, d, kids, rows)
    BY <1>2, <1>3, <2>1, RowsAre
  <2> QED BY <2>2 DEF InRows
<1>5. PICK ids \in Seq(Nat), K \in Nat : Filed(rows, ids, K, x) /\ Layout(t).len[d] \div SectorSize = K
  BY <1>1, <1>2, ExtentIs
<1>6. /\ Len(ids) = Len(rows) /\ Len(rows) \in Nat /\ 2 <= Len(rows)
      /\ ids[1] = 1 /\ ids[2] = 1
      /\ K = (Ends(ids)[Len(ids)] + SectorSize - 1) \div SectorSize
      /\ x = [s \in 1..K |-> x[s]]
      /\ \A s \in 1..K :
           x[s].records = [k \in 1..Len(RowsIn(ids, s)) |-> rows[RowsIn(ids, s)[k]]]
  BY <1>5 DEF Filed
<1>7. /\ Row(ids, 1) = 1
      /\ Len(RowsIn(ids, 1)) \in Nat /\ 2 <= Len(RowsIn(ids, 1))
      /\ RowsIn(ids, 1)[1] = 1 /\ RowsIn(ids, 1)[2] = 2
  BY <1>6, DotsFirst
<1>8. 1 \in 1..K
  <2>1. 1 \in 1..Len(ids)
    BY <1>6
  <2>2. PICK e \in Nat : e = Ends(ids)[Len(ids)]
    BY EndsGrow
  <2>3. PICK p \in Nat : p = Ends(ids)[1] - DirRecordLen(ids[1]) /\ p < e
    BY <2>1, <2>2, EndsGrow
  <2>4. p \div SectorSize + 1 \in 1..K
    BY <1>6, <2>2, <2>3, InSectors
  <2> QED BY <1>7, <2>3, <2>4, RowIs
<1>9. PICK y : y = x[1].records
  OBVIOUS
<1>10. y[1] = rows[1] /\ y[2] = rows[2]
  <2>1. PICK v : v = RowsIn(ids, 1)
    OBVIOUS
  <2>2. y = [k \in 1..Len(v) |-> rows[v[k]]]
    BY <1>6, <1>8, <1>9, <2>1
  <2>3. 1 \in 1..Len(v) /\ 2 \in 1..Len(v) /\ v[1] = 1 /\ v[2] = 2
    BY <1>7, <2>1
  <2> QED BY <2>2, <2>3
<1>11. sink[Layout(t).lba[d]] = x[1]
  <2>1. PICK w : w = DirWrite(t, d)
    OBVIOUS
  <2>2. w.lba = Layout(t).lba[d] /\ w.sectors = x /\ Layout(t).lba[d] \in Nat
    <3>1. w.lba = Layout(t).lba[d] /\ IsWrite(w)
      BY <2>1, DirWriteIs
    <3>2. w.sectors = x
      BY <1>1, <2>1, WriteIs DEF DirWrite
    <3> QED BY <3>1, <3>2 DEF IsWrite
  <2>3. PICK ws : ws = Writes(t)
    OBVIOUS
  <2>4. w \in Elements(ws)
    BY <2>1, <2>3, WritesHave
  <2>5. PICK i \in 1..Len(ws) : ws[i] = w
    BY <2>4 DEF Elements
  <2>6. Landed(w)
    BY <2>3, <2>5 DEF AllLanded
  <2>7. Len(x) = K
    <3>1. DOMAIN x = 1..K
      BY <1>6
    <3> QED BY <1>6, <3>1, LengthOf
  <2>8. PICK a \in Nat : a = Layout(t).lba[d]
    BY <2>2
  <2>9. sink[a + 1 - 1] = x[1]
    BY <1>8, <2>2, <2>6, <2>7, <2>8 DEF Landed
  <2>10. a + 1 - 1 = a
    OBVIOUS
  <2> QED BY <2>8, <2>9, <2>10
<1> QED BY <1>4, <1>9, <1>10, <1>11

\* A path table has a sector, and the second table is behind the first.
LEMMA TablesApart ==
  ASSUME NEW t, NEW n, TreeInv(t, n), Distinct(t), SizesFit(t)
  PROVE  /\ 1 \in 1..((PathTableSize(t) + SectorSize - 1) \div SectorSize)
         /\ PathTableLLBA \in Nat /\ PathTableMLBA(t) \in Nat /\ PathTableMLBA(t) # PathTableLLBA
<1>1. PICK b \in Nat \ {0} : b = SectorSize
  BY BuilderAssumption
<1>2. PICK k \in Nat \ {0} : k = PathTableSize(t)
  BY PathTableNotEmpty
<1>3. PICK N : N = (k + SectorSize - 1) \div SectorSize
  OBVIOUS
<1>4. 1 \in 1..N
  <2>1. 0 \in Nat /\ 0 < k
    OBVIOUS
  <2>2. 0 \div SectorSize + 1 \in 1..N
    BY <1>3, <2>1, InSectors
  <2>3. 0 \div SectorSize = 0
    <3>1. PICK q \in Nat : q = 0 \div b /\ q * b <= 0
      BY <2>1, Division
    <3>2. q * b < 0 * b + b
      BY <3>1
    <3>3. q <= 0
      BY <3>2, Multiples
    <3> QED BY <1>1, <3>1, <3>3
  <2> QED BY <2>2, <2>3
<1>5. PathTableSectors(t) = N
  <2>1. k + SectorSize <= Word
    BY <1>2 DEF SizesFit
  <2> QED BY <1>2, <1>3, <2>1, SectorsOf DEF PathTableSectors
<1>6. PathTableLLBA \in Nat
  BY BuilderAssumption DEF PathTableLLBA
<1>7. PathTableMLBA(t) = PathTableLLBA + N /\ N \in Nat \ {0}
  <2>1. N \in Nat
    BY <1>5, LengthsTyped
  <2> QED BY <1>4, <1>5, <2>1 DEF PathTableMLBA
<1> QED BY <1>2, <1>3, <1>4, <1>6, <1>7

(* ECMA-119 6.9.1 (create.go:250-252, 360-362): unless a size is too large *)
(* for the uint32 arithmetic, both path tables of a written image name     *)
(* each directory of the tree where its "." and ".." are, parents come     *)
(* first and siblings are in order, for every tree.                        *)
THEOREM PathTablesNameDirectories ==
  ASSUME DotsFit
  PROVE  Spec => [](SizesFit(tree) => PathTablesAgree)
<1>1. IInv /\ ImageInv => (SizesFit(tree) => PathTablesAgree)
  <2> SUFFICES ASSUME IInv, ImageInv, SizesFit(tree), result = "ok"
               PROVE  PathTablesAgree
    BY DEF PathTablesAgree
  <2>1. PICK t : t = tree
    OBVIOUS
  <2>2. PICK n : n = adds
    OBVIOUS
  <2>3. TreeInv(t, n) /\ Distinct(t) /\ AllLanded(t) /\ SizesFit(t)
    BY <2>1, <2>2 DEF IInv, ImageInv
  <2>4. PICK pvd : pvd = sink[SystemArea]
    OBVIOUS
  <2>5. /\ pvd.pathTableSize = PathTableSize(t)
        /\ pvd.pathTableL = PathTableLLBA /\ pvd.pathTableM = PathTableMLBA(t)
    <3>1. PICK l : l = Layout(t)
      OBVIOUS
    <3>2. pvd = PrimaryVolumeDescriptor(t, l)
      BY <2>3, <2>4, <3>1, DescriptorRead
    <3>3. PICK z : z = PathTableMLBA(t)
      OBVIOUS
    <3>4. PICK y : y = PathTableSize(t)
      OBVIOUS
    <3>5. PICK x : x = TotalSectors(t, l)
      OBVIOUS
    <3> QED BY <3>2, <3>3, <3>4, <3>5 DEF PrimaryVolumeDescriptor
  <2>6. PICK N : N = (pvd.pathTableSize + SectorSize - 1) \div SectorSize
    OBVIOUS
  <2>7. 1 \in 1..N /\ PathTableLLBA \in Nat /\ PathTableMLBA(t) # PathTableLLBA
    BY <2>3, <2>5, <2>6, TablesApart
  <2>8. PICK T : T = TableOf(t)
    OBVIOUS
  <2>9. \A s \in 1..N :
          /\ sink[PathTableLLBA + s - 1] = [kind |-> "pathTable", msb |-> FALSE, entries |-> T, part |-> s]
          /\ sink[PathTableMLBA(t) + s - 1] = [kind |-> "pathTable", msb |-> TRUE, entries |-> T, part |-> s]
    <3>1. PICK f \in BOOLEAN : f = FALSE
      OBVIOUS
    <3>2. PICK g \in BOOLEAN : g = TRUE
      OBVIOUS
    <3>3. PathTableLLBA = IF f THEN PathTableMLBA(t) ELSE PathTableLLBA
      BY <3>1
    <3>4. PathTableMLBA(t) = IF g THEN PathTableMLBA(t) ELSE PathTableLLBA
      BY <3>2
    <3>5. \A s \in 1..N :
            sink[PathTableLLBA + s - 1] = [kind |-> "pathTable", msb |-> f, entries |-> T, part |-> s]
      BY <2>3, <2>5, <2>6, <2>8, <3>3, TableRead
    <3>6. \A s \in 1..N :
            sink[PathTableMLBA(t) + s - 1] = [kind |-> "pathTable", msb |-> g, entries |-> T, part |-> s]
      BY <2>3, <2>5, <2>6, <2>8, <3>4, TableRead
    <3> QED BY <3>1, <3>2, <3>5, <3>6
  <2>10. PICK table : table = sink[pvd.pathTableL].entries
    OBVIOUS
  <2>11. table = T
    <3>1. PICK a \in Nat : a = PathTableLLBA
      BY <2>7
    <3>2. sink[a + 1 - 1] = [kind |-> "pathTable", msb |-> FALSE, entries |-> T, part |-> 1]
      BY <2>7, <2>9, <3>1
    <3>3. a + 1 - 1 = a
      OBVIOUS
    <3>4. sink[a].entries = T
      BY <3>2, <3>3
    <3> QED BY <2>5, <2>10, <3>1, <3>4
  <2>12. \A s \in 1..N : \A at \in {pvd.pathTableL, pvd.pathTableM} :
           sink[at + s - 1] = [kind |-> "pathTable", msb |-> at = pvd.pathTableM, entries |-> table, part |-> s]
    <3> TAKE s \in 1..N
    <3>1. sink[pvd.pathTableL + s - 1]
            = [kind |-> "pathTable", msb |-> pvd.pathTableL = pvd.pathTableM, entries |-> table, part |-> s]
      <4>1. (pvd.pathTableL = pvd.pathTableM) = FALSE
        BY <2>5, <2>7
      <4> QED BY <2>5, <2>9, <2>11, <4>1
    <3>2. sink[pvd.pathTableM + s - 1]
            = [kind |-> "pathTable", msb |-> pvd.pathTableM = pvd.pathTableM, entries |-> table, part |-> s]
      BY <2>5, <2>9, <2>11
    <3> QED BY <3>1, <3>2
  <2>13. PICK dirs : dirs = OrderedDirs(t)
    OBVIOUS
  <2>14. /\ Len(dirs) \in Nat
         /\ \A i \in 1..Len(dirs) : dirs[i] \in Directories(t) /\ (i > 1 => dirs[i] # << >>)
         /\ \A d \in Directories(t) : DirIndex(t, d) \in 1..Len(dirs) /\ dirs[DirIndex(t, d)] = d
    BY <2>3, <2>13, DirsNumbered
  <2>15. PICK m \in Nat : m = Len(dirs)
    BY <2>14
  <2>16. table = [i \in 1..m |-> [id |-> PathTableIdent(t, dirs[i]), lba |-> Layout(t).lba[dirs[i]],
                                  parent |-> DirIndex(t, ParentOf(dirs[i]))]]
    BY <2>8, <2>11, <2>13, <2>15, Zenon DEF TableOf
  <2>17. \A i \in 1..m : /\ table[i].id = PathTableIdent(t, dirs[i])
                         /\ table[i].lba = Layout(t).lba[dirs[i]]
                         /\ table[i].parent = DirIndex(t, ParentOf(dirs[i]))
    BY <2>16
  <2>18. Len(table) = m
    <3>1. DOMAIN table = 1..m /\ table = [i \in DOMAIN table |-> table[i]]
      BY <2>16
    <3> QED BY <3>1, LengthOf
  <2>19. {table[i].lba : i \in 1..m} = {e.rec.lba : e \in {x \in Reachable : x.rec.isDir}}
    <3>1. Reachable = {EntryOf(t, p) : p \in DOMAIN t}
      BY <2>1, <2>3, ReachableIs
    <3>2. \A p \in DOMAIN t : EntryOf(t, p).rec.isDir = t[p].isDir /\ EntryOf(t, p).rec.lba = Layout(t).lba[p]
      <4> TAKE p \in DOMAIN t
      <4>1. EntryOf(t, p).rec = RecordAt(t, p)
        BY DEF EntryOf
      <4> QED BY <2>3, <4>1, RecordAtIs
    <3>3. ASSUME NEW i \in 1..m
          PROVE  \E e \in Reachable : e.rec.isDir /\ e.rec.lba = table[i].lba
      <4>1. dirs[i] \in DOMAIN t /\ t[dirs[i]].isDir
        BY <2>14, <2>15 DEF Directories
      <4> QED BY <2>17, <3>1, <3>2, <4>1
    <3>4. ASSUME NEW e \in Reachable, e.rec.isDir
          PROVE  \E i \in 1..m : e.rec.lba = table[i].lba
      <4>1. PICK p \in DOMAIN t : e = EntryOf(t, p)
        BY <3>1
      <4>2. p \in Directories(t) /\ e.rec.lba = Layout(t).lba[p]
        BY <3>2, <3>4, <4>1 DEF Directories
      <4>3. DirIndex(t, p) \in 1..m /\ dirs[DirIndex(t, p)] = p
        BY <2>14, <2>15, <4>2
      <4> QED BY <2>17, <4>2, <4>3
    <3> QED BY <3>3, <3>4
  <2>20. ASSUME NEW i \in 1..m
         PROVE  LET dir == sink[table[i].lba].records
                IN /\ dir[1].id = Self /\ dir[1].lba = table[i].lba
                   /\ dir[2].id = Parent /\ dir[2].lba = table[table[i].parent].lba
                   /\ i > 1 => table[i].parent < i
    <3>1. PICK d : d = dirs[i]
      OBVIOUS
    <3>2. d \in Directories(t)
      BY <2>14, <2>15, <3>1
    <3>3. PICK dir : dir = sink[table[i].lba].records
      OBVIOUS
    <3>4. dir[1] = OwnRecord(t, d) /\ dir[2] = ParentRecord(t, d)
      BY <2>3, <2>17, <3>1, <3>2, <3>3, DotsRead
    <3>5. dir[1].id = Self /\ dir[1].lba = Layout(t).lba[d]
      BY <3>4 DEF OwnRecord, Record
    <3>6. dir[2].id = Parent /\ dir[2].lba = Layout(t).lba[ParentOf(d)]
      BY <3>4 DEF ParentRecord, Record
    <3>7. ParentOf(d) \in Directories(t)
      BY <2>3, <3>2, ParentIs
    <3>8. PICK k \in 1..m : k = table[i].parent /\ dirs[k] = ParentOf(d)
      BY <2>14, <2>15, <2>17, <3>1, <3>7
    <3>9. i > 1 => k < i
      <4>1. i > 1 => i \in 2..m
        OBVIOUS
      <4>2. i > 1 => DirIndex(t, ParentOf(d)) < i
        BY <2>3, <2>13, <2>15, <3>1, <4>1, TableOrdered
      <4> QED BY <2>17, <3>1, <3>8, <4>2
    <3>10. table[k].lba = Layout(t).lba[ParentOf(d)] /\ table[i].lba = Layout(t).lba[d]
      BY <2>17, <3>1, <3>8
    <3> QED BY <3>3, <3>5, <3>6, <3>8, <3>9, <3>10
  <2>21. ASSUME NEW i \in 2..(m - 1)
         PROVE  \/ table[i].parent < table[i + 1].parent
                \/ /\ table[i].parent = table[i + 1].parent
                   /\ Below(table[i].id, table[i + 1].id)
    <3>1. i \in 1..m /\ i + 1 \in 1..m /\ i > 1 /\ i + 1 > 1
      OBVIOUS
    <3>2. PICK p : p = dirs[i]
      OBVIOUS
    <3>3. PICK q : q = dirs[i + 1]
      OBVIOUS
    <3>4. p # << >> /\ q # << >>
      BY <2>14, <2>15, <3>1, <3>2, <3>3
    <3>5. /\ table[i].parent = DirIndex(t, ParentOf(p)) /\ table[i + 1].parent = DirIndex(t, ParentOf(q))
          /\ table[i].id = t[p].id /\ table[i + 1].id = t[q].id
      BY <2>17, <3>1, <3>2, <3>3, <3>4 DEF PathTableIdent
    <3>6. \/ DirIndex(t, ParentOf(p)) < DirIndex(t, ParentOf(q))
          \/ /\ DirIndex(t, ParentOf(p)) = DirIndex(t, ParentOf(q))
             /\ Below(t[p].id, t[q].id)
      BY <2>3, <2>13, <2>15, <3>2, <3>3, TableOrdered
    <3> QED BY <3>5, <3>6
  <2>22. {table[i].lba : i \in 1..Len(table)} = {e.rec.lba : e \in {x \in Reachable : x.rec.isDir}}
    BY <2>18, <2>19
  <2>23. \A i \in 1..Len(table) :
           LET dir == sink[table[i].lba].records IN
           /\ dir[1].id = Self /\ dir[1].lba = table[i].lba
           /\ dir[2].id = Parent /\ dir[2].lba = table[table[i].parent].lba
           /\ i > 1 => table[i].parent < i
    BY <2>18, <2>20
  <2>24. \A i \in 2..(Len(table) - 1) :
           \/ table[i].parent < table[i + 1].parent
           \/ /\ table[i].parent = table[i + 1].parent
              /\ Below(table[i].id, table[i + 1].id)
    BY <2>18, <2>21
  <2> DEFINE P == sink[SystemArea]
             M == (P.pathTableSize + SectorSize - 1) \div SectorSize
             U == sink[P.pathTableL].entries
  <2>25. P = pvd /\ M = N /\ U = table
    BY <2>4, <2>6, <2>10
  <2>26. \A s \in 1..M : \A at \in {P.pathTableL, P.pathTableM} :
           sink[at + s - 1] = [kind |-> "pathTable", msb |-> at = P.pathTableM, entries |-> U, part |-> s]
    <3> HIDE DEF P, M, U
    <3> QED BY <2>12, <2>25
  <2>27. {U[i].lba : i \in 1..Len(U)} = {e.rec.lba : e \in {x \in Reachable : x.rec.isDir}}
    <3> HIDE DEF P, M, U
    <3> QED BY <2>22, <2>25
  <2>28. \A i \in 1..Len(U) :
           LET dir == sink[U[i].lba].records IN
           /\ dir[1].id = Self /\ dir[1].lba = U[i].lba
           /\ dir[2].id = Parent /\ dir[2].lba = U[U[i].parent].lba
           /\ i > 1 => U[i].parent < i
    <3> HIDE DEF P, M, U
    <3> QED BY <2>23, <2>25, Zenon
  <2>29. \A i \in 2..(Len(U) - 1) :
           \/ U[i].parent < U[i + 1].parent
           \/ /\ U[i].parent = U[i + 1].parent
              /\ Below(U[i].id, U[i + 1].id)
    <3> HIDE DEF P, M, U
    <3> QED BY <2>24, <2>25, Zenon
  <2> QED BY <2>26, <2>27, <2>28, <2>29, Zenon DEF PathTablesAgree
<1> QED BY <1>1, Invariance, ImageInvariance, PTL

=============================================================================
