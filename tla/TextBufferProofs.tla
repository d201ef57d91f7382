-------------------------- MODULE TextBufferProofs --------------------------
(***************************************************************************)
(* Theorems about the text buffer, for every text, history size, backlog   *)
(* and sequence of edits: the geometry of lines and places first, then the *)
(* buffer's types, the backlog of the language server, and undo and redo.  *)
(***************************************************************************)
EXTENDS TextBuffer, SequenceTheorems, FiniteSetTheorems, WellFoundedInduction, TLAPS

(***************************************************************************)
(* Least and greatest numbers.                                             *)
(***************************************************************************)
LEMMA Least ==
  ASSUME NEW T \in SUBSET Nat, T # {}
  PROVE  \E x \in T : \A y \in T : x <= y
<1> DEFINE R == OpToRel(<, Nat)
<1>1. PICK x \in T : \A y \in T : ~(<<y, x>> \in R)
  <2>1. IsWellFoundedOn(R, Nat)
    BY NatLessThanWellFounded
  <2> HIDE DEF R
  <2>2. QED
    BY <2>1, WFMin
<1>2. \A y \in T : <<y, x>> \in R <=> y < x
  BY DEF OpToRel
<1>3. x \in Nat /\ \A y \in T : y \in Nat
  OBVIOUS
<1> HIDE DEF R
<1>4. ASSUME NEW y \in T PROVE x <= y
  <2>1. ~(y < x)
    BY <1>1, <1>2
  <2>2. x \in Nat /\ y \in Nat
    BY <1>3
  <2>3. QED
    BY <2>1, <2>2
<1>5. QED
  BY <1>4

LEMMA MinIs ==
  ASSUME NEW a \in Int, NEW b \in Int
  PROVE  Min({a, b}) = IF a <= b THEN a ELSE b
<1> DEFINE m == IF a <= b THEN a ELSE b
<1>1. m \in {a, b} /\ \A y \in {a, b} : m <= y
  OBVIOUS
<1>2. ASSUME NEW x \in {a, b}, \A y \in {a, b} : x <= y PROVE x = m
  BY <1>2
<1>3. QED
  BY <1>1, <1>2 DEF Min

-----------------------------------------------------------------------------
(***************************************************************************)
(* Lines: the newlines before an offset.                                   *)
(***************************************************************************)
Newlines(t, o) == {k \in 1..o : t[k] = Newline}

LEMMA LineOfIs == \A t, o : LineOf(t, o) = Cardinality(Newlines(t, o))
BY DEF LineOf, Quantify, Newlines

LEMMA NewlinesFinite ==
  ASSUME NEW t, NEW o \in Nat
  PROVE  IsFiniteSet(Newlines(t, o)) /\ LineOf(t, o) \in Nat
<1>1. IsFiniteSet(1..o)
  BY FS_Interval
<1>2. IsFiniteSet(Newlines(t, o))
  BY <1>1, FS_Subset DEF Newlines
<1>3. QED
  BY <1>2, FS_CardinalityType, LineOfIs

LEMMA LineOfZero == \A t : LineOf(t, 0) = 0
<1>1. \A t : Newlines(t, 0) = {}
  BY DEF Newlines
<1>2. QED
  BY <1>1, FS_EmptySet, LineOfIs

LEMMA LineOfStep ==
  ASSUME NEW t, NEW o \in Nat
  PROVE  LineOf(t, o + 1) = IF t[o + 1] = Newline THEN LineOf(t, o) + 1 ELSE LineOf(t, o)
<1>1. CASE t[o + 1] = Newline
  <2>1. Newlines(t, o + 1) = Newlines(t, o) \cup {o + 1} /\ o + 1 \notin Newlines(t, o)
    BY <1>1 DEF Newlines
  <2>2. QED
    BY <1>1, <2>1, NewlinesFinite, FS_AddElement, LineOfIs
<1>2. CASE t[o + 1] # Newline
  <2>1. Newlines(t, o + 1) = Newlines(t, o)
    BY <1>2 DEF Newlines
  <2>2. QED
    BY <1>2, <2>1, LineOfIs
<1>3. QED
  BY <1>1, <1>2

LEMMA LineOfMonotone ==
  ASSUME NEW t, NEW o \in Nat, NEW p \in Nat, o <= p
  PROVE  LineOf(t, o) <= LineOf(t, p)
<1>1. Newlines(t, o) \subseteq Newlines(t, p)
  BY DEF Newlines
<1>2. QED
  BY <1>1, NewlinesFinite, FS_Subset, LineOfIs

LEMMA LineOfStrict ==
  ASSUME NEW t, NEW o \in Nat, NEW p \in Nat, o < p, t[p] = Newline
  PROVE  LineOf(t, o) < LineOf(t, p)
<1>1. p - 1 \in Nat /\ o <= p - 1 /\ (p - 1) + 1 = p
  OBVIOUS
<1>2. LineOf(t, p) = LineOf(t, p - 1) + 1
  BY <1>1, LineOfStep
<1>3. LineOf(t, o) <= LineOf(t, p - 1)
  BY <1>1, LineOfMonotone
<1>4. LineOf(t, o) \in Nat /\ LineOf(t, p - 1) \in Nat
  BY <1>1, NewlinesFinite
<1>5. QED
  BY <1>2, <1>3, <1>4

(* Texts that agree up to an offset have the same lines up to it. *)
LEMMA LineOfPrefix ==
  ASSUME NEW t, NEW u, NEW o \in Nat, \A k \in 1..o : t[k] = u[k]
  PROVE  LineOf(t, o) = LineOf(u, o)
<1>1. Newlines(t, o) = Newlines(u, o)
  BY DEF Newlines
<1>2. QED
  BY <1>1, LineOfIs

-----------------------------------------------------------------------------
(***************************************************************************)
(* Where a line starts and ends.                                           *)
(***************************************************************************)
IsStart(t, line, o) ==
  o \in 0..Len(t) /\ LineOf(t, o) = line /\ (o = 0 \/ t[o] = Newline)

LEMMA StartExists ==
  ASSUME NEW t \in Seq(Char), NEW line \in 0..LineCount(t) - 1
  PROVE  \E o : IsStart(t, line, o)
<1>1. Len(t) \in Nat /\ LineOf(t, Len(t)) \in Nat /\ line <= LineOf(t, Len(t)) /\ line \in Nat
  BY LenProperties, NewlinesFinite DEF LineCount
<1> DEFINE T == {o \in 0..Len(t) : line <= LineOf(t, o)}
<1>2. T \in SUBSET Nat /\ Len(t) \in T
  BY <1>1
<1>3. PICK m \in T : \A y \in T : m <= y
  BY <1>2, Least
<1>4. m \in 0..Len(t) /\ line <= LineOf(t, m) /\ LineOf(t, m) \in Nat
  BY <1>1, NewlinesFinite
<1>5. CASE m = 0
  BY <1>1, <1>4, <1>5, LineOfZero DEF IsStart
<1>6. CASE m # 0
  <2>1. m - 1 \in 0..Len(t) /\ m - 1 \in Nat /\ (m - 1) + 1 = m /\ m - 1 \notin T
    BY <1>1, <1>3, <1>4, <1>6
  <2>2. LineOf(t, m - 1) \in Nat /\ ~(line <= LineOf(t, m - 1))
    BY <2>1, NewlinesFinite
  <2>3. LineOf(t, m) = IF t[m] = Newline THEN LineOf(t, m - 1) + 1 ELSE LineOf(t, m - 1)
    BY <2>1, LineOfStep
  <2>4. LineOf(t, m) = line /\ t[m] = Newline
    BY <1>1, <1>4, <2>2, <2>3
  <2>5. QED
    BY <1>4, <2>4 DEF IsStart
<1>7. QED
  BY <1>5, <1>6

LEMMA StartUnique ==
  ASSUME NEW t \in Seq(Char), NEW line, NEW o, NEW p, IsStart(t, line, o), IsStart(t, line, p)
  PROVE  o = p
<1>1. ASSUME NEW a, NEW b, IsStart(t, line, a), IsStart(t, line, b), a < b PROVE FALSE
  <2>1. Len(t) \in Nat
    BY LenProperties
  <2>2. a \in Nat /\ b \in Nat /\ t[b] = Newline /\ LineOf(t, a) = LineOf(t, b)
    BY <1>1, <2>1 DEF IsStart
  <2>3. LineOf(t, a) < LineOf(t, b) /\ LineOf(t, a) \in Nat
    BY <1>1, <2>2, LineOfStrict, NewlinesFinite
  <2>4. QED
    BY <2>2, <2>3
<1>2. o \in Int /\ p \in Int
  BY LenProperties DEF IsStart
<1>3. ~(o < p)
  BY <1>1
<1>4. ~(p < o)
  BY <1>1
<1>5. QED
  BY <1>2, <1>3, <1>4

LEMMA LineStartIs ==
  ASSUME NEW t \in Seq(Char), NEW line, NEW o, IsStart(t, line, o)
  PROVE  LineStart(t, line) = o
<1>1. LineStart(t, line) = CHOOSE x \in 0..Len(t) : IsStart(t, line, x)
  BY DEF LineStart, IsStart
<1>2. o \in 0..Len(t)
  BY DEF IsStart
<1>3. QED
  BY <1>1, <1>2, StartUnique

(* The start of a line is its first offset, and every offset of a later     *)
(* line lies behind it.                                                     *)
LEMMA LineStartProperty ==
  ASSUME NEW t \in Seq(Char), NEW line \in 0..LineCount(t) - 1
  PROVE  /\ IsStart(t, line, LineStart(t, line))
         /\ \A o \in 0..Len(t) : LineStart(t, line) <= o <=> line <= LineOf(t, o)
<1>1. PICK s : IsStart(t, line, s)
  BY StartExists
<1>2. LineStart(t, line) = s
  BY <1>1, LineStartIs
<1>3. Len(t) \in Nat /\ line \in Nat /\ s \in Nat /\ LineOf(t, s) = line
  BY <1>1, LenProperties, NewlinesFinite DEF IsStart, LineCount
<1>4. ASSUME NEW o \in 0..Len(t) PROVE s <= o <=> line <= LineOf(t, o)
  <2>1. o \in Nat /\ LineOf(t, o) \in Nat
    BY <1>3, NewlinesFinite
  <2>2. CASE s <= o
    BY <1>3, <2>1, <2>2, LineOfMonotone
  <2>3. CASE o < s
    <3>1. t[s] = Newline
      BY <1>1, <2>1, <2>3 DEF IsStart
    <3>2. LineOf(t, o) < line
      BY <1>3, <2>1, <2>3, <3>1, LineOfStrict
    <3>3. QED
      BY <1>3, <2>1, <2>3, <3>2
  <2>4. QED
    BY <1>3, <2>1, <2>2, <2>3
<1>5. QED
  BY <1>1, <1>2, <1>4

LEMMA LineCountProperty ==
  ASSUME NEW t \in Seq(Char)
  PROVE  /\ Len(t) \in Nat /\ LineCount(t) \in Nat \ {0}
         /\ \A o \in 0..Len(t) : LineOf(t, o) \in 0..LineCount(t) - 1
<1>1. Len(t) \in Nat /\ LineOf(t, Len(t)) \in Nat
  BY LenProperties, NewlinesFinite
<1>2. ASSUME NEW o \in 0..Len(t) PROVE LineOf(t, o) \in Nat /\ LineOf(t, o) <= LineOf(t, Len(t))
  BY <1>1, NewlinesFinite, LineOfMonotone
<1>3. QED
  BY <1>1, <1>2 DEF LineCount

LEMMA LineEndProperty ==
  ASSUME NEW t \in Seq(Char), NEW line \in 0..LineCount(t) - 1
  PROVE  /\ LineEnd(t, line) \in 0..Len(t)
         /\ LineStart(t, line) \in 0..LineEnd(t, line)
         /\ \A o \in 0..Len(t) : LineOf(t, o) = line => o <= LineEnd(t, line)
         /\ \A o \in LineStart(t, line)..LineEnd(t, line) - 1 : LineOf(t, o) = line
         /\ line # LineCount(t) - 1 => /\ LineOf(t, LineEnd(t, line)) = line + 1
                                       /\ t[LineEnd(t, line)] = Newline
                                       /\ LineStart(t, line) < LineEnd(t, line)
<1>1. /\ Len(t) \in Nat /\ LineCount(t) \in Nat /\ line \in Nat
      /\ \A o \in 0..Len(t) : LineOf(t, o) \in 0..LineCount(t) - 1
  BY LineCountProperty
<1>2. /\ LineStart(t, line) \in 0..Len(t)
      /\ \A o \in 0..Len(t) : LineStart(t, line) <= o <=> line <= LineOf(t, o)
  BY LineStartProperty DEF IsStart
<1>3. CASE line = LineCount(t) - 1
  <2>1. LineEnd(t, line) = Len(t)
    BY <1>3 DEF LineEnd
  <2>2. ASSUME NEW o \in LineStart(t, line)..Len(t) - 1 PROVE LineOf(t, o) = line
    <3>1. o \in 0..Len(t) /\ LineStart(t, line) <= o
      BY <1>1, <1>2
    <3>2. LineOf(t, o) \in 0..LineCount(t) - 1 /\ line <= LineOf(t, o)
      BY <1>1, <1>2, <3>1
    <3>3. QED
      BY <1>1, <1>3, <3>2
  <2>3. QED
    BY <1>1, <1>2, <1>3, <2>1, <2>2
<1>4. CASE line # LineCount(t) - 1
  <2>1. line + 1 \in 0..LineCount(t) - 1 /\ LineEnd(t, line) = LineStart(t, line + 1)
    BY <1>1, <1>4 DEF LineEnd
  <2> DEFINE e == LineStart(t, line + 1)
  <2>2. /\ e \in 0..Len(t) /\ LineOf(t, e) = line + 1 /\ (e = 0 \/ t[e] = Newline)
        /\ \A o \in 0..Len(t) : e <= o <=> line + 1 <= LineOf(t, o)
    BY <2>1, LineStartProperty DEF IsStart
  <2> HIDE DEF e
  <2>3. e # 0
    BY <1>1, <2>2, LineOfZero
  <2>4. LineStart(t, line) <= e /\ LineStart(t, line) # e
    <3>1. LineOf(t, LineStart(t, line)) = line
      BY LineStartProperty DEF IsStart
    <3>2. line <= LineOf(t, e) /\ line # line + 1
      BY <1>1, <2>2
    <3>3. QED
      BY <1>2, <2>2, <3>1, <3>2
  <2>5. ASSUME NEW o \in 0..Len(t), LineOf(t, o) = line PROVE o <= e
    <3>1. ~(e <= o)
      BY <1>1, <2>2, <2>5
    <3>2. QED
      BY <1>1, <2>2, <3>1
  <2>6. ASSUME NEW o \in LineStart(t, line)..e - 1 PROVE LineOf(t, o) = line
    <3>1. o \in 0..Len(t) /\ LineStart(t, line) <= o /\ ~(e <= o)
      BY <1>1, <1>2, <2>2
    <3>2. line <= LineOf(t, o) /\ ~(line + 1 <= LineOf(t, o)) /\ LineOf(t, o) \in Nat
      BY <1>1, <1>2, <2>2, <3>1
    <3>3. QED
      BY <1>1, <3>2
  <2>7. LineEnd(t, line) = e
    BY <2>1 DEF e
  <2>8. QED
    BY <1>1, <1>2, <1>4, <2>2, <2>3, <2>4, <2>5, <2>6, <2>7
<1>5. QED
  BY <1>3, <1>4

-----------------------------------------------------------------------------
(***************************************************************************)
(* Replacing a range of characters.                                        *)
(***************************************************************************)
Spliced(t, i, j, s, r) ==
  /\ r \in Seq(Char)
  /\ Len(r) = i + Len(s) + Len(t) - j
  /\ \A k \in 1..i : r[k] = t[k]
  /\ \A k \in 1..Len(s) : r[i + k] = s[k]
  /\ \A k \in 1..Len(t) - j : r[i + Len(s) + k] = t[j + k]

LEMMA ReplaceProperty ==
  ASSUME NEW t \in Seq(Char), NEW i \in 0..Len(t), NEW j \in i..Len(t), NEW s \in Seq(Char)
  PROVE  Spliced(t, i, j, s, Replace(t, i, j, s))
<1>1. Len(t) \in Nat /\ Len(s) \in Nat /\ i \in Nat /\ j \in Nat /\ i <= j /\ j <= Len(t)
  BY LenProperties
<1> DEFINE a == SubSeq(t, 1, i)
           b == SubSeq(t, j + 1, Len(t))
           r == (a \o s) \o b
<1>2. /\ a \in Seq(Char) /\ Len(a) = i
      /\ \A k \in 1..i : a[k] = t[k]
  <2>1. \A k \in 1..i : t[k] \in Char
    BY <1>1, ElementOfSeq
  <2>2. /\ SubSeq(t, 1, i) \in Seq(Char)
        /\ Len(SubSeq(t, 1, i)) = IF 1 <= i THEN i - 1 + 1 ELSE 0
        /\ \A k \in 1..i - 1 + 1 : SubSeq(t, 1, i)[k] = t[1 + k - 1]
    BY <1>1, <2>1, SubSeqProperties
  <2>3. Len(a) = i
    BY <1>1, <2>2
  <2>4. ASSUME NEW k \in 1..i PROVE a[k] = t[k]
    <3>1. k \in 1..i - 1 + 1 /\ 1 + k - 1 = k
      BY <1>1
    <3>2. QED
      BY <2>2, <3>1
  <2>5. QED
    BY <2>2, <2>3, <2>4
<1>3. /\ b \in Seq(Char) /\ Len(b) = Len(t) - j
      /\ \A k \in 1..Len(t) - j : b[k] = t[j + k]
  <2>1. \A k \in j + 1..Len(t) : t[k] \in Char
    BY <1>1, ElementOfSeq
  <2>2. /\ SubSeq(t, j + 1, Len(t)) \in Seq(Char)
        /\ Len(SubSeq(t, j + 1, Len(t))) = IF j + 1 <= Len(t) THEN Len(t) - (j + 1) + 1 ELSE 0
        /\ \A k \in 1..Len(t) - (j + 1) + 1 : SubSeq(t, j + 1, Len(t))[k] = t[(j + 1) + k - 1]
    BY <1>1, <2>1, SubSeqProperties
  <2>3. Len(b) = Len(t) - j
    BY <1>1, <2>2
  <2>4. ASSUME NEW k \in 1..Len(t) - j PROVE b[k] = t[j + k]
    <3>1. k \in 1..Len(t) - (j + 1) + 1 /\ (j + 1) + k - 1 = j + k
      BY <1>1
    <3>2. QED
      BY <2>2, <3>1
  <2>5. QED
    BY <2>2, <2>3, <2>4
<1> HIDE DEF a, b
<1>4. /\ a \o s \in Seq(Char) /\ Len(a \o s) = i + Len(s)
      /\ \A k \in 1..i + Len(s) : (a \o s)[k] = IF k <= i THEN a[k] ELSE s[k - i]
  <2>1. /\ a \o s \in Seq(Char) /\ Len(a \o s) = Len(a) + Len(s)
        /\ \A k \in 1..Len(a) + Len(s) : (a \o s)[k] = IF k <= Len(a) THEN a[k] ELSE s[k - Len(a)]
    BY <1>2, ConcatProperties
  <2>2. QED
    BY <1>2, <2>1
<1>5. /\ r \in Seq(Char) /\ Len(r) = i + Len(s) + (Len(t) - j)
      /\ \A k \in 1..i + Len(s) + (Len(t) - j) :
           r[k] = IF k <= i + Len(s) THEN (a \o s)[k] ELSE b[k - (i + Len(s))]
  <2> DEFINE as == a \o s
  <2>1. as \in Seq(Char) /\ Len(as) = i + Len(s)
    BY <1>4
  <2>0. b \in Seq(Char)
    BY <1>3
  <2> HIDE DEF as
  <2>2. /\ as \o b \in Seq(Char) /\ Len(as \o b) = Len(as) + Len(b)
        /\ \A k \in 1..Len(as) + Len(b) : (as \o b)[k] = IF k <= Len(as) THEN as[k] ELSE b[k - Len(as)]
    BY <2>0, <2>1, ConcatProperties
  <2>3. as \o b = r
    BY DEF as
  <2>4. QED
    BY <1>3, <2>1, <2>2, <2>3 DEF as
<1>6. r = Replace(t, i, j, s)
  BY DEF Replace, a, b
<1> HIDE DEF r
<1>7. Len(r) = i + Len(s) + Len(t) - j
  BY <1>1, <1>5
<1>8. ASSUME NEW k \in 1..i PROVE r[k] = t[k]
  <2>1. k \in 1..i + Len(s) + (Len(t) - j) /\ k <= i + Len(s) /\ k \in 1..i + Len(s) /\ k <= i
    BY <1>1
  <2>2. QED
    BY <1>2, <1>4, <1>5, <2>1
<1>9. ASSUME NEW k \in 1..Len(s) PROVE r[i + k] = s[k]
  <2>1. /\ i + k \in 1..i + Len(s) + (Len(t) - j) /\ i + k <= i + Len(s)
        /\ i + k \in 1..i + Len(s) /\ ~(i + k <= i) /\ (i + k) - i = k
    BY <1>1
  <2>2. QED
    BY <1>4, <1>5, <2>1
<1>10. ASSUME NEW k \in 1..Len(t) - j PROVE r[i + Len(s) + k] = t[j + k]
  <2>1. /\ i + Len(s) + k \in 1..i + Len(s) + (Len(t) - j) /\ ~(i + Len(s) + k <= i + Len(s))
        /\ (i + Len(s) + k) - (i + Len(s)) = k
    BY <1>1
  <2>2. QED
    BY <1>3, <1>5, <2>1
<1>11. QED
  BY <1>5, <1>6, <1>7, <1>8, <1>9, <1>10 DEF Spliced

LEMMA SplicedIs ==
  ASSUME NEW t \in Seq(Char), NEW i \in 0..Len(t), NEW j \in i..Len(t), NEW s \in Seq(Char),
         NEW r, Spliced(t, i, j, s, r)
  PROVE  r = Replace(t, i, j, s)
<1>1. Len(t) \in Nat /\ Len(s) \in Nat /\ i \in Nat /\ j \in Nat /\ i <= j /\ j <= Len(t)
  BY LenProperties
<1> DEFINE q == Replace(t, i, j, s)
<1>2. Spliced(t, i, j, s, q)
  BY ReplaceProperty
<1> HIDE DEF q
<1>3. r \in Seq(Char) /\ q \in Seq(Char) /\ Len(r) = Len(q) /\ Len(r) = i + Len(s) + Len(t) - j
  BY <1>2 DEF Spliced
<1>4. ASSUME NEW k \in 1..Len(r) PROVE r[k] = q[k]
  <2>1. k \in Int /\ 1 <= k /\ k <= i + Len(s) + Len(t) - j
    BY <1>1, <1>3
  <2>2. CASE k <= i
    <3>1. k \in 1..i
      BY <2>1, <2>2
    <3>2. QED
      BY <1>2, <3>1 DEF Spliced
  <2>3. CASE i < k /\ k <= i + Len(s)
    <3>1. k - i \in 1..Len(s) /\ i + (k - i) = k
      BY <1>1, <2>1, <2>3
    <3>2. q[i + (k - i)] = s[k - i] /\ r[i + (k - i)] = s[k - i]
      BY <1>2, <3>1 DEF Spliced
    <3>3. QED
      BY <3>1, <3>2
  <2>4. CASE i + Len(s) < k
    <3>1. k - i - Len(s) \in 1..Len(t) - j /\ i + Len(s) + (k - i - Len(s)) = k
      BY <1>1, <2>1, <2>4
    <3>2. /\ q[i + Len(s) + (k - i - Len(s))] = t[j + (k - i - Len(s))]
          /\ r[i + Len(s) + (k - i - Len(s))] = t[j + (k - i - Len(s))]
      BY <1>2, <3>1 DEF Spliced
    <3>3. QED
      BY <3>1, <3>2
  <2>5. QED
    BY <1>1, <2>1, <2>2, <2>3, <2>4
<1>5. r = q
  BY <1>3, <1>4, SeqEqual
<1>6. QED
  BY <1>5 DEF q

(* Taking away what was inserted gives back the text. *)
LEMMA RemoveInserted ==
  ASSUME NEW t \in Seq(Char), NEW i \in 0..Len(t), NEW s \in Seq(Char)
  PROVE  LET u == Replace(t, i, i, s)
         IN  u \in Seq(Char) /\ Len(u) = Len(t) + Len(s) /\ t = Replace(u, i, i + Len(s), <<>>)
<1> DEFINE u == Replace(t, i, i, s)
<1>1. Len(t) \in Nat /\ Len(s) \in Nat /\ i \in Nat /\ i <= Len(t) /\ i \in i..Len(t)
  BY LenProperties
<1>2. Spliced(t, i, i, s, u)
  BY <1>1, ReplaceProperty
<1> HIDE DEF u
<1>3. u \in Seq(Char) /\ Len(u) = Len(t) + Len(s)
  BY <1>1, <1>2 DEF Spliced
<1>4. i \in 0..Len(u) /\ i + Len(s) \in i..Len(u) /\ <<>> \in Seq(Char) /\ Len(<<>>) = 0
  BY <1>1, <1>3, EmptySeq
<1>5. Spliced(u, i, i + Len(s), <<>>, t)
  <2>1. Len(t) = i + 0 + Len(u) - (i + Len(s))
    BY <1>1, <1>3
  <2>2. \A k \in 1..i : t[k] = u[k]
    BY <1>2 DEF Spliced
  <2>3. ASSUME NEW k \in 1..Len(u) - (i + Len(s)) PROVE t[i + 0 + k] = u[i + Len(s) + k]
    <3>1. k \in 1..Len(t) - i /\ i + 0 + k = i + k
      BY <1>1, <1>3
    <3>2. QED
      BY <1>2, <3>1 DEF Spliced
  <2>4. \A k \in 1..0 : t[i + k] = <<>>[k]
    OBVIOUS
  <2>5. QED
    BY <1>4, <2>1, <2>2, <2>3, <2>4 DEF Spliced
<1>6. t = Replace(u, i, i + Len(s), <<>>)
  BY <1>3, <1>4, <1>5, SplicedIs
<1>7. QED
  BY <1>3, <1>6 DEF u

(* And putting back what was taken away. *)
LEMMA InsertRemoved ==
  ASSUME NEW t \in Seq(Char), NEW i \in 0..Len(t), NEW j \in i..Len(t)
  PROVE  LET u == Replace(t, i, j, <<>>)
             s == SubSeq(t, i + 1, j)
         IN  /\ u \in Seq(Char) /\ Len(u) = Len(t) - (j - i) /\ i \in 0..Len(u)
             /\ s \in Seq(Char) /\ Len(s) = j - i
             /\ t = Replace(u, i, i, s)
<1> DEFINE u == Replace(t, i, j, <<>>)
           s == SubSeq(t, i + 1, j)
<1>1. /\ Len(t) \in Nat /\ i \in Nat /\ j \in Nat /\ i <= j /\ j <= Len(t)
      /\ <<>> \in Seq(Char) /\ Len(<<>>) = 0
  BY LenProperties, EmptySeq
<1>2. Spliced(t, i, j, <<>>, u)
  BY <1>1, ReplaceProperty
<1>3. /\ s \in Seq(Char) /\ Len(s) = j - i
      /\ \A k \in 1..j - i : s[k] = t[i + k]
  <2>1. \A k \in i + 1..j : t[k] \in Char
    BY <1>1, ElementOfSeq
  <2>2. /\ SubSeq(t, i + 1, j) \in Seq(Char)
        /\ Len(SubSeq(t, i + 1, j)) = IF i + 1 <= j THEN j - (i + 1) + 1 ELSE 0
        /\ \A k \in 1..j - (i + 1) + 1 : SubSeq(t, i + 1, j)[k] = t[(i + 1) + k - 1]
    BY <1>1, <2>1, SubSeqProperties
  <2>3. Len(s) = j - i
    BY <1>1, <2>2
  <2>4. ASSUME NEW k \in 1..j - i PROVE s[k] = t[i + k]
    <3>1. k \in 1..j - (i + 1) + 1 /\ (i + 1) + k - 1 = i + k
      BY <1>1
    <3>2. QED
      BY <2>2, <3>1
  <2>5. QED
    BY <2>2, <2>3, <2>4
<1> HIDE DEF u, s
<1>4. u \in Seq(Char) /\ Len(u) = Len(t) - (j - i) /\ i \in 0..Len(u) /\ i \in i..Len(u)
  BY <1>1, <1>2 DEF Spliced
<1>5. Spliced(u, i, i, s, t)
  <2>1. Len(t) = i + Len(s) + Len(u) - i
    BY <1>1, <1>3, <1>4
  <2>2. \A k \in 1..i : t[k] = u[k]
    BY <1>2 DEF Spliced
  <2>3. \A k \in 1..Len(s) : t[i + k] = s[k]
    BY <1>3
  <2>4. ASSUME NEW k \in 1..Len(u) - i PROVE t[i + Len(s) + k] = u[i + k]
    <3>1. k \in 1..Len(t) - j /\ i + Len(s) + k = j + k /\ i + 0 + k = i + k
      BY <1>1, <1>3, <1>4
    <3>2. u[i + 0 + k] = t[j + k]
      BY <1>1, <1>2, <3>1 DEF Spliced
    <3>3. QED
      BY <3>1, <3>2
  <2>5. QED
    BY <2>1, <2>2, <2>3, <2>4 DEF Spliced
<1>6. t = Replace(u, i, i, s)
  BY <1>3, <1>4, <1>5, SplicedIs
<1>7. QED
  BY <1>3, <1>4, <1>6 DEF u, s

(* Inserting right behind what was inserted is inserting both at once. *)
LEMMA InsertBehind ==
  ASSUME NEW t \in Seq(Char), NEW i \in 0..Len(t), NEW a \in Seq(Char), NEW b \in Seq(Char)
  PROVE  Replace(Replace(t, i, i, a), i + Len(a), i + Len(a), b) = Replace(t, i, i, a \o b)
<1> DEFINE u == Replace(t, i, i, a)
           v == Replace(u, i + Len(a), i + Len(a), b)
           ab == a \o b
<1>1. Len(t) \in Nat /\ Len(a) \in Nat /\ Len(b) \in Nat /\ i \in Nat /\ i <= Len(t) /\ i \in i..Len(t)
  BY LenProperties
<1>2. /\ ab \in Seq(Char) /\ Len(ab) = Len(a) + Len(b)
      /\ \A k \in 1..Len(a) + Len(b) : ab[k] = IF k <= Len(a) THEN a[k] ELSE b[k - Len(a)]
  BY ConcatProperties
<1>3. Spliced(t, i, i, a, u)
  BY <1>1, ReplaceProperty
<1> HIDE DEF u, ab
<1>4. u \in Seq(Char) /\ Len(u) = Len(t) + Len(a)
  BY <1>1, <1>3 DEF Spliced
<1>5. i + Len(a) \in 0..Len(u) /\ i + Len(a) \in i + Len(a)..Len(u)
  BY <1>1, <1>4
<1>6. Spliced(u, i + Len(a), i + Len(a), b, v)
  BY <1>4, <1>5, ReplaceProperty
<1> HIDE DEF v
<1>7. Len(v) = Len(t) + Len(a) + Len(b)
  BY <1>1, <1>4, <1>6 DEF Spliced
<1>8. Spliced(t, i, i, ab, v)
  <2>1. Len(v) = i + Len(ab) + Len(t) - i
    BY <1>1, <1>2, <1>7
  <2>2. ASSUME NEW k \in 1..i PROVE v[k] = t[k]
    <3>1. k \in 1..i + Len(a)
      BY <1>1
    <3>2. v[k] = u[k] /\ u[k] = t[k]
      BY <1>3, <1>6, <3>1 DEF Spliced
    <3>3. QED
      BY <3>2
  <2>3. ASSUME NEW k \in 1..Len(ab) PROVE v[i + k] = ab[k]
    <3>1. CASE k <= Len(a)
      <4>1. k \in 1..Len(a) /\ i + k \in 1..i + Len(a) /\ k \in 1..Len(a) + Len(b)
        BY <1>1, <1>2, <3>1
      <4>2. v[i + k] = u[i + k] /\ u[i + k] = a[k]
        BY <1>3, <1>6, <4>1 DEF Spliced
      <4>3. QED
        BY <1>2, <3>1, <4>1, <4>2
    <3>2. CASE ~(k <= Len(a))
      <4>1. k - Len(a) \in 1..Len(b) /\ i + Len(a) + (k - Len(a)) = i + k /\ k \in 1..Len(a) + Len(b)
        BY <1>1, <1>2, <3>2
      <4>2. v[i + Len(a) + (k - Len(a))] = b[k - Len(a)]
        BY <1>6, <4>1 DEF Spliced
      <4>3. QED
        BY <1>2, <3>2, <4>1, <4>2
    <3>3. QED
      BY <3>1, <3>2
  <2>4. ASSUME NEW k \in 1..Len(t) - i PROVE v[i + Len(ab) + k] = t[i + k]
    <3>1. k \in 1..Len(u) - (i + Len(a)) /\ i + Len(ab) + k = i + Len(a) + Len(b) + k
      BY <1>1, <1>2, <1>4
    <3>2. v[i + Len(a) + Len(b) + k] = u[i + Len(a) + k] /\ u[i + Len(a) + k] = t[i + k]
      BY <1>3, <1>6, <3>1 DEF Spliced
    <3>3. QED
      BY <3>1, <3>2
  <2>5. v \in Seq(Char)
    BY <1>6 DEF Spliced
  <2>6. QED
    BY <2>1, <2>2, <2>3, <2>4, <2>5 DEF Spliced
<1>9. v = Replace(t, i, i, ab)
  BY <1>1, <1>2, <1>8, SplicedIs
<1>10. QED
  BY <1>9 DEF u, v, ab

(* A place in the server's coordinates is found again in the same text. *)
LEMMA LspRoundTrip ==
  ASSUME NEW t \in Seq(Char), NEW o \in 0..Len(t)
  PROVE  LspPosition(t, o) \in Cursor /\ LspOffset(t, LspPosition(t, o)) = o
<1> DEFINE line == LineOf(t, o)
           p == LspPosition(t, o)
<1>1. Len(t) \in Nat /\ LineCount(t) \in Nat /\ line \in 0..LineCount(t) - 1
  BY LineCountProperty
<1>2. p = CursorAt(line, o - LineStart(t, line))
  BY DEF LspPosition
<1>3. /\ LineStart(t, line) \in 0..Len(t) /\ LineStart(t, line) <= o
      /\ o <= LineEnd(t, line) /\ LineEnd(t, line) \in 0..Len(t)
  <2>1. LineStart(t, line) \in 0..Len(t) /\ (LineStart(t, line) <= o <=> line <= LineOf(t, o))
    BY <1>1, LineStartProperty DEF IsStart
  <2>2. LineEnd(t, line) \in 0..Len(t) /\ (LineOf(t, o) = line => o <= LineEnd(t, line))
    BY <1>1, LineEndProperty
  <2>3. QED
    BY <1>1, <2>1, <2>2
<1> HIDE DEF line, p
<1>4. /\ p.line = line /\ p.column = o - LineStart(t, line) /\ p.column \in Nat /\ line \in Nat
      /\ p \in Cursor
  BY <1>1, <1>2, <1>3 DEF CursorAt, Cursor
<1>5. ~(p.line >= LineCount(t))
  BY <1>1, <1>4
<1>6. LspOffset(t, p) = Min({LineStart(t, line) + p.column, LineEnd(t, line)})
  BY <1>4, <1>5 DEF LspOffset
<1>7. LineStart(t, line) + p.column = o /\ o \in Int /\ LineEnd(t, line) \in Int
  BY <1>1, <1>3, <1>4
<1>8. Min({o, LineEnd(t, line)}) = o
  BY <1>3, <1>7, MinIs
<1>9. QED
  BY <1>4, <1>6, <1>7, <1>8 DEF p

-----------------------------------------------------------------------------
(***************************************************************************)
(* The members of a set of offsets in their order.                         *)
(***************************************************************************)
Below(S, x) == {o \in S : o < x}

LEMMA BelowFinite ==
  ASSUME NEW n \in Nat, NEW S \in SUBSET (0..n)
  PROVE  /\ IsFiniteSet(S) /\ Cardinality(S) \in Nat
         /\ \A x : IsFiniteSet(Below(S, x)) /\ Cardinality(Below(S, x)) \in Nat
<1>1. IsFiniteSet(0..n)
  BY FS_Interval
<1>2. IsFiniteSet(S)
  BY <1>1, FS_Subset
<1>3. ASSUME NEW x PROVE IsFiniteSet(Below(S, x))
  BY <1>2, FS_Subset DEF Below
<1>4. QED
  BY <1>2, <1>3, FS_CardinalityType

(* A set has a member with k members below it, and only one. *)
LEMMA Ranked ==
  ASSUME NEW n \in Nat, NEW S \in SUBSET (0..n), NEW k \in 0..Cardinality(S) - 1
  PROVE  \E x \in S : Cardinality(Below(S, x)) = k
<1>1. Cardinality(S) \in Nat /\ \A x : IsFiniteSet(Below(S, x)) /\ Cardinality(Below(S, x)) \in Nat
  BY BelowFinite
<1> DEFINE T == {x \in 0..n + 1 : Cardinality(Below(S, x)) > k}
<1>0. \A o \in S : o \in Nat /\ o <= n
  OBVIOUS
<1>2. T \in SUBSET Nat /\ n + 1 \in T
  <2>0. \A o \in S : o < n + 1
    BY <1>0
  <2>1. Below(S, n + 1) = S
    BY <2>0 DEF Below
  <2>2. QED
    BY <1>1, <2>1
<1>3. PICK m \in T : \A y \in T : m <= y
  BY <1>2, Least
<1>4. m \in 0..n + 1 /\ Cardinality(Below(S, m)) > k
  OBVIOUS
<1>5. m # 0
  <2>0. \A o \in S : ~(o < 0)
    BY <1>0
  <2>1. Below(S, 0) = {}
    BY <2>0 DEF Below
  <2>2. QED
    BY <1>1, <1>4, <2>1, FS_EmptySet
<1>6. m - 1 \in 0..n + 1 /\ ~(m <= m - 1)
  BY <1>4, <1>5
<1>7. m - 1 \notin T
  BY <1>3, <1>6
<1>8. Cardinality(Below(S, m - 1)) <= k
  BY <1>1, <1>6, <1>7
<1>9. m - 1 \in S
  <2>1. SUFFICES ASSUME m - 1 \notin S PROVE FALSE
    OBVIOUS
  <2>2. Below(S, m) = Below(S, m - 1)
    <3>1. \A o \in S : o < m <=> o < m - 1
      BY <1>0, <1>4, <2>1
    <3>2. QED
      BY <3>1 DEF Below
  <2>3. QED
    BY <1>1, <1>4, <1>8, <2>2
<1>10. Below(S, m) = Below(S, m - 1) \cup {m - 1} /\ m - 1 \notin Below(S, m - 1)
  <2>1. \A o \in S : o < m <=> o < m - 1 \/ o = m - 1
    BY <1>0, <1>4
  <2>2. ~(m - 1 < m - 1)
    BY <1>4
  <2>3. QED
    BY <1>9, <2>1, <2>2 DEF Below
<1>11. Cardinality(Below(S, m)) = Cardinality(Below(S, m - 1)) + 1
  BY <1>1, <1>10, FS_AddElement
<1>12. Cardinality(Below(S, m - 1)) = k
  BY <1>1, <1>4, <1>8, <1>11
<1>13. QED
  BY <1>9, <1>12

-----------------------------------------------------------------------------
(***************************************************************************)
(* Graphemes and cursors.                                                  *)
(***************************************************************************)
Visible(t, line) == {o \in Graphemes(t, line) : t[o + 1] # Newline}

LEMMA LineLenIs == \A t, line : LineLen(t, line) = Cardinality(Visible(t, line))
BY DEF LineLen, Quantify, Visible

LEMMA GraphemesProperty ==
  ASSUME NEW t \in Seq(Char), NEW line \in 0..LineCount(t) - 1
  PROVE  /\ Graphemes(t, line) \in SUBSET (0..Len(t))
         /\ Cardinality(Graphemes(t, line)) \in Nat
         /\ LineLen(t, line) \in Nat
         /\ LineLen(t, line) <= Cardinality(Graphemes(t, line))
         /\ LineLen(t, line) = Cardinality(Graphemes(t, line)) => line = LineCount(t) - 1
<1>1. /\ LineEnd(t, line) \in 0..Len(t) /\ LineStart(t, line) \in 0..LineEnd(t, line)
      /\ line # LineCount(t) - 1 => /\ t[LineEnd(t, line)] = Newline
                                    /\ LineStart(t, line) < LineEnd(t, line)
  BY LineEndProperty
<1>2. Len(t) \in Nat
  BY LenProperties
<1> DEFINE g == Graphemes(t, line)
           v == Visible(t, line)
<1>3. g \in SUBSET (0..Len(t)) /\ v \subseteq g
  BY <1>1, <1>2 DEF Graphemes, Visible
<1>4. IsFiniteSet(g) /\ Cardinality(g) \in Nat
  BY <1>2, <1>3, BelowFinite
<1>5. IsFiniteSet(v) /\ Cardinality(v) \in Nat /\ Cardinality(v) <= Cardinality(g)
  BY <1>3, <1>4, FS_Subset, FS_CardinalityType
<1>6. ASSUME line # LineCount(t) - 1 PROVE Cardinality(v) # Cardinality(g)
  <2>1. LineEnd(t, line) - 1 \in g
    BY <1>1, <1>2, <1>6, CharAssumption DEF Graphemes
  <2>2. LineEnd(t, line) - 1 \notin v
    BY <1>1, <1>2, <1>6 DEF Visible
  <2>3. v # g
    BY <2>1, <2>2
  <2> HIDE DEF v, g
  <2>4. QED
    BY <1>3, <1>4, <2>3, FS_Subset
<1>7. QED
  BY <1>3, <1>4, <1>5, <1>6, LineLenIs

(* The place of a cursor, on any line the text has. *)
LEMMA CharIdxProperty ==
  ASSUME NEW t \in Seq(Char), NEW c \in Cursor, c.line < LineCount(t)
  PROVE  /\ c.line \in 0..LineCount(t) - 1
         /\ CharIdx(t, c) \in LineStart(t, c.line)..LineEnd(t, c.line)
         /\ CharIdx(t, c) \in 0..Len(t)
         /\ IF c.column >= Cardinality(Graphemes(t, c.line))
            THEN CharIdx(t, c) = LineEnd(t, c.line)
            ELSE /\ CharIdx(t, c) \in Graphemes(t, c.line)
                 /\ Cardinality(Below(Graphemes(t, c.line), CharIdx(t, c))) = c.column
<1>1. c.line \in Nat /\ c.column \in Nat
  BY DEF Cursor
<1>2. c.line \in 0..LineCount(t) - 1 /\ Len(t) \in Nat
  BY <1>1, LineCountProperty
<1>3. /\ LineEnd(t, c.line) \in 0..Len(t) /\ LineStart(t, c.line) \in 0..LineEnd(t, c.line)
  BY <1>2, LineEndProperty
<1>4. /\ Graphemes(t, c.line) \in SUBSET (0..Len(t))
      /\ Cardinality(Graphemes(t, c.line)) \in Nat
  BY <1>2, GraphemesProperty
<1>5. CASE c.column >= Cardinality(Graphemes(t, c.line))
  <2>1. CharIdx(t, c) = LineEnd(t, c.line)
    BY <1>5 DEF CharIdx
  <2>2. QED
    BY <1>2, <1>3, <1>5, <2>1
<1>6. CASE ~(c.column >= Cardinality(Graphemes(t, c.line)))
  <2>1. CharIdx(t, c) = CHOOSE o \in Graphemes(t, c.line) : Cardinality(Below(Graphemes(t, c.line), o)) = c.column
    BY <1>6 DEF CharIdx, Quantify, Below
  <2>2. \E o \in Graphemes(t, c.line) : Cardinality(Below(Graphemes(t, c.line), o)) = c.column
    <3>1. c.column \in 0..Cardinality(Graphemes(t, c.line)) - 1
      BY <1>1, <1>4, <1>6
    <3>2. QED
      BY <1>2, <1>4, <3>1, Ranked
  <2>3. /\ CharIdx(t, c) \in Graphemes(t, c.line)
        /\ Cardinality(Below(Graphemes(t, c.line), CharIdx(t, c))) = c.column
    BY <2>1, <2>2
  <2>4. CharIdx(t, c) \in LineStart(t, c.line)..LineEnd(t, c.line) - 1
    BY <2>3 DEF Graphemes
  <2>5. QED
    BY <1>2, <1>3, <1>6, <2>3, <2>4
<1>7. QED
  BY <1>5, <1>6

LEMMA CursorsOfProperty ==
  ASSUME NEW t \in Seq(Char), NEW c
  PROVE  c \in CursorsOf(t) <=> /\ c \in Cursor /\ c.line < LineCount(t)
                                /\ c.column <= LineLen(t, c.line)
<1>1. \A line \in 0..LineCount(t) - 1 : LineLen(t, line) \in Nat /\ line \in Nat /\ line < LineCount(t)
  BY GraphemesProperty, LineCountProperty
<1>2. ASSUME c \in CursorsOf(t)
      PROVE  c \in Cursor /\ c.line < LineCount(t) /\ c.column <= LineLen(t, c.line)
  <2>0. PICK line \in 0..LineCount(t) - 1 : \E column \in 0..LineLen(t, line) : c = CursorAt(line, column)
    BY <1>2 DEF CursorsOf
  <2>1. PICK column \in 0..LineLen(t, line) : c = CursorAt(line, column)
    BY <2>0
  <2>2. line \in Nat /\ column \in Nat /\ column <= LineLen(t, line) /\ line < LineCount(t)
    BY <1>1
  <2>3. c \in Cursor /\ c.line = line /\ c.column = column
    BY <2>1, <2>2 DEF CursorAt, Cursor
  <2>4. QED
    BY <2>2, <2>3
<1>3. ASSUME c \in Cursor, c.line < LineCount(t), c.column <= LineLen(t, c.line)
      PROVE  c \in CursorsOf(t)
  <2>1. c = CursorAt(c.line, c.column) /\ c.line \in Nat /\ c.column \in Nat
    BY <1>3 DEF CursorAt, Cursor
  <2>2. c.line \in 0..LineCount(t) - 1
    BY <1>3, <2>1, LineCountProperty
  <2>3. c.column \in 0..LineLen(t, c.line)
    BY <1>1, <1>3, <2>1, <2>2
  <2>4. QED
    BY <2>1, <2>2, <2>3 DEF CursorsOf
<1>4. QED
  BY <1>2, <1>3

(* The cursors the user can reach are on the line they name. *)
LEMMA CursorPlace ==
  ASSUME NEW t \in Seq(Char), NEW c \in CursorsOf(t)
  PROVE  /\ CharIdx(t, c) \in 0..Len(t)
         /\ c.line \in 0..LineCount(t) - 1
         /\ LineOf(t, CharIdx(t, c)) = c.line
         /\ Cardinality(Below(Graphemes(t, c.line), CharIdx(t, c))) = c.column
<1>1. c \in Cursor /\ c.line < LineCount(t) /\ c.column <= LineLen(t, c.line)
  BY CursorsOfProperty
<1>2. c.line \in Nat /\ c.column \in Nat /\ Len(t) \in Nat /\ LineCount(t) \in Nat
  BY <1>1, LineCountProperty DEF Cursor
<1>3. c.line \in 0..LineCount(t) - 1 /\ CharIdx(t, c) \in 0..Len(t)
  BY <1>1, CharIdxProperty
<1>4. /\ Graphemes(t, c.line) \in SUBSET (0..Len(t))
      /\ Cardinality(Graphemes(t, c.line)) \in Nat
      /\ LineLen(t, c.line) \in Nat
      /\ LineLen(t, c.line) <= Cardinality(Graphemes(t, c.line))
      /\ LineLen(t, c.line) = Cardinality(Graphemes(t, c.line)) => c.line = LineCount(t) - 1
  BY <1>3, GraphemesProperty
<1>5. /\ LineStart(t, c.line) \in Nat /\ LineEnd(t, c.line) \in Nat
      /\ \A o \in LineStart(t, c.line)..LineEnd(t, c.line) - 1 : LineOf(t, o) = c.line
  BY <1>2, <1>3, LineEndProperty
<1>6. CASE c.column >= Cardinality(Graphemes(t, c.line))
  <2>1. c.column = Cardinality(Graphemes(t, c.line)) /\ c.line = LineCount(t) - 1
    BY <1>1, <1>2, <1>4, <1>6
  <2>2. CharIdx(t, c) = LineEnd(t, c.line) /\ LineEnd(t, c.line) = Len(t)
    BY <1>1, <1>6, <2>1, CharIdxProperty DEF LineEnd
  <2>3. LineOf(t, Len(t)) = c.line
    BY <1>2, <2>1, NewlinesFinite DEF LineCount
  <2>4. Below(Graphemes(t, c.line), Len(t)) = Graphemes(t, c.line)
    BY <1>2, <1>5, <2>2 DEF Below, Graphemes
  <2>5. QED
    BY <1>3, <2>1, <2>2, <2>3, <2>4
<1>7. CASE ~(c.column >= Cardinality(Graphemes(t, c.line)))
  <2>1. /\ CharIdx(t, c) \in Graphemes(t, c.line)
        /\ Cardinality(Below(Graphemes(t, c.line), CharIdx(t, c))) = c.column
    BY <1>1, <1>7, CharIdxProperty
  <2>2. CharIdx(t, c) \in LineStart(t, c.line)..LineEnd(t, c.line) - 1
    BY <2>1 DEF Graphemes
  <2>3. QED
    BY <1>3, <1>5, <2>1, <2>2
<1>8. QED
  BY <1>6, <1>7

(* A cursor stays one when only the text behind it changes. *)
LEMMA CursorKept ==
  ASSUME NEW t \in Seq(Char), NEW u \in Seq(Char), NEW c \in CursorsOf(t),
         CharIdx(t, c) \in 0..Len(u), \A k \in 1..CharIdx(t, c) : t[k] = u[k]
  PROVE  c \in CursorsOf(u)
<1> DEFINE i == CharIdx(t, c)
           line == c.line
           s == LineStart(t, line)
<1>1. /\ i \in 0..Len(t) /\ line \in 0..LineCount(t) - 1 /\ LineOf(t, i) = line
      /\ Cardinality(Below(Graphemes(t, line), i)) = c.column
  BY CursorPlace
<1>2. /\ Len(t) \in Nat /\ Len(u) \in Nat /\ LineCount(u) \in Nat
      /\ i \in Nat /\ i <= Len(t) /\ i <= Len(u) /\ \A k \in 1..i : t[k] = u[k]
  BY <1>1, LineCountProperty
<1> HIDE DEF i
<1>3. \A o \in 0..i : LineOf(t, o) = LineOf(u, o)
  <2>1. ASSUME NEW o \in 0..i PROVE LineOf(t, o) = LineOf(u, o)
    <3>1. o \in Nat /\ \A k \in 1..o : t[k] = u[k]
      BY <1>2
    <3>2. QED
      BY <3>1, LineOfPrefix
  <2>2. QED
    BY <2>1
<1>4. line \in 0..LineCount(u) - 1
  <2>1. LineOf(u, i) = line
    BY <1>1, <1>2, <1>3
  <2>2. i \in 0..Len(u)
    BY <1>2
  <2>3. QED
    BY <2>1, <2>2, LineCountProperty
<1>5. IsStart(t, line, s) /\ s \in Nat /\ s <= i
  <2>1. IsStart(t, line, s) /\ (s <= i <=> line <= LineOf(t, i))
    BY <1>1, LineStartProperty
  <2>2. QED
    BY <1>1, <1>2, <2>1 DEF IsStart
<1> HIDE DEF s
<1>6. LineStart(u, line) = s
  <2>1. s \in 0..i /\ s \in 0..Len(u) /\ (s = 0 \/ s \in 1..i)
    BY <1>2, <1>5
  <2>2. IsStart(u, line, s)
    BY <1>2, <1>3, <1>5, <2>1 DEF IsStart
  <2>3. QED
    BY <2>2, LineStartIs
<1>7. i <= LineEnd(u, line) /\ LineEnd(u, line) \in Nat
  <2>1. i \in 0..Len(u) /\ LineOf(u, i) = line
    BY <1>1, <1>2, <1>3
  <2>2. QED
    BY <1>2, <1>4, <2>1, LineEndProperty
<1>8. ASSUME NEW o \in Below(Graphemes(t, line), i) PROVE o \in Visible(u, line)
  <2>1. /\ o \in LineStart(t, line)..LineEnd(t, line) - 1 /\ o < i
        /\ o = LineStart(t, line) \/ t[o + 1] \notin Marks
    BY <1>8 DEF Below, Graphemes
  <2>2. LineStart(t, line) = s /\ LineEnd(t, line) \in Nat
    BY <1>1, <1>2, LineEndProperty DEF s
  <2>3. o \in Nat /\ s <= o /\ o < i /\ o + 1 \in 1..i
    BY <1>2, <1>5, <2>1, <2>2
  <2>4. t[o + 1] = u[o + 1]
    BY <1>2, <2>3
  <2>5. o \in LineStart(u, line)..LineEnd(u, line) - 1
    BY <1>2, <1>6, <1>7, <2>3
  <2>6. o \in Graphemes(u, line)
    BY <1>6, <2>1, <2>2, <2>4, <2>5 DEF Graphemes
  <2>7. t[o + 1] # Newline
    <3>1. SUFFICES ASSUME t[o + 1] = Newline PROVE FALSE
      OBVIOUS
    <3>2. LineOf(t, o) < LineOf(t, o + 1)
      BY <2>3, <3>1, LineOfStrict
    <3>3. LineOf(t, o + 1) <= LineOf(t, i)
      BY <1>2, <2>3, LineOfMonotone
    <3>4. LineOf(t, o) = line
      BY <1>1, <2>1, LineEndProperty
    <3>5. LineOf(t, o) \in Nat /\ LineOf(t, o + 1) \in Nat
      BY <2>3, NewlinesFinite
    <3>6. QED
      BY <1>1, <3>2, <3>3, <3>4, <3>5
  <2>8. QED
    BY <2>4, <2>6, <2>7 DEF Visible
<1>9. c.column <= LineLen(u, line)
  <2>1. Below(Graphemes(t, line), i) \subseteq Visible(u, line)
    BY <1>8
  <2>2. IsFiniteSet(Visible(u, line))
    <3>1. Graphemes(u, line) \in SUBSET (0..Len(u))
      BY <1>4, GraphemesProperty
    <3>2. Visible(u, line) \in SUBSET (0..Len(u))
      BY <3>1 DEF Visible
    <3>3. QED
      BY <1>2, <3>2, BelowFinite
  <2>3. Cardinality(Below(Graphemes(t, line), i)) <= Cardinality(Visible(u, line))
    BY <2>1, <2>2, FS_Subset
  <2>4. QED
    BY <1>1, <2>3, LineLenIs
<1>10. QED
  <2>1. c \in Cursor
    BY CursorsOfProperty
  <2>2. c.line < LineCount(u)
    BY <1>2, <1>4
  <2>3. QED
    BY <1>9, <2>1, <2>2, CursorsOfProperty

LEMMA ClampProperty ==
  ASSUME NEW t \in Seq(Char), NEW c \in Cursor
  PROVE  /\ ClampCursor(t, c) \in CursorsOf(t)
         /\ c \in CursorsOf(t) => ClampCursor(t, c) = c
<1> DEFINE line == Min({c.line, LineCount(t) - 1})
           column == Min({c.column, LineLen(t, line)})
<1>1. c.line \in Nat /\ c.column \in Nat /\ LineCount(t) \in Nat \ {0} /\ c = CursorAt(c.line, c.column)
  BY LineCountProperty DEF Cursor, CursorAt
<1>2. line = IF c.line <= LineCount(t) - 1 THEN c.line ELSE LineCount(t) - 1
  <2>1. LineCount(t) - 1 \in Int /\ c.line \in Int
    BY <1>1
  <2>2. QED
    BY <2>1, MinIs
<1> HIDE DEF line
<1>3. line \in 0..LineCount(t) - 1
  BY <1>1, <1>2
<1>4. LineLen(t, line) \in Nat
  BY <1>3, GraphemesProperty
<1>5. column = IF c.column <= LineLen(t, line) THEN c.column ELSE LineLen(t, line)
  <2>1. c.column \in Int /\ LineLen(t, line) \in Int
    BY <1>1, <1>4
  <2>2. QED
    BY <2>1, MinIs
<1> HIDE DEF column
<1>6. column \in 0..LineLen(t, line)
  BY <1>1, <1>4, <1>5
<1>7. ClampCursor(t, c) = CursorAt(line, column)
  BY DEF ClampCursor, line, column
<1>8. ASSUME c \in CursorsOf(t) PROVE line = c.line /\ column = c.column
  <2>1. c.line < LineCount(t) /\ c.column <= LineLen(t, c.line)
    BY <1>8, CursorsOfProperty
  <2>2. line = c.line
    BY <1>1, <1>2, <2>1
  <2>3. QED
    BY <1>5, <2>1, <2>2
<1>9. CursorAt(line, column) \in CursorsOf(t)
  BY <1>3, <1>6 DEF CursorsOf
<1>10. QED
  BY <1>1, <1>7, <1>8, <1>9

LEMMA StrLinesProperty ==
  ASSUME NEW s \in Seq(Char)
  PROVE  StrLines(s) \in Nat /\ StrLines(s) <= LineCount(s) /\ LineCount(s) \in Nat \ {0}
BY LineCountProperty DEF StrLines

LEMMA AdvanceTyped ==
  ASSUME NEW c \in Cursor, NEW s \in Seq(Char)
  PROVE  AdvanceCursor(c, s) \in Cursor
<1>1. StrLines(s) \in Nat /\ StrLines(s) <= LineCount(s) /\ LineCount(s) \in Nat \ {0}
  BY StrLinesProperty
<1>2. c.line \in Nat /\ c.column \in Nat
  BY DEF Cursor
<1>3. \A line \in 0..LineCount(s) - 1 : LineLen(s, line) \in Nat
  BY GraphemesProperty
<1>4. CASE StrLines(s) = 0 \/ (StrLines(s) = 1 /\ Last(s) = Newline)
  <2>1. AdvanceCursor(c, s) = CursorAt(c.line + 1, 0)
    BY <1>4 DEF AdvanceCursor
  <2>2. QED
    BY <1>2, <2>1 DEF CursorAt, Cursor
<1>5. CASE ~(StrLines(s) = 0 \/ (StrLines(s) = 1 /\ Last(s) = Newline)) /\ StrLines(s) = 1
  <2>1. AdvanceCursor(c, s) = CursorAt(c.line, c.column + LineLen(s, 0))
    BY <1>5 DEF AdvanceCursor
  <2>2. c.column + LineLen(s, 0) \in Nat
    BY <1>1, <1>2, <1>3
  <2>3. QED
    BY <1>2, <2>1, <2>2 DEF CursorAt, Cursor
<1>6. CASE ~(StrLines(s) = 0 \/ (StrLines(s) = 1 /\ Last(s) = Newline)) /\ StrLines(s) # 1
  <2>1. AdvanceCursor(c, s) = CursorAt(c.line + StrLines(s) - 1, LineLen(s, StrLines(s) - 1))
    BY <1>6 DEF AdvanceCursor
  <2>2. StrLines(s) - 1 \in 0..LineCount(s) - 1
    BY <1>1, <1>6
  <2>3. LineLen(s, StrLines(s) - 1) \in Nat /\ c.line + StrLines(s) - 1 \in Nat
    BY <1>1, <1>2, <1>3, <1>6, <2>2
  <2>4. QED
    BY <2>1, <2>3 DEF CursorAt, Cursor
<1>7. QED
  BY <1>4, <1>5, <1>6

(* Only the beginning of the text is not behind a grapheme. *)
LEMMA OriginIsFirst ==
  ASSUME NEW t \in Seq(Char), NEW c \in CursorsOf(t), c.line = 0, c.column = 0
  PROVE  CharIdx(t, c) = 0
<1>1. /\ CharIdx(t, c) \in 0..Len(t) /\ 0 \in 0..LineCount(t) - 1
      /\ LineOf(t, CharIdx(t, c)) = 0
      /\ Cardinality(Below(Graphemes(t, 0), CharIdx(t, c))) = 0
  BY CursorPlace
<1>2. Len(t) \in Nat /\ LineCount(t) \in Nat
  BY LineCountProperty
<1>3. LineStart(t, 0) = 0
  <2>1. IsStart(t, 0, 0)
    BY <1>2, LineOfZero DEF IsStart
  <2>2. QED
    BY <2>1, LineStartIs
<1>4. SUFFICES ASSUME CharIdx(t, c) # 0 PROVE FALSE
  OBVIOUS
<1>5. CharIdx(t, c) <= LineEnd(t, 0) /\ LineEnd(t, 0) \in Nat
  BY <1>1, <1>2, LineEndProperty
<1>6. 0 \in Graphemes(t, 0)
  BY <1>1, <1>3, <1>4, <1>5 DEF Graphemes
<1>7. 0 \in Below(Graphemes(t, 0), CharIdx(t, c))
  BY <1>1, <1>4, <1>6 DEF Below
<1>8. IsFiniteSet(Below(Graphemes(t, 0), CharIdx(t, c)))
  BY <1>1, <1>2, GraphemesProperty, BelowFinite
<1>9. QED
  BY <1>1, <1>7, <1>8, FS_EmptySet

LEMMA GraphemeBeforeTyped ==
  ASSUME NEW c \in CursorsOf(text), text \in Seq(Char), CharIdx(text, c) > 0
  PROVE  GraphemeBefore(c) \in CursorsOf(text)
<1>1. c \in Cursor /\ c.line < LineCount(text) /\ c.column <= LineLen(text, c.line)
  BY CursorsOfProperty
<1>2. c.line \in Nat /\ c.column \in Nat /\ LineCount(text) \in Nat
  BY <1>1, LineCountProperty DEF Cursor
<1>3. LineLen(text, c.line) \in Nat
  BY <1>1, <1>2, GraphemesProperty
<1>4. CASE c.column > 0
  <2>1. GraphemeBefore(c) = CursorAt(c.line, c.column - 1)
    BY <1>4 DEF GraphemeBefore
  <2>2. c.line \in 0..LineCount(text) - 1 /\ c.column - 1 \in 0..LineLen(text, c.line)
    BY <1>1, <1>2, <1>3, <1>4
  <2>3. QED
    BY <2>1, <2>2 DEF CursorsOf
<1>5. CASE ~(c.column > 0)
  <2>1. GraphemeBefore(c) = CursorAt(c.line - 1, LineLen(text, c.line - 1))
    BY <1>5 DEF GraphemeBefore
  <2>2. c.line # 0
    <3>1. SUFFICES ASSUME c.line = 0 PROVE FALSE
      OBVIOUS
    <3>2. c.column = 0
      BY <1>2, <1>5
    <3>3. CharIdx(text, c) = 0
      BY <3>1, <3>2, OriginIsFirst
    <3>4. QED
      BY <3>3
  <2>3. c.line - 1 \in 0..LineCount(text) - 1
    BY <1>1, <1>2, <2>2
  <2>4. LineLen(text, c.line - 1) \in 0..LineLen(text, c.line - 1)
    BY <2>3, GraphemesProperty
  <2>5. QED
    BY <2>1, <2>3, <2>4 DEF CursorsOf
<1>6. QED
  BY <1>4, <1>5

-----------------------------------------------------------------------------
(***************************************************************************)
(* The history: what each of its operations does to the actions that can   *)
(* be undone.                                                              *)
(***************************************************************************)
HistoryTyped ==
  /\ undo_stack \in Seq(Action) /\ redo_stack \in Seq(Action)
  /\ pending_action \in Seq(Action) /\ Len(pending_action) <= 1
  /\ Len(Done) + Len(redo_stack) <= MaxHistory + 1

LEMMA FrontProperty ==
  ASSUME NEW S, NEW s \in Seq(S), s # <<>>
  PROVE  /\ Len(s) \in Nat \ {0} /\ Last(s) \in S
         /\ Front(s) \in Seq(S) /\ Len(Front(s)) = Len(s) - 1
         /\ \A k \in 1..Len(s) - 1 : Front(s)[k] = s[k]
<1>1. Len(s) \in Nat \ {0}
  BY EmptySeq
<1>2. Last(s) \in S
  <2>1. Len(s) \in 1..Len(s)
    BY <1>1
  <2>2. QED
    BY <2>1, ElementOfSeq DEF Last
<1>3. \A k \in 1..Len(s) - 1 : s[k] \in S
  BY <1>1, ElementOfSeq
<1>4. /\ SubSeq(s, 1, Len(s) - 1) \in Seq(S)
      /\ Len(SubSeq(s, 1, Len(s) - 1)) = IF 1 <= Len(s) - 1 THEN Len(s) - 1 - 1 + 1 ELSE 0
      /\ \A k \in 1..Len(s) - 1 - 1 + 1 : SubSeq(s, 1, Len(s) - 1)[k] = s[1 + k - 1]
  BY <1>1, <1>3, SubSeqProperties
<1>5. Len(Front(s)) = Len(s) - 1
  <2>1. Len(SubSeq(s, 1, Len(s) - 1)) = Len(s) - 1
    <3>1. \A n \in Nat \ {0} : (IF 1 <= n - 1 THEN n - 1 - 1 + 1 ELSE 0) = n - 1
      OBVIOUS
    <3>2. QED
      BY <1>1, <1>4, <3>1, Zenon
  <2>2. QED
    BY <2>1 DEF Front
<1>6. ASSUME NEW k \in 1..Len(s) - 1 PROVE Front(s)[k] = s[k]
  <2>1. k \in 1..Len(s) - 1 - 1 + 1 /\ 1 + k - 1 = k
    BY <1>1
  <2>2. QED
    BY <1>4, <2>1 DEF Front
<1>7. QED
  BY <1>1, <1>2, <1>4, <1>5, <1>6 DEF Front

LEMMA DoneProperty ==
  ASSUME HistoryTyped
  PROVE  /\ Done \in Seq(Action) /\ Len(Done) \in Nat
         /\ Len(undo_stack) \in Nat /\ Len(redo_stack) \in Nat
         /\ Len(Done) <= MaxHistory + 1 /\ MaxHistory \in Nat \ {0}
         /\ \A k \in 1..Len(Done) : Done[k] \in Action
         /\ pending_action = <<>> => Done = undo_stack
         /\ pending_action # <<>> =>
              /\ Len(Done) = Len(undo_stack) + 1 /\ pending_action[1] = Done[Len(Done)]
              /\ \A k \in 1..Len(undo_stack) : undo_stack[k] = Done[k]
<1>1. /\ undo_stack \in Seq(Action) /\ pending_action \in Seq(Action) /\ Len(pending_action) <= 1
      /\ redo_stack \in Seq(Action) /\ Len(Done) + Len(redo_stack) <= MaxHistory + 1
  BY DEF HistoryTyped
<1>2. /\ Done \in Seq(Action) /\ Len(Done) = Len(undo_stack) + Len(pending_action)
      /\ \A k \in 1..Len(undo_stack) + Len(pending_action) :
           Done[k] = IF k <= Len(undo_stack) THEN undo_stack[k] ELSE pending_action[k - Len(undo_stack)]
  BY <1>1, ConcatProperties DEF Done
<1>3. Len(undo_stack) \in Nat /\ Len(pending_action) \in Nat /\ Len(redo_stack) \in Nat
  BY <1>1, LenProperties
<1>4. \A k \in 1..Len(Done) : Done[k] \in Action
  BY <1>2, ElementOfSeq
<1>5. ASSUME pending_action = <<>> PROVE Done = undo_stack
  BY <1>1, <1>5, ConcatEmptySeq DEF Done
<1>6. ASSUME pending_action # <<>>
      PROVE  /\ Len(Done) = Len(undo_stack) + 1 /\ pending_action[1] = Done[Len(Done)]
             /\ \A k \in 1..Len(undo_stack) : undo_stack[k] = Done[k]
  <2>1. Len(pending_action) = 1
    <3>1. Len(pending_action) # 0
      BY <1>1, <1>6, EmptySeq
    <3>2. Len(pending_action) \in Nat /\ Len(pending_action) <= 1
      BY <1>1, <1>3
    <3>3. \A n \in Nat : n <= 1 /\ n # 0 => n = 1
      OBVIOUS
    <3>4. QED
      BY <3>1, <3>2, <3>3
  <2>2. Len(Done) = Len(undo_stack) + 1
    BY <1>2, <2>1
  <2>3. Done[Len(undo_stack) + 1] = pending_action[1]
    <3>1. /\ Len(undo_stack) + 1 \in 1..Len(undo_stack) + Len(pending_action)
          /\ ~(Len(undo_stack) + 1 <= Len(undo_stack)) /\ Len(undo_stack) + 1 - Len(undo_stack) = 1
      BY <1>3, <2>1
    <3>2. QED
      BY <1>2, <3>1
  <2>4. ASSUME NEW k \in 1..Len(undo_stack) PROVE undo_stack[k] = Done[k]
    <3>1. k \in 1..Len(undo_stack) + Len(pending_action) /\ k <= Len(undo_stack)
      BY <1>3, <2>1
    <3>2. QED
      BY <1>2, <3>1
  <2>5. QED
    BY <2>2, <2>3, <2>4
<1>7. QED
  BY <1>1, <1>2, <1>3, <1>4, <1>5, <1>6, HistoryAssumption

LEMMA ActionTyped ==
  /\ \A c \in Cursor, s \in Seq(Char) : Insertion(c, s) \in Action /\ Deletion(c, s) \in Action
  /\ \A a \in Action : Inverted(a) \in Action
<1>1. ASSUME NEW c \in Cursor, NEW s \in Seq(Char)
      PROVE  Insertion(c, s) \in Action /\ Deletion(c, s) \in Action
  BY DEF Insertion, Deletion, Action
<1>2. ASSUME NEW a \in Action PROVE Inverted(a) \in Action
  BY DEF Inverted, Action
<1>3. QED
  BY <1>1, <1>2

LEMMA MergeTyped ==
  ASSUME NEW a \in Action, NEW b \in Action
  PROVE  Merge(a, b) \in Action
<1>1. /\ a.kind \in {"Insert", "Delete"} /\ a.position \in Cursor /\ a.text \in Seq(Char)
      /\ b.kind \in {"Insert", "Delete"} /\ b.position \in Cursor /\ b.text \in Seq(Char)
  BY DEF Action
<1>2. a.text \o b.text \in Seq(Char) /\ b.text \o a.text \in Seq(Char)
  BY <1>1, ConcatProperties
<1>3. [a EXCEPT !.text = @ \o b.text] \in Action
  BY <1>2 DEF Action
<1>4. [b EXCEPT !.text = @ \o a.text] \in Action
  BY <1>2 DEF Action
<1>5. QED
  BY <1>3, <1>4 DEF Merge

(* The three ways of a push: into the last action, at the end, and at the   *)
(* end with the oldest action dropped.                                      *)
PushMerges(d, e, action) ==
  /\ Len(d) > 0 /\ CanMerge(d[Len(d)], action) /\ Len(e) = Len(d)
  /\ \A k \in 1..Len(d) - 1 : e[k] = d[k]
  /\ e[Len(d)] = Merge(d[Len(d)], action)

PushAppends(d, e, action) ==
  /\ Len(d) <= MaxHistory /\ Len(e) = Len(d) + 1
  /\ \A k \in 1..Len(d) : e[k] = d[k]
  /\ e[Len(d) + 1] = action

PushDrops(d, e, action) ==
  /\ Len(d) = MaxHistory + 1 /\ Len(e) = Len(d)
  /\ \A k \in 1..Len(d) - 1 : e[k] = d[k + 1]
  /\ e[Len(d)] = action

(* A sequence and one more. *)
LEMMA OneMore ==
  ASSUME NEW S, NEW s \in Seq(S), NEW x \in S
  PROVE  /\ <<x>> \in Seq(S) /\ Len(<<x>>) = 1
         /\ s \o <<x>> \in Seq(S) /\ Len(s \o <<x>>) = Len(s) + 1
         /\ \A k \in 1..Len(s) : (s \o <<x>>)[k] = s[k]
         /\ (s \o <<x>>)[Len(s) + 1] = x
<1>1. <<x>> \in Seq(S) /\ Len(<<x>>) = 1
  OBVIOUS
<1>2. s \o <<x>> = Append(s, x)
  BY AppendIsConcat
<1>3. QED
  BY <1>1, <1>2, AppendProperties

LEMMA PushProperty ==
  ASSUME HistoryTyped, NEW action \in Action, Push(action)
  PROVE  /\ HistoryTyped' /\ redo_stack' = <<>>
         /\ \/ PushMerges(Done, Done', action) \/ PushAppends(Done, Done', action)
            \/ PushDrops(Done, Done', action)
<1>1. /\ Done \in Seq(Action) /\ Len(Done) \in Nat /\ Len(Done) <= MaxHistory + 1
      /\ MaxHistory \in Nat \ {0} /\ Len(undo_stack) \in Nat
  BY DoneProperty
<1>2. undo_stack \in Seq(Action) /\ pending_action \in Seq(Action)
  BY DEF HistoryTyped
<1>3. redo_stack' = <<>> /\ redo_stack' \in Seq(Action) /\ Len(redo_stack') = 0
  <2>1. redo_stack' = <<>>
    BY DEF Push
  <2>2. <<>> \in Seq(Action) /\ Len(<<>>) = 0
    BY EmptySeq
  <2>3. QED
    BY <2>1, <2>2
<1>4. Done' = undo_stack' \o pending_action'
  BY DEF Done
<1>5. CASE pending_action # <<>> /\ CanMerge(pending_action[1], action)
  <2>1. /\ Len(Done) = Len(undo_stack) + 1 /\ pending_action[1] = Done[Len(Done)]
        /\ \A k \in 1..Len(undo_stack) : undo_stack[k] = Done[k]
    BY <1>5, DoneProperty
  <2> DEFINE m == Merge(Done[Len(Done)], action)
  <2>2. m \in Action
    <3>1. Len(Done) \in 1..Len(Done)
      BY <1>1, <2>1
    <3>2. Done[Len(Done)] \in Action
      BY <3>1, DoneProperty
    <3>3. QED
      BY <3>2, MergeTyped
  <2>3. pending_action' = <<m>> /\ undo_stack' = undo_stack
    BY <1>5, <2>1 DEF Push
  <2> HIDE DEF m
  <2>4. /\ <<m>> \in Seq(Action) /\ Len(<<m>>) = 1
        /\ Done' \in Seq(Action) /\ Len(Done') = Len(undo_stack) + 1
        /\ \A k \in 1..Len(undo_stack) : Done'[k] = undo_stack[k]
        /\ Done'[Len(undo_stack) + 1] = m
    BY <1>2, <1>4, <2>2, <2>3, OneMore
  <2>5. /\ Len(Done') = Len(Done) /\ Len(Done) > 0
        /\ \A k \in 1..Len(Done) - 1 : Done'[k] = Done[k]
    BY <1>1, <2>1, <2>4
  <2>6. Done'[Len(Done)] = Merge(Done[Len(Done)], action) /\ CanMerge(Done[Len(Done)], action)
    BY <1>5, <2>1, <2>4 DEF m
  <2>7. PushMerges(Done, Done', action)
    BY <2>5, <2>6 DEF PushMerges
  <2>8. HistoryTyped'
    <3>1. undo_stack' \in Seq(Action) /\ pending_action' \in Seq(Action) /\ Len(pending_action') <= 1
      BY <1>2, <2>3, <2>4
    <3>2. Len(Done') + Len(redo_stack') <= MaxHistory + 1
      BY <1>1, <1>3, <2>5
    <3>3. QED
      BY <1>3, <3>1, <3>2 DEF HistoryTyped
  <2>9. QED
    BY <1>3, <2>7, <2>8
<1>6. CASE ~(pending_action # <<>> /\ CanMerge(pending_action[1], action))
  <2>1. pending_action' = <<action>> /\ undo_stack' = IF Len(Done) > MaxHistory THEN Tail(Done) ELSE Done
    BY <1>6 DEF Push
  <2>2. CASE Len(Done) > MaxHistory
    <3>1. undo_stack' = Tail(Done) /\ Len(Done) = MaxHistory + 1 /\ Done # <<>>
      <4>1. Done # <<>>
        BY <1>1, <2>2, EmptySeq
      <4>2. QED
        BY <1>1, <2>1, <2>2, <4>1
    <3>2. /\ undo_stack' \in Seq(Action) /\ Len(undo_stack') = Len(Done) - 1
          /\ \A k \in 1..Len(Done) - 1 : undo_stack'[k] = Done[k + 1]
      BY <1>1, <3>1, HeadTailProperties
    <3>3. /\ <<action>> \in Seq(Action) /\ Len(<<action>>) = 1
          /\ Done' \in Seq(Action) /\ Len(Done') = Len(undo_stack') + 1
          /\ \A k \in 1..Len(undo_stack') : Done'[k] = undo_stack'[k]
          /\ Done'[Len(undo_stack') + 1] = action
      <4>1. Done' = undo_stack' \o <<action>>
        BY <1>4, <2>1
      <4>2. /\ <<action>> \in Seq(Action) /\ Len(<<action>>) = 1
            /\ undo_stack' \o <<action>> \in Seq(Action)
            /\ Len(undo_stack' \o <<action>>) = Len(undo_stack') + 1
            /\ \A k \in 1..Len(undo_stack') : (undo_stack' \o <<action>>)[k] = undo_stack'[k]
            /\ (undo_stack' \o <<action>>)[Len(undo_stack') + 1] = action
        BY <3>2, OneMore
      <4>3. QED
        BY <4>1, <4>2
    <3>4. Len(Done') = Len(Done) /\ Done'[Len(Done)] = action
      BY <1>1, <3>2, <3>3
    <3>5. \A k \in 1..Len(Done) - 1 : Done'[k] = Done[k + 1]
      BY <1>1, <3>2, <3>3
    <3>6. PushDrops(Done, Done', action)
      BY <3>1, <3>4, <3>5 DEF PushDrops
    <3>7. HistoryTyped'
      <4>1. pending_action' \in Seq(Action) /\ Len(pending_action') <= 1
        BY <2>1, <3>3
      <4>2. Len(Done') + Len(redo_stack') <= MaxHistory + 1
        BY <1>1, <1>3, <3>4
      <4>3. QED
        BY <1>3, <3>2, <4>1, <4>2 DEF HistoryTyped
    <3>8. QED
      BY <1>3, <3>6, <3>7
  <2>3. CASE ~(Len(Done) > MaxHistory)
    <3>1. undo_stack' = Done /\ Len(Done) <= MaxHistory
      BY <1>1, <2>1, <2>3
    <3>2. /\ <<action>> \in Seq(Action) /\ Len(<<action>>) = 1
          /\ Done' \in Seq(Action) /\ Len(Done') = Len(Done) + 1
          /\ \A k \in 1..Len(Done) : Done'[k] = Done[k]
          /\ Done'[Len(Done) + 1] = action
      <4>1. Done' = Done \o <<action>>
        BY <1>4, <2>1, <3>1
      <4>2. /\ <<action>> \in Seq(Action) /\ Len(<<action>>) = 1
            /\ Done \o <<action>> \in Seq(Action)
            /\ Len(Done \o <<action>>) = Len(Done) + 1
            /\ \A k \in 1..Len(Done) : (Done \o <<action>>)[k] = Done[k]
            /\ (Done \o <<action>>)[Len(Done) + 1] = action
        BY <1>1, OneMore
      <4>3. QED
        BY <4>1, <4>2
    <3>3. PushAppends(Done, Done', action)
      BY <3>1, <3>2 DEF PushAppends
    <3>4. HistoryTyped'
      <4>1. undo_stack' \in Seq(Action) /\ pending_action' \in Seq(Action) /\ Len(pending_action') <= 1
        BY <1>1, <2>1, <3>1, <3>2
      <4>2. Len(Done') + Len(redo_stack') <= MaxHistory + 1
        BY <1>1, <1>3, <3>1, <3>2
      <4>3. QED
        BY <1>3, <4>1, <4>2 DEF HistoryTyped
    <3>5. QED
      BY <1>3, <3>3, <3>4
  <2>4. QED
    BY <2>2, <2>3
<1>7. QED
  BY <1>5, <1>6

LEMMA NoPending ==
  ASSUME undo_stack' \in Seq(Action), pending_action' = <<>>
  PROVE  Done' = undo_stack' /\ pending_action' \in Seq(Action) /\ Len(pending_action') <= 1
<1>1. Done' = undo_stack' \o pending_action'
  BY DEF Done
<1>2. undo_stack' \o <<>> = undo_stack'
  BY ConcatEmptySeq
<1>3. <<>> \in Seq(Action) /\ Len(<<>>) = 0
  BY EmptySeq
<1>4. QED
  BY <1>1, <1>2, <1>3

LEMMA PopUndoProperty ==
  ASSUME HistoryTyped, PopUndo
  PROVE  /\ HistoryTyped'
         /\ Done # <<>> /\ Len(Done) > 0 /\ Last(Done) \in Action /\ Last(Done) = Done[Len(Done)]
         /\ Len(Done') = Len(Done) - 1
         /\ \A k \in 1..Len(Done) - 1 : Done'[k] = Done[k]
         /\ Len(redo_stack') = Len(redo_stack) + 1
         /\ \A k \in 1..Len(redo_stack) : redo_stack'[k] = redo_stack[k]
         /\ redo_stack'[Len(redo_stack) + 1] = Last(Done)
<1>1. /\ Done \in Seq(Action) /\ Len(Done) \in Nat /\ Len(redo_stack) \in Nat
      /\ redo_stack \in Seq(Action) /\ Len(Done) + Len(redo_stack) <= MaxHistory + 1
  BY DoneProperty DEF HistoryTyped
<1>2. /\ Done # <<>> /\ undo_stack' = Front(Done) /\ pending_action' = <<>>
      /\ redo_stack' = Append(redo_stack, Last(Done))
  BY DEF PopUndo
<1>3. /\ Len(Done) \in Nat \ {0} /\ Last(Done) \in Action
      /\ Front(Done) \in Seq(Action) /\ Len(Front(Done)) = Len(Done) - 1
      /\ \A k \in 1..Len(Done) - 1 : Front(Done)[k] = Done[k]
  BY <1>1, <1>2, FrontProperty
<1>4. Done' = Front(Done) /\ pending_action' \in Seq(Action) /\ Len(pending_action') <= 1
  BY <1>2, <1>3, NoPending
<1>5. /\ redo_stack' \in Seq(Action) /\ Len(redo_stack') = Len(redo_stack) + 1
      /\ \A k \in 1..Len(redo_stack) : redo_stack'[k] = redo_stack[k]
      /\ redo_stack'[Len(redo_stack) + 1] = Last(Done)
  BY <1>1, <1>2, <1>3, AppendProperties
<1>6. HistoryTyped'
  <2>1. undo_stack' \in Seq(Action)
    BY <1>2, <1>3
  <2>2. Len(Done') + Len(redo_stack') <= MaxHistory + 1
    BY <1>1, <1>3, <1>4, <1>5, HistoryAssumption
  <2>3. QED
    BY <1>4, <1>5, <2>1, <2>2 DEF HistoryTyped
<1>7. QED
  BY <1>2, <1>3, <1>4, <1>5, <1>6 DEF Last

LEMMA PopRedoProperty ==
  ASSUME HistoryTyped, PopRedo
  PROVE  /\ HistoryTyped'
         /\ redo_stack # <<>> /\ Len(redo_stack) > 0
         /\ Last(redo_stack) \in Action /\ Last(redo_stack) = redo_stack[Len(redo_stack)]
         /\ Len(redo_stack') = Len(redo_stack) - 1
         /\ \A k \in 1..Len(redo_stack) - 1 : redo_stack'[k] = redo_stack[k]
         /\ Len(Done') = Len(Done) + 1
         /\ \A k \in 1..Len(Done) : Done'[k] = Done[k]
         /\ Done'[Len(Done) + 1] = Last(redo_stack)
<1>1. /\ Done \in Seq(Action) /\ Len(Done) \in Nat /\ Len(redo_stack) \in Nat
      /\ redo_stack \in Seq(Action) /\ Len(Done) + Len(redo_stack) <= MaxHistory + 1
  BY DoneProperty DEF HistoryTyped
<1>2. /\ redo_stack # <<>> /\ undo_stack' = Append(Done, Last(redo_stack)) /\ pending_action' = <<>>
      /\ redo_stack' = Front(redo_stack)
  BY DEF PopRedo
<1>3. /\ Len(redo_stack) \in Nat \ {0} /\ Last(redo_stack) \in Action
      /\ Front(redo_stack) \in Seq(Action) /\ Len(Front(redo_stack)) = Len(redo_stack) - 1
      /\ \A k \in 1..Len(redo_stack) - 1 : Front(redo_stack)[k] = redo_stack[k]
  BY <1>1, <1>2, FrontProperty
<1>4. /\ undo_stack' \in Seq(Action) /\ Len(undo_stack') = Len(Done) + 1
      /\ \A k \in 1..Len(Done) : undo_stack'[k] = Done[k]
      /\ undo_stack'[Len(Done) + 1] = Last(redo_stack)
  BY <1>1, <1>2, <1>3, AppendProperties
<1>5. Done' = undo_stack' /\ pending_action' \in Seq(Action) /\ Len(pending_action') <= 1
  BY <1>2, <1>4, NoPending
<1>6. HistoryTyped'
  <2>1. redo_stack' \in Seq(Action) /\ Len(redo_stack') = Len(redo_stack) - 1
    BY <1>2, <1>3
  <2>2. Len(Done') + Len(redo_stack') <= MaxHistory + 1
    BY <1>1, <1>4, <1>5, <2>1, HistoryAssumption
  <2>3. QED
    BY <1>4, <1>5, <2>1, <2>2 DEF HistoryTyped
<1>7. QED
  BY <1>2, <1>3, <1>4, <1>5, <1>6 DEF Last

LEMMA CommitProperty ==
  ASSUME HistoryTyped, CommitPending
  PROVE  HistoryTyped' /\ Done' = Done /\ redo_stack' = redo_stack
<1>1. Done \in Seq(Action) /\ redo_stack \in Seq(Action) /\ Len(Done) + Len(redo_stack) <= MaxHistory + 1
  BY DoneProperty DEF HistoryTyped
<1>2. undo_stack' = Done /\ pending_action' = <<>> /\ redo_stack' = redo_stack
  BY DEF CommitPending
<1>3. Done' = Done /\ pending_action' \in Seq(Action) /\ Len(pending_action') <= 1
  BY <1>1, <1>2, NoPending
<1>4. QED
  BY <1>1, <1>2, <1>3 DEF HistoryTyped

-----------------------------------------------------------------------------
(***************************************************************************)
(* The changes a server applies, one after the other.                      *)
(***************************************************************************)
(* What holds of 0, and of each number when it holds of the one before. *)
LEMMA Upward ==
  ASSUME NEW T \in SUBSET Nat, 0 \in T, \A n \in Nat \ {0} : n - 1 \in T => n \in T
  PROVE  T = Nat
<1>1. SUFFICES ASSUME Nat \ T # {} PROVE FALSE
  OBVIOUS
<1>2. PICK m \in Nat \ T : \A y \in Nat \ T : m <= y
  BY <1>1, Least
<1>3. m \in Nat \ {0} /\ m - 1 \in Nat /\ ~(m <= m - 1)
  OBVIOUS
<1>4. m - 1 \in T
  BY <1>2, <1>3
<1>5. QED
  BY <1>2, <1>3, <1>4

IsApplied(g, t, cs, n) ==
  g = [k \in 0..n |-> IF k = 0 THEN t ELSE AppliedTo(cs[k])[g[k - 1]]]

LEMMA AppliedExists ==
  ASSUME NEW t, NEW cs
  PROVE  \A n \in Nat : \E g : IsApplied(g, t, cs, n)
<1> DEFINE T == {n \in Nat : \E g : IsApplied(g, t, cs, n)}
<1>1. 0 \in T
  <2>1. IsApplied([k \in 0..0 |-> t], t, cs, 0)
    BY DEF IsApplied
  <2>2. QED
    BY <2>1
<1>2. ASSUME NEW n \in Nat \ {0}, n - 1 \in T
      PROVE  n \in T
  <2>1. PICK h : IsApplied(h, t, cs, n - 1)
    BY <1>2
  <2> DEFINE g == [k \in 0..n |-> IF k = n THEN AppliedTo(cs[n])[h[n - 1]] ELSE h[k]]
  <2>2. \A k \in 0..n - 1 : h[k] = IF k = 0 THEN t ELSE AppliedTo(cs[k])[h[k - 1]]
    BY <2>1 DEF IsApplied
  <2>3. ASSUME NEW k \in 0..n PROVE g[k] = IF k = 0 THEN t ELSE AppliedTo(cs[k])[g[k - 1]]
    <3>1. CASE k = n
      <4>1. n - 1 \in 0..n /\ n - 1 # n /\ n # 0
        OBVIOUS
      <4>2. g[n] = AppliedTo(cs[n])[h[n - 1]] /\ g[n - 1] = h[n - 1]
        BY <4>1
      <4>3. QED
        BY <3>1, <4>1, <4>2
    <3>2. CASE k = 0
      <4>1. 0 \in 0..n - 1 /\ 0 \in 0..n /\ 0 # n
        OBVIOUS
      <4>2. g[0] = h[0] /\ h[0] = t
        BY <2>2, <4>1
      <4>3. QED
        BY <3>2, <4>2
    <3>3. CASE k # n /\ k # 0
      <4>1. k \in 0..n - 1 /\ k - 1 \in 0..n /\ k - 1 # n
        BY <3>3
      <4>2. g[k] = h[k] /\ g[k - 1] = h[k - 1]
        BY <3>3, <4>1
      <4>3. QED
        BY <2>2, <3>3, <4>1, <4>2
    <3>4. QED
      BY <3>1, <3>2, <3>3
  <2>4. g = [k \in 0..n |-> g[k]]
    OBVIOUS
  <2> HIDE DEF g
  <2>5. IsApplied(g, t, cs, n)
    BY <2>3, <2>4 DEF IsApplied
  <2>6. QED
    BY <2>5
<1> HIDE DEF T
<1>3. T = Nat
  BY <1>1, <1>2, Upward DEF T
<1>4. QED
  BY <1>3 DEF T

(* What comes of a common beginning of two lists of changes is the same. *)
LEMMA AppliedUnique ==
  ASSUME NEW t, NEW cs, NEW ds, NEW n \in Nat, NEW m \in Nat, n <= m,
         \A k \in 1..n : cs[k] = ds[k],
         NEW g, NEW h, IsApplied(g, t, cs, n), IsApplied(h, t, ds, m)
  PROVE  /\ g[n] = h[n]
         /\ n = m => g = h
<1> DEFINE T == {k \in Nat : k <= n => g[k] = h[k]}
<1>1. /\ \A k \in 0..n : g[k] = IF k = 0 THEN t ELSE AppliedTo(cs[k])[g[k - 1]]
      /\ \A k \in 0..m : h[k] = IF k = 0 THEN t ELSE AppliedTo(ds[k])[h[k - 1]]
  BY DEF IsApplied
<1>2. 0 \in T
  BY <1>1
<1>3. ASSUME NEW k \in Nat \ {0}, k - 1 \in T
      PROVE  k \in T
  <2>1. SUFFICES ASSUME k <= n PROVE g[k] = h[k]
    OBVIOUS
  <2>2. g[k - 1] = h[k - 1] /\ k \in 0..n /\ k \in 0..m /\ k # 0 /\ k \in 1..n
    BY <1>3, <2>1
  <2>3. cs[k] = ds[k]
    BY <2>2
  <2>4. QED
    BY <1>1, <2>2, <2>3
<1> HIDE DEF T
<1>4. T = Nat
  BY <1>2, <1>3, Upward DEF T
<1>5. \A k \in 0..n : g[k] = h[k]
  BY <1>4 DEF T
<1>6. g[n] = h[n]
  BY <1>5
<1>7. ASSUME n = m PROVE g = h
  <2>1. /\ DOMAIN g = 0..n /\ DOMAIN h = 0..n
        /\ g = [k \in 0..n |-> g[k]] /\ h = [k \in 0..n |-> h[k]]
    BY <1>7 DEF IsApplied
  <2>2. QED
    BY <1>5, <2>1
<1>8. QED
  BY <1>6, <1>7

LEMMA AppliedIs ==
  ASSUME NEW t, NEW cs, Len(cs) \in Nat, NEW g, IsApplied(g, t, cs, Len(cs))
  PROVE  Applied(t, cs) = g[Len(cs)]
<1>1. \A h : IsApplied(h, t, cs, Len(cs)) => h = g
  <2>1. ASSUME NEW h, IsApplied(h, t, cs, Len(cs)) PROVE h = g
    BY <2>1, AppliedUnique
  <2>2. QED
    BY <2>1
<1>2. \A h : h = [k \in 0..Len(cs) |-> IF k = 0 THEN t ELSE AppliedTo(cs[k])[h[k - 1]]]
             <=> IsApplied(h, t, cs, Len(cs))
  BY DEF IsApplied
<1>3. QED
  BY <1>1, <1>2 DEF Applied

LEMMA AppliedNone == \A t : Applied(t, <<>>) = t
<1>1. ASSUME NEW t PROVE Applied(t, <<>>) = t
  <2>1. Len(<<>>) = 0 /\ 0 \in Nat
    OBVIOUS
  <2>2. PICK g : IsApplied(g, t, <<>>, 0)
    BY <2>1, AppliedExists
  <2>3. g[0] = t
    BY <2>2 DEF IsApplied
  <2>4. Applied(t, <<>>) = g[0]
    BY <2>1, <2>2, AppliedIs
  <2>5. QED
    BY <2>3, <2>4
<1>2. QED
  BY <1>1

LEMMA AppliedOneMore ==
  ASSUME NEW S, NEW t, NEW cs \in Seq(S), NEW c \in S
  PROVE  Applied(t, Append(cs, c)) = AppliedTo(c)[Applied(t, cs)]
<1> DEFINE ds == Append(cs, c)
           n == Len(cs)
<1>1. /\ n \in Nat /\ Len(ds) = n + 1
      /\ \A k \in 1..n : cs[k] = ds[k]
      /\ ds[n + 1] = c
  BY LenProperties, AppendProperties
<1> HIDE DEF ds
<1>2. PICK g : IsApplied(g, t, cs, n)
  BY <1>1, AppliedExists
<1>0. n + 1 \in Nat
  BY <1>1
<1>3. PICK h : IsApplied(h, t, ds, n + 1)
  BY <1>0, AppliedExists
<1>4. Applied(t, cs) = g[n]
  BY <1>1, <1>2, AppliedIs
<1>5. Applied(t, ds) = h[n + 1]
  BY <1>1, <1>3, AppliedIs
<1>6. g[n] = h[n]
  <2>1. n + 1 \in Nat /\ n <= n + 1
    BY <1>1
  <2> HIDE DEF n
  <2>2. QED
    BY <1>1, <1>2, <1>3, <2>1, AppliedUnique
<1>7. h[n + 1] = AppliedTo(c)[h[n]]
  <2>1. n + 1 \in 0..n + 1 /\ n + 1 # 0 /\ n + 1 - 1 = n
    BY <1>1
  <2>2. h[n + 1] = IF n + 1 = 0 THEN t ELSE AppliedTo(ds[n + 1])[h[n + 1 - 1]]
    BY <1>3, <2>1 DEF IsApplied
  <2>3. QED
    BY <1>1, <2>1, <2>2
<1>8. QED
  BY <1>4, <1>5, <1>6, <1>7 DEF ds

-----------------------------------------------------------------------------
(***************************************************************************)
(* Types, and the server's copy.                                           *)
(***************************************************************************)
LspTyped ==
  /\ lsp_changes \in Seq(LspChangeType) /\ Len(lsp_changes) <= MaxPendingLsp
  /\ lsp_needs_full_sync \in BOOLEAN
  /\ pending_change \in BOOLEAN
  /\ server \in Seq(Char)

LEMMA TypeOKParts ==
  TypeOK <=> /\ text \in Seq(Char) /\ HistoryTyped /\ cursor \in CursorsOf(text)
             /\ panicked \in BOOLEAN /\ edits \in 0..MaxEdits /\ LspTyped
BY DEF TypeOK, HistoryTyped, LspTyped

(* An edit of the rope, and what is recorded of it. *)
LEMMA ReplaceRangeProperty ==
  ASSUME text \in Seq(Char), LspTyped, LspMirror,
         NEW i \in 0..Len(text), NEW j \in i..Len(text), NEW s \in Seq(Char),
         ReplaceRange(i, j, s), server' = server
  PROVE  /\ text' = Replace(text, i, j, s) /\ text' \in Seq(Char)
         /\ LspTyped' /\ LspMirror'
<1>1. text' = Replace(text, i, j, s) /\ RecordLspChange(i, j, s) /\ MarkChanged
  BY DEF ReplaceRange
<1>2. text' \in Seq(Char)
  BY <1>1, ReplaceProperty DEF Spliced
<1>3. pending_change' \in BOOLEAN
  BY <1>1 DEF MarkChanged
<1>4. lsp_changes \in Seq(LspChangeType) /\ Len(lsp_changes) \in Nat /\ Len(lsp_changes) <= MaxPendingLsp
      /\ lsp_needs_full_sync \in BOOLEAN /\ server \in Seq(Char) /\ MaxPendingLsp \in Nat \ {0}
  BY LenProperties, BufferAssumption DEF LspTyped
<1> DEFINE change == LspChange(text, i, j, s)
<1>5. /\ change \in LspChangeType
      /\ LspOffset(text, change.start) = i /\ LspOffset(text, change.end) = j /\ change.text = s
  <2>1. j \in 0..Len(text)
    BY LenProperties
  <2>2. /\ LspPosition(text, i) \in Cursor /\ LspOffset(text, LspPosition(text, i)) = i
        /\ LspPosition(text, j) \in Cursor /\ LspOffset(text, LspPosition(text, j)) = j
    BY <2>1, LspRoundTrip
  <2>3. change = [start |-> LspPosition(text, i), end |-> LspPosition(text, j), text |-> s]
    BY DEF LspChange
  <2> HIDE DEF change
  <2>4. change \in LspChangeType
    BY <2>2, <2>3 DEF LspChangeType
  <2>5. QED
    BY <2>2, <2>3, <2>4
<1> HIDE DEF change
<1>6. CASE lsp_needs_full_sync
  <2>1. lsp_changes' = lsp_changes /\ lsp_needs_full_sync' = lsp_needs_full_sync
    BY <1>1, <1>6 DEF RecordLspChange, lspVars
  <2>2. LspMirror'
    BY <1>6, <2>1 DEF LspMirror
  <2>3. QED
    BY <1>1, <1>2, <1>3, <1>4, <2>1, <2>2 DEF LspTyped
<1>7. CASE ~lsp_needs_full_sync /\ Len(lsp_changes) >= MaxPendingLsp
  <2>1. lsp_changes' = <<>> /\ lsp_needs_full_sync' = TRUE
    BY <1>1, <1>7 DEF RecordLspChange
  <2>2. <<>> \in Seq(LspChangeType) /\ Len(<<>>) <= MaxPendingLsp
    BY <1>4, EmptySeq
  <2>3. LspMirror'
    BY <2>1 DEF LspMirror
  <2>4. QED
    BY <1>1, <1>2, <1>3, <1>4, <2>1, <2>2, <2>3 DEF LspTyped
<1>8. CASE ~lsp_needs_full_sync /\ ~(Len(lsp_changes) >= MaxPendingLsp)
  <2>1. lsp_changes' = Append(lsp_changes, change) /\ lsp_needs_full_sync' = lsp_needs_full_sync
    BY <1>1, <1>8 DEF RecordLspChange, change
  <2>2. lsp_changes' \in Seq(LspChangeType) /\ Len(lsp_changes') = Len(lsp_changes) + 1
    BY <1>4, <1>5, <2>1, AppendProperties
  <2>3. Len(lsp_changes') <= MaxPendingLsp
    BY <1>4, <1>8, <2>2
  <2>4. Applied(server, lsp_changes) = text
    BY <1>8 DEF LspMirror
  <2>5. Applied(server, Append(lsp_changes, change)) = AppliedTo(change)[Applied(server, lsp_changes)]
    BY <1>4, <1>5, AppliedOneMore
  <2>6. Applied(server, Append(lsp_changes, change)) = text'
    BY <1>1, <1>5, <2>4, <2>5 DEF AppliedTo
  <2>7. Applied(server', lsp_changes') = text'
    BY <2>1, <2>6
  <2>8. LspMirror'
    BY <2>7 DEF LspMirror
  <2>9. QED
    BY <1>1, <1>2, <1>3, <1>4, <2>1, <2>2, <2>3, <2>8 DEF LspTyped
<1>9. QED
  BY <1>6, <1>7, <1>8

(* An edit of the user's. *)
LEMMA UserEditProperty ==
  ASSUME TypeOK, LspMirror,
         NEW i \in 0..Len(text), NEW j \in i..Len(text), NEW s \in Seq(Char), NEW action \in Action,
         UserEdit(i, j, s, action)
  PROVE  /\ text' = Replace(text, i, j, s) /\ text' \in Seq(Char) /\ HistoryTyped'
         /\ LspTyped' /\ LspMirror' /\ panicked' \in BOOLEAN /\ edits' \in 0..MaxEdits
<1>1. /\ ReplaceRange(i, j, s) /\ Push(action) /\ panicked' = panicked /\ server' = server
      /\ MayEdit
  BY DEF UserEdit
<1>2. /\ text \in Seq(Char) /\ HistoryTyped /\ panicked \in BOOLEAN /\ edits \in 0..MaxEdits /\ LspTyped
  BY TypeOKParts
<1>3. /\ text' = Replace(text, i, j, s) /\ text' \in Seq(Char)
      /\ LspTyped' /\ LspMirror'
  BY <1>1, <1>2, ReplaceRangeProperty
<1>4. HistoryTyped'
  BY <1>1, <1>2, PushProperty
<1>5. edits' \in 0..MaxEdits
  BY <1>1, <1>2, BufferAssumption DEF MayEdit
<1>6. QED
  BY <1>1, <1>2, <1>3, <1>4, <1>5

LEMMA TypeOKNext ==
  ASSUME text' \in Seq(Char), HistoryTyped', cursor' \in CursorsOf(text'),
         panicked' \in BOOLEAN, edits' \in 0..MaxEdits, LspTyped'
  PROVE  TypeOK'
BY DEF TypeOK, HistoryTyped, LspTyped

Inv == TypeOK /\ LspMirror

(* What is typed or pasted. *)
LEMMA InsertProperty ==
  ASSUME Inv, NEW c \in CursorsOf(text), NEW s \in Insertions, Insert(c, s)
  PROVE  /\ c \in Cursor /\ s \in Seq(Char) /\ s # <<>> /\ CharIdx(text, c) \in 0..Len(text)
         /\ text' = Replace(text, CharIdx(text, c), CharIdx(text, c), s)
         /\ Push(Insertion(c, s)) /\ Insertion(c, s) \in Action
         /\ Inv'
<1> DEFINE i == CharIdx(text, c)
<1>1. i \in 0..Len(text) /\ i \in i..Len(text) /\ c \in Cursor /\ s \in Seq(Char) /\ s # <<>>
  <2>1. text \in Seq(Char)
    BY DEF Inv, TypeOK
  <2>2. i \in 0..Len(text) /\ Len(text) \in Nat /\ c \in Cursor
    BY <2>1, CursorPlace, LenProperties, CursorsOfProperty
  <2>3. QED
    BY <2>2, BufferAssumption
<1>2. UserEdit(i, i, s, Insertion(c, s)) /\ cursor' = ClampCursor(text', AdvanceCursor(c, s))
  BY DEF Insert
<1> HIDE DEF i
<1>3. Insertion(c, s) \in Action
  BY <1>1, ActionTyped
<1>4. /\ text' = Replace(text, i, i, s) /\ text' \in Seq(Char) /\ HistoryTyped'
      /\ LspTyped' /\ LspMirror' /\ panicked' \in BOOLEAN /\ edits' \in 0..MaxEdits
  BY <1>1, <1>2, <1>3, UserEditProperty DEF Inv
<1>5. cursor' \in CursorsOf(text')
  <2>1. AdvanceCursor(c, s) \in Cursor
    BY <1>1, AdvanceTyped
  <2>2. QED
    BY <1>2, <1>4, <2>1, ClampProperty
<1>6. Inv'
  BY <1>4, <1>5, TypeOKNext DEF Inv
<1>7. Push(Insertion(c, s))
  BY <1>2 DEF UserEdit
<1>8. QED
  BY <1>1, <1>3, <1>4, <1>6, <1>7 DEF i

(* Text taken away between two places of the text, the cursor ending up at  *)
(* the first: the cursor is still one.                                      *)
LEMMA RemovalKeeps ==
  ASSUME text \in Seq(Char), NEW c \in CursorsOf(text), NEW j \in CharIdx(text, c)..Len(text),
         text' = Replace(text, CharIdx(text, c), j, <<>>)
  PROVE  c \in CursorsOf(text')
<1> DEFINE i == CharIdx(text, c)
<1>1. i \in 0..Len(text) /\ Len(text) \in Nat /\ <<>> \in Seq(Char) /\ Len(<<>>) = 0
  BY CursorPlace, LenProperties, EmptySeq
<1>2. Spliced(text, i, j, <<>>, text')
  BY <1>1, ReplaceProperty
<1>3. text' \in Seq(Char) /\ i \in 0..Len(text') /\ \A k \in 1..i : text[k] = text'[k]
  <2>1. text' \in Seq(Char) /\ Len(text') = i + 0 + Len(text) - j /\ \A k \in 1..i : text'[k] = text[k]
    BY <1>1, <1>2 DEF Spliced
  <2> HIDE DEF i
  <2>2. j \in i..Len(text)
    BY DEF i
  <2>3. QED
    BY <1>1, <2>1, <2>2
<1>4. QED
  BY <1>3, CursorKept

LEMMA OneCharacter ==
  ASSUME NEW t \in Seq(Char), NEW i \in 0..Len(t) - 1
  PROVE  /\ i + 1 \in i..Len(t) /\ i \in 0..Len(t)
         /\ <<t[i + 1]>> \in Seq(Char) /\ SubSeq(t, i + 1, i + 1) = <<t[i + 1]>>
<1>1. Len(t) \in Nat /\ i + 1 \in 1..Len(t) /\ i + 1 \in i..Len(t) /\ i \in 0..Len(t)
  BY LenProperties
<1>2. t[i + 1] \in Char
  BY <1>1, ElementOfSeq
<1>3. <<t[i + 1]>> \in Seq(Char) /\ Len(<<t[i + 1]>>) = 1
  BY <1>2
<1>4. /\ SubSeq(t, i + 1, i + 1) \in Seq(Char)
      /\ Len(SubSeq(t, i + 1, i + 1)) = 1
      /\ SubSeq(t, i + 1, i + 1)[1] = t[i + 1]
  <2>1. \A k \in i + 1..i + 1 : t[k] \in Char
    BY <1>1, <1>2
  <2>2. /\ SubSeq(t, i + 1, i + 1) \in Seq(Char)
        /\ Len(SubSeq(t, i + 1, i + 1)) = IF i + 1 <= i + 1 THEN (i + 1) - (i + 1) + 1 ELSE 0
        /\ \A k \in 1..(i + 1) - (i + 1) + 1 : SubSeq(t, i + 1, i + 1)[k] = t[(i + 1) + k - 1]
    BY <1>1, <2>1, SubSeqProperties
  <2>3. (i + 1) - (i + 1) + 1 = 1 /\ i + 1 <= i + 1 /\ (i + 1) + 1 - 1 = i + 1 /\ 1 \in 1..1
    BY <1>1
  <2>4. QED
    BY <2>2, <2>3, Zenon
<1>5. SubSeq(t, i + 1, i + 1) = <<t[i + 1]>>
  <2>1. <<t[i + 1]>>[1] = t[i + 1]
    OBVIOUS
  <2> DEFINE a == SubSeq(t, i + 1, i + 1)
             b == <<t[i + 1]>>
  <2>2. /\ a \in Seq(Char) /\ b \in Seq(Char) /\ Len(a) = 1 /\ Len(b) = 1 /\ a[1] = b[1]
    BY <1>3, <1>4, <2>1
  <2> HIDE DEF a, b
  <2>3. a = b
    <3>1. \A k \in 1..Len(a) : a[k] = b[k]
      BY <2>2
    <3>2. QED
      BY <2>2, <3>1, SeqEqual
  <2>4. QED
    BY <2>3 DEF a, b
<1>6. QED
  BY <1>1, <1>3, <1>5

(* An edit that takes away the text from i to j, recorded at p. *)
Removes(i, j, p) ==
  /\ i \in 0..Len(text) /\ j \in i..Len(text) /\ i < j /\ p \in CursorsOf(text)
  /\ text' = Replace(text, i, j, <<>>)
  /\ Push(Deletion(p, SubSeq(text, i + 1, j)))
  /\ Deletion(p, SubSeq(text, i + 1, j)) \in Action

LEMMA RemovalProperty ==
  ASSUME Inv, NEW i \in 0..Len(text), NEW j \in i..Len(text), i < j, NEW p \in CursorsOf(text),
         UserEdit(i, j, <<>>, Deletion(p, SubSeq(text, i + 1, j))),
         text' \in Seq(Char) => cursor' \in CursorsOf(text')
  PROVE  Removes(i, j, p) /\ Inv'
<1>1. <<>> \in Seq(Char) /\ text \in Seq(Char) /\ p \in Cursor
  BY EmptySeq, CursorsOfProperty DEF Inv, TypeOK
<1> DEFINE action == Deletion(p, SubSeq(text, i + 1, j))
<1>2. action \in Action
  <2>1. SubSeq(text, i + 1, j) \in Seq(Char)
    BY <1>1, InsertRemoved
  <2>2. QED
    BY <1>1, <2>1, ActionTyped
<1> HIDE DEF action
<1>3. UserEdit(i, j, <<>>, action)
  BY DEF action
<1>4. /\ text' = Replace(text, i, j, <<>>) /\ text' \in Seq(Char) /\ HistoryTyped'
      /\ LspTyped' /\ LspMirror' /\ panicked' \in BOOLEAN /\ edits' \in 0..MaxEdits
  BY <1>1, <1>2, <1>3, UserEditProperty DEF Inv
<1>5. Inv'
  BY <1>4, TypeOKNext DEF Inv
<1>6. Push(action)
  BY <1>3 DEF UserEdit
<1>7. QED
  BY <1>2, <1>4, <1>5, <1>6 DEF Removes, action

LEMMA DeleteCharProperty ==
  ASSUME Inv, NEW c \in CursorsOf(text), DeleteChar(c)
  PROVE  Removes(CharIdx(text, c), CharIdx(text, c) + 1, c) /\ Inv'
<1> DEFINE i == CharIdx(text, c)
<1>1. text \in Seq(Char) /\ i \in 0..Len(text) /\ Len(text) \in Nat
  <2>1. text \in Seq(Char)
    BY DEF Inv, TypeOK
  <2>2. QED
    BY <2>1, CursorPlace, LenProperties
<1>2. i < Len(text) /\ UserEdit(i, i + 1, <<>>, Deletion(c, <<text[i + 1]>>)) /\ cursor' = c
  BY DEF DeleteChar
<1> HIDE DEF i
<1>3. i \in 0..Len(text) - 1 /\ i < i + 1
  BY <1>1, <1>2
<1>4. i + 1 \in i..Len(text) /\ SubSeq(text, i + 1, i + 1) = <<text[i + 1]>>
  BY <1>1, <1>3, OneCharacter
<1>5. text' = Replace(text, i, i + 1, <<>>)
  BY <1>2 DEF UserEdit, ReplaceRange
<1>6. cursor' \in CursorsOf(text')
  BY <1>1, <1>2, <1>4, <1>5, RemovalKeeps DEF i
<1>7. QED
  BY <1>1, <1>2, <1>3, <1>4, <1>6, RemovalProperty DEF i

LEMMA BackspaceProperty ==
  ASSUME Inv, NEW c \in CursorsOf(text), Backspace(c)
  PROVE  /\ CharIdx(text, c) > 0
         /\ Removes(CharIdx(text, c) - 1, CharIdx(text, c), GraphemeBefore(c)) /\ Inv'
<1> DEFINE i == CharIdx(text, c)
           p == GraphemeBefore(c)
<1>1. text \in Seq(Char) /\ i \in 0..Len(text) /\ Len(text) \in Nat
  <2>1. text \in Seq(Char)
    BY DEF Inv, TypeOK
  <2>2. QED
    BY <2>1, CursorPlace, LenProperties
<1>2. /\ i > 0 /\ UserEdit(i - 1, i, <<>>, Deletion(p, <<text[i]>>))
      /\ cursor' = ClampCursor(text', p)
  BY DEF Backspace
<1>3. p \in CursorsOf(text) /\ p \in Cursor
  BY <1>1, <1>2, GraphemeBeforeTyped, CursorsOfProperty
<1> HIDE DEF i, p
<1>4. i - 1 \in 0..Len(text) - 1 /\ i - 1 + 1 = i /\ i - 1 < i
  BY <1>1, <1>2
<1>5. i \in i - 1..Len(text) /\ i - 1 \in 0..Len(text) /\ SubSeq(text, i - 1 + 1, i) = <<text[i]>>
  <2>1. i - 1 + 1 \in i - 1..Len(text) /\ SubSeq(text, i - 1 + 1, i - 1 + 1) = <<text[i - 1 + 1]>>
    BY <1>1, <1>4, OneCharacter
  <2>2. QED
    BY <1>1, <1>2, <1>4, <2>1
<1>6. text' \in Seq(Char) => cursor' \in CursorsOf(text')
  BY <1>2, <1>3, ClampProperty
<1>7. UserEdit(i - 1, i, <<>>, Deletion(p, SubSeq(text, i - 1 + 1, i)))
  BY <1>2, <1>5
<1>8. Removes(i - 1, i, p) /\ Inv'
  BY <1>3, <1>4, <1>5, <1>6, <1>7, RemovalProperty
<1>9. QED
  BY <1>2, <1>8 DEF i, p

LEMMA DeleteRangeProperty ==
  ASSUME Inv, NEW c \in CursorsOf(text), NEW end \in CursorsOf(text), DeleteRange(c, end)
  PROVE  Removes(CharIdx(text, c), CharIdx(text, end), c) /\ Inv'
<1> DEFINE i == CharIdx(text, c)
           j == CharIdx(text, end)
<1>1. text \in Seq(Char) /\ i \in 0..Len(text) /\ j \in 0..Len(text) /\ Len(text) \in Nat
  <2>1. text \in Seq(Char)
    BY DEF Inv, TypeOK
  <2>2. QED
    BY <2>1, CursorPlace, LenProperties
<1>2. i < j /\ UserEdit(i, j, <<>>, Deletion(c, SubSeq(text, i + 1, j))) /\ cursor' = c
  BY DEF DeleteRange
<1>3. text' = Replace(text, i, j, <<>>)
  BY <1>2 DEF UserEdit, ReplaceRange
<1> HIDE DEF j
<1>4. j \in CharIdx(text, c)..Len(text) /\ i < j
  BY <1>1, <1>2
<1>5. cursor' \in CursorsOf(text')
  BY <1>1, <1>2, <1>3, <1>4, RemovalKeeps
<1> HIDE DEF i
<1>6. j \in i..Len(text)
  BY <1>1, <1>2
<1>7. Removes(i, j, c) /\ Inv'
  BY <1>1, <1>2, <1>5, <1>6, RemovalProperty
<1>8. QED
  BY <1>7 DEF i, j

(* An action applied to the text. *)
Applies(action) ==
  LET i == CharIdx(text, action.position)
      j == IF action.kind = "Insert" THEN i ELSE i + Len(action.text)
      s == IF action.kind = "Insert" THEN action.text ELSE <<>>
  IN  \/ /\ action.position.line < LineCount(text) /\ j <= Len(text)
         /\ text' = Replace(text, i, j, s)
         /\ panicked' = panicked
      \/ /\ action.position.line < LineCount(text) /\ j > Len(text)
         /\ panicked' = TRUE
         /\ text' = text
      \/ /\ ~(action.position.line < LineCount(text))
         /\ text' = text /\ panicked' = panicked

LEMMA ApplyActionProperty ==
  ASSUME Inv, NEW action \in Action, ApplyAction(action), server' = server
  PROVE  /\ Applies(action)
         /\ text' \in Seq(Char) /\ cursor' \in CursorsOf(text') /\ panicked' \in BOOLEAN
         /\ LspTyped' /\ LspMirror'
<1>1. /\ text \in Seq(Char) /\ HistoryTyped /\ cursor \in CursorsOf(text)
      /\ panicked \in BOOLEAN /\ edits \in 0..MaxEdits /\ LspTyped /\ LspMirror
  BY TypeOKParts DEF Inv
<1>2. action.position \in Cursor /\ action.text \in Seq(Char) /\ action.kind \in {"Insert", "Delete"}
  BY DEF Action
<1> DEFINE i == CharIdx(text, action.position)
           j == IF action.kind = "Insert" THEN i ELSE i + Len(action.text)
           s == IF action.kind = "Insert" THEN action.text ELSE <<>>
           moved == IF action.kind = "Insert" THEN AdvanceCursor(action.position, s)
                    ELSE action.position
<1>3. \/ /\ action.position.line < LineCount(text) /\ j <= Len(text)
         /\ ReplaceRange(i, j, s)
         /\ cursor' = ClampCursor(text', moved)
         /\ UNCHANGED panicked
      \/ /\ action.position.line < LineCount(text) /\ j > Len(text)
         /\ panicked' = TRUE
         /\ UNCHANGED <<text, cursor, lspVars, pending_change>>
      \/ /\ ~(action.position.line < LineCount(text))
         /\ UNCHANGED <<text, cursor, panicked, lspVars, pending_change>>
  BY DEF ApplyAction
<1>4. s \in Seq(Char) /\ moved \in Cursor
  BY <1>2, EmptySeq, AdvanceTyped
<1>5. CASE /\ action.position.line < LineCount(text) /\ j <= Len(text)
           /\ ReplaceRange(i, j, s)
           /\ cursor' = ClampCursor(text', moved)
           /\ UNCHANGED panicked
  <2>1. i \in 0..Len(text)
    BY <1>1, <1>2, <1>5, CharIdxProperty
  <2>2. i \in Nat /\ Len(text) \in Nat /\ Len(action.text) \in Nat
    BY <1>1, <1>2, <2>1, LenProperties
  <2>3. j \in i..Len(text)
    <3> HIDE DEF i
    <3>1. QED
      BY <1>5, <2>1, <2>2
  <2>4. Applies(action)
    BY <1>5 DEF Applies, ReplaceRange
  <2> HIDE DEF i, j, s, moved
  <2>5. text' \in Seq(Char) /\ LspTyped' /\ LspMirror'
    BY <1>1, <1>4, <1>5, <2>1, <2>3, ReplaceRangeProperty
  <2>6. cursor' \in CursorsOf(text')
    BY <1>4, <1>5, <2>5, ClampProperty
  <2>7. panicked' \in BOOLEAN
    BY <1>1, <1>5
  <2>8. QED
    BY <2>4, <2>5, <2>6, <2>7
<1>6. ASSUME text' = text, cursor' = cursor, lspVars' = lspVars, pending_change' = pending_change
      PROVE  text' \in Seq(Char) /\ cursor' \in CursorsOf(text') /\ LspTyped' /\ LspMirror'
  <2>1. lsp_changes' = lsp_changes /\ lsp_needs_full_sync' = lsp_needs_full_sync
    BY <1>6 DEF lspVars
  <2>2. LspTyped'
    BY <1>1, <1>6, <2>1 DEF LspTyped
  <2>3. LspMirror'
    BY <1>1, <1>6, <2>1 DEF LspMirror
  <2>4. QED
    BY <1>1, <1>6, <2>2, <2>3
<1>7. CASE /\ action.position.line < LineCount(text) /\ j > Len(text)
           /\ panicked' = TRUE
           /\ UNCHANGED <<text, cursor, lspVars, pending_change>>
  <2>1. Applies(action)
    BY <1>7 DEF Applies
  <2>2. QED
    BY <1>6, <1>7, <2>1
<1>8. CASE /\ ~(action.position.line < LineCount(text))
           /\ UNCHANGED <<text, cursor, panicked, lspVars, pending_change>>
  <2>1. Applies(action)
    BY <1>8 DEF Applies
  <2>2. QED
    BY <1>1, <1>6, <1>8, <2>1
<1>9. QED
  BY <1>3, <1>5, <1>7, <1>8

LEMMA UndoProperty ==
  ASSUME Inv, Undo
  PROVE  /\ ~panicked /\ PopUndo /\ HistoryTyped
         /\ Last(Done) \in Action /\ Applies(Inverted(Last(Done)))
         /\ Inv'
<1>1. text \in Seq(Char) /\ HistoryTyped /\ edits \in 0..MaxEdits
  BY TypeOKParts DEF Inv
<1>2. /\ ~panicked /\ PopUndo /\ ApplyAction(Inverted(Last(Done)))
      /\ edits' = edits /\ server' = server
  BY DEF Undo
<1>3. HistoryTyped' /\ Last(Done) \in Action
  BY <1>1, <1>2, PopUndoProperty
<1>4. Inverted(Last(Done)) \in Action
  BY <1>3, ActionTyped
<1>5. /\ Applies(Inverted(Last(Done)))
      /\ text' \in Seq(Char) /\ cursor' \in CursorsOf(text') /\ panicked' \in BOOLEAN
      /\ LspTyped' /\ LspMirror'
  BY <1>2, <1>4, ApplyActionProperty
<1>6. Inv'
  BY <1>1, <1>2, <1>3, <1>5, TypeOKNext DEF Inv
<1>7. QED
  BY <1>1, <1>2, <1>3, <1>5, <1>6

LEMMA RedoProperty ==
  ASSUME Inv, Redo
  PROVE  /\ ~panicked /\ PopRedo /\ HistoryTyped
         /\ Last(redo_stack) \in Action /\ Applies(Last(redo_stack))
         /\ Inv'
<1>1. text \in Seq(Char) /\ HistoryTyped /\ edits \in 0..MaxEdits
  BY TypeOKParts DEF Inv
<1>2. /\ ~panicked /\ PopRedo /\ ApplyAction(Last(redo_stack))
      /\ edits' = edits /\ server' = server
  BY DEF Redo
<1>3. HistoryTyped' /\ Last(redo_stack) \in Action
  BY <1>1, <1>2, PopRedoProperty
<1>4. /\ Applies(Last(redo_stack))
      /\ text' \in Seq(Char) /\ cursor' \in CursorsOf(text') /\ panicked' \in BOOLEAN
      /\ LspTyped' /\ LspMirror'
  BY <1>2, <1>3, ApplyActionProperty
<1>5. Inv'
  BY <1>1, <1>2, <1>3, <1>4, TypeOKNext DEF Inv
<1>6. QED
  BY <1>1, <1>2, <1>3, <1>4, <1>5

LEMMA RedoNothingProperty ==
  ASSUME Inv, RedoNothing
  PROVE  /\ HistoryTyped /\ CommitPending /\ text' = text /\ panicked' = panicked /\ Inv'
<1>1. /\ text \in Seq(Char) /\ HistoryTyped /\ cursor \in CursorsOf(text)
      /\ panicked \in BOOLEAN /\ edits \in 0..MaxEdits /\ LspTyped /\ LspMirror
  BY TypeOKParts DEF Inv
<1>2. /\ CommitPending
      /\ UNCHANGED <<text, cursor, panicked, edits, lspVars, pending_change, server>>
  BY DEF RedoNothing
<1>3. HistoryTyped'
  BY <1>1, <1>2, CommitProperty
<1>4. LspTyped' /\ LspMirror'
  BY <1>1, <1>2 DEF LspTyped, LspMirror, lspVars
<1>5. Inv'
  BY <1>1, <1>2, <1>3, <1>4, TypeOKNext DEF Inv
<1>6. QED
  BY <1>1, <1>2, <1>5

(* The place every text has. *)
LEMMA OriginIsCursor ==
  ASSUME NEW t \in Seq(Char)
  PROVE  CursorAt(0, 0) \in CursorsOf(t)
<1>1. LineCount(t) \in Nat \ {0} /\ 0 \in 0..LineCount(t) - 1
  BY LineCountProperty
<1>2. 0 \in 0..LineLen(t, 0)
  BY <1>1, GraphemesProperty
<1>3. QED
  BY <1>1, <1>2 DEF CursorsOf

LEMMA NoHistory ==
  /\ HistoryInit => HistoryTyped /\ Len(Done) = 0 /\ Len(redo_stack) = 0
  /\ HistoryInit' => HistoryTyped' /\ Len(Done') = 0 /\ Len(redo_stack') = 0
<1>1. /\ <<>> \in Seq(Action) /\ Len(<<>>) = 0 /\ <<>> \o <<>> = <<>>
      /\ 0 <= 1 /\ 0 + 0 <= MaxHistory + 1
  BY EmptySeq, ConcatEmptySeq, HistoryAssumption
<1>2. ASSUME HistoryInit PROVE HistoryTyped /\ Len(Done) = 0 /\ Len(redo_stack) = 0
  BY <1>1, <1>2 DEF HistoryInit, HistoryTyped, Done
<1>3. ASSUME HistoryInit' PROVE HistoryTyped' /\ Len(Done') = 0 /\ Len(redo_stack') = 0
  BY <1>1, <1>3 DEF HistoryInit, HistoryTyped, Done
<1>4. QED
  BY <1>2, <1>3

LEMMA ReloadProperty ==
  ASSUME Inv, NEW t \in Documents, Reload(t)
  PROVE  /\ text' = t /\ panicked' = panicked /\ Len(Done') = 0 /\ Len(redo_stack') = 0 /\ Inv'
<1>1. /\ text \in Seq(Char) /\ panicked \in BOOLEAN /\ edits \in 0..MaxEdits /\ LspTyped
  BY TypeOKParts DEF Inv
<1>2. /\ MayEdit /\ text' = t /\ cursor' = CursorAt(0, 0)
      /\ undo_stack' = <<>> /\ redo_stack' = <<>> /\ pending_action' = <<>>
      /\ lsp_changes' = <<>> /\ lsp_needs_full_sync' = TRUE
      /\ MarkChanged /\ panicked' = panicked /\ server' = server
  BY DEF Reload
<1>3. text' \in Seq(Char) /\ cursor' \in CursorsOf(text')
  BY <1>2, BufferAssumption, OriginIsCursor
<1>4. HistoryTyped' /\ Len(Done') = 0 /\ Len(redo_stack') = 0
  BY <1>2, NoHistory DEF HistoryInit
<1>5. LspTyped' /\ LspMirror'
  <2>1. <<>> \in Seq(LspChangeType) /\ Len(<<>>) <= MaxPendingLsp
    BY EmptySeq, BufferAssumption
  <2>2. pending_change' \in BOOLEAN
    BY <1>2 DEF MarkChanged
  <2>3. QED
    BY <1>1, <1>2, <2>1, <2>2 DEF LspTyped, LspMirror
<1>6. edits' \in 0..MaxEdits
  BY <1>1, <1>2, BufferAssumption DEF MayEdit
<1>7. Inv'
  BY <1>1, <1>2, <1>3, <1>4, <1>5, <1>6, TypeOKNext DEF Inv
<1>8. QED
  BY <1>2, <1>4, <1>7

LEMMA FlushProperty ==
  ASSUME Inv, Flush
  PROVE  UNCHANGED <<historyVars, text, panicked>> /\ Done' = Done /\ Inv'
<1>1. /\ text \in Seq(Char) /\ HistoryTyped /\ cursor \in CursorsOf(text)
      /\ panicked \in BOOLEAN /\ edits \in 0..MaxEdits /\ LspTyped /\ LspMirror
  BY TypeOKParts DEF Inv
<1>2. /\ pending_change' = FALSE /\ lsp_changes' = <<>> /\ lsp_needs_full_sync' = FALSE
      /\ server' = IF ServerSync = "incremental" /\ ~lsp_needs_full_sync THEN Applied(server, lsp_changes)
                   ELSE text
      /\ UNCHANGED <<historyVars, text, cursor, panicked, edits>>
  BY DEF Flush
<1>3. server' = text
  BY <1>1, <1>2 DEF LspMirror
<1>4. LspTyped' /\ LspMirror'
  <2>1. <<>> \in Seq(LspChangeType) /\ Len(<<>>) <= MaxPendingLsp
    BY EmptySeq, BufferAssumption
  <2>2. Applied(server', lsp_changes') = text'
    BY <1>2, <1>3, AppliedNone
  <2>3. QED
    BY <1>1, <1>2, <1>3, <2>1, <2>2 DEF LspTyped, LspMirror
<1>5. HistoryTyped' /\ Done' = Done
  BY <1>1, <1>2 DEF HistoryTyped, Done, historyVars
<1>6. Inv'
  BY <1>1, <1>2, <1>4, <1>5, TypeOKNext DEF Inv
<1>7. QED
  BY <1>2, <1>5, <1>6

LEMMA StutterProperty ==
  ASSUME Inv, UNCHANGED vars
  PROVE  Inv'
<1>1. /\ UNCHANGED <<undo_stack, redo_stack, pending_action, text, cursor, panicked, edits>>
      /\ UNCHANGED <<lsp_changes, lsp_needs_full_sync, pending_change, server>>
  BY DEF vars, historyVars, lspVars
<1>2. TypeOK'
  BY <1>1 DEF Inv, TypeOK, Done
<1>3. LspMirror'
  BY <1>1 DEF Inv, LspMirror
<1>4. QED
  BY <1>2, <1>3 DEF Inv

LEMMA InvInit == Init => Inv
<1> SUFFICES ASSUME Init PROVE Inv
  OBVIOUS
<1>1. /\ HistoryInit /\ text \in Documents /\ cursor = CursorAt(0, 0) /\ panicked = FALSE /\ edits = 0
      /\ lsp_changes = <<>> /\ lsp_needs_full_sync = FALSE /\ pending_change = FALSE /\ server = text
  BY DEF Init
<1>2. text \in Seq(Char) /\ cursor \in CursorsOf(text)
  BY <1>1, BufferAssumption, OriginIsCursor
<1>3. HistoryTyped
  BY <1>1, NoHistory
<1>4. LspTyped
  <2>1. <<>> \in Seq(LspChangeType) /\ Len(<<>>) <= MaxPendingLsp
    BY EmptySeq, BufferAssumption
  <2>2. QED
    BY <1>1, <1>2, <2>1 DEF LspTyped
<1>5. LspMirror
  BY <1>1, AppliedNone DEF LspMirror
<1>6. edits \in 0..MaxEdits
  BY <1>1, BufferAssumption
<1>7. QED
  BY <1>1, <1>2, <1>3, <1>4, <1>5, <1>6, TypeOKParts DEF Inv

LEMMA InvStep == Inv /\ [Next]_vars => Inv'
<1> SUFFICES ASSUME Inv, [Next]_vars PROVE Inv'
  OBVIOUS
<1>1. ASSUME NEW c \in CursorsOf(text), NEW s \in Insertions, Insert(c, s) PROVE Inv'
  BY <1>1, InsertProperty
<1>2. ASSUME NEW c \in CursorsOf(text), DeleteChar(c) PROVE Inv'
  BY <1>2, DeleteCharProperty
<1>3. ASSUME NEW c \in CursorsOf(text), Backspace(c) PROVE Inv'
  BY <1>3, BackspaceProperty
<1>4. ASSUME NEW c \in CursorsOf(text), NEW end \in CursorsOf(text), DeleteRange(c, end) PROVE Inv'
  BY <1>4, DeleteRangeProperty
<1>5. CASE Undo
  BY <1>5, UndoProperty
<1>6. CASE Redo
  BY <1>6, RedoProperty
<1>7. CASE RedoNothing
  BY <1>7, RedoNothingProperty
<1>8. ASSUME NEW t \in Documents, Reload(t) PROVE Inv'
  BY <1>8, ReloadProperty
<1>9. CASE Flush
  BY <1>9, FlushProperty
<1>10. CASE UNCHANGED vars
  BY <1>10, StutterProperty
<1>11. QED
  BY <1>1, <1>2, <1>3, <1>4, <1>5, <1>6, <1>7, <1>8, <1>9, <1>10 DEF Next

LEMMA InvHolds == Spec => []Inv
<1>1. QED
  BY InvInit, InvStep, PTL DEF Spec

(* Every variable keeps its type, the cursor is always a place of the text, *)
(* and the history and the backlog keep their ceilings, whatever is typed,  *)
(* undone, redone, reloaded or flushed: for every text, combining marks     *)
(* included, and every size of history and backlog.                         *)
THEOREM TypeOKHolds == Spec => []TypeOK
<1>1. Inv => TypeOK
  BY DEF Inv
<1>2. QED
  BY <1>1, InvHolds, PTL

(* What the server was sent and what is recorded for it always make up the  *)
(* document, unless a full text is owed: record_lsp_change, called before   *)
(* the rope changes, names each range where the server will find it.        *)
THEOREM LspMirrorHolds == Spec => []LspMirror
<1>1. Inv => LspMirror
  BY DEF Inv
<1>2. QED
  BY <1>1, InvHolds, PTL

-----------------------------------------------------------------------------
(***************************************************************************)
(* Texts without combining marks: each character but the newline is a      *)
(* grapheme, and a cursor counts what the language server's position does. *)
(***************************************************************************)
LEMMA PlainLine ==
  ASSUME Marks = {}, NEW t \in Seq(Char), NEW line \in 0..LineCount(t) - 1,
         NEW o \in LineStart(t, line)..LineEnd(t, line)
  PROVE  /\ Graphemes(t, line) = LineStart(t, line)..LineEnd(t, line) - 1
         /\ Cardinality(Graphemes(t, line)) = LineEnd(t, line) - LineStart(t, line)
         /\ Cardinality(Below(Graphemes(t, line), o)) = o - LineStart(t, line)
<1> DEFINE s == LineStart(t, line)
           e == LineEnd(t, line)
<1>1. s \in Nat /\ e \in Nat /\ s <= e /\ o \in Nat /\ s <= o /\ o <= e
  <2>1. e \in 0..Len(t) /\ s \in 0..e /\ Len(t) \in Nat
    BY LineEndProperty, LenProperties
  <2>2. QED
    BY <2>1
<1>2. Graphemes(t, line) = s..e - 1
  BY DEF Graphemes
<1> HIDE DEF s, e
<1>3. \A a \in Nat, b \in Nat : a <= b => Cardinality(a..b - 1) = b - a
  <2>1. ASSUME NEW a \in Nat, NEW b \in Nat, a <= b PROVE Cardinality(a..b - 1) = b - a
    <3>1. b - 1 \in Int
      OBVIOUS
    <3>2. Cardinality(a..b - 1) = IF a > b - 1 THEN 0 ELSE b - 1 - a + 1
      BY <3>1, FS_Interval
    <3>3. (IF a > b - 1 THEN 0 ELSE b - 1 - a + 1) = b - a
      BY <2>1
    <3>4. QED
      BY <3>2, <3>3
  <2>2. QED
    BY <2>1
<1>4. Below(s..e - 1, o) = s..o - 1
  BY <1>1 DEF Below
<1>5. QED
  BY <1>1, <1>2, <1>3, <1>4 DEF s, e

(* A cursor is the server's position of its place. *)
LEMMA CursorIsPosition ==
  ASSUME Marks = {}, NEW t \in Seq(Char), NEW c \in CursorsOf(t)
  PROVE  /\ CharIdx(t, c) \in 0..Len(t)
         /\ CharIdx(t, c) = LineStart(t, c.line) + c.column
         /\ c = LspPosition(t, CharIdx(t, c))
<1> DEFINE i == CharIdx(t, c)
           line == c.line
<1>1. /\ i \in 0..Len(t) /\ line \in 0..LineCount(t) - 1 /\ LineOf(t, i) = line
      /\ Cardinality(Below(Graphemes(t, line), i)) = c.column
  BY CursorPlace
<1>2. c = CursorAt(line, c.column) /\ c.column \in Nat /\ line \in Nat /\ c \in Cursor /\ line < LineCount(t)
  BY CursorsOfProperty DEF Cursor, CursorAt
<1>3. i \in LineStart(t, line)..LineEnd(t, line) /\ i \in Nat /\ LineStart(t, line) \in Nat
  <2>1. LineStart(t, line) \in 0..LineEnd(t, line) /\ LineEnd(t, line) \in 0..Len(t) /\ Len(t) \in Nat
    BY <1>1, LineEndProperty, LenProperties
  <2>2. i \in LineStart(t, line)..LineEnd(t, line)
    BY <1>2, CharIdxProperty
  <2> HIDE DEF i
  <2>3. QED
    BY <1>1, <2>1, <2>2
<1> HIDE DEF i
<1>4. c.column = i - LineStart(t, line)
  BY <1>1, <1>3, PlainLine
<1>5. c = LspPosition(t, i)
  BY <1>1, <1>2, <1>4 DEF LspPosition
<1>6. i = LineStart(t, line) + c.column
  BY <1>2, <1>3, <1>4
<1>7. QED
  BY <1>1, <1>5, <1>6 DEF i

(* The start of an offset's line. *)
LEMMA PositionParts ==
  ASSUME NEW t \in Seq(Char), NEW o \in 0..Len(t)
  PROVE  /\ o \in Nat /\ Len(t) \in Nat
         /\ LineOf(t, o) \in 0..LineCount(t) - 1 /\ LineOf(t, o) \in Nat
         /\ LineStart(t, LineOf(t, o)) \in 0..o
         /\ LspPosition(t, o) \in Cursor
         /\ LspPosition(t, o).line = LineOf(t, o)
         /\ LspPosition(t, o).column = o - LineStart(t, LineOf(t, o))
<1>1. Len(t) \in Nat /\ LineCount(t) \in Nat /\ LineOf(t, o) \in 0..LineCount(t) - 1
  BY LineCountProperty
<1>2. LineStart(t, LineOf(t, o)) \in 0..Len(t) /\ LineStart(t, LineOf(t, o)) <= o
  <2>1. IsStart(t, LineOf(t, o), LineStart(t, LineOf(t, o)))
    BY <1>1, LineStartProperty
  <2>2. LineStart(t, LineOf(t, o)) <= o <=> LineOf(t, o) <= LineOf(t, o)
    BY <1>1, LineStartProperty
  <2>3. QED
    BY <1>1, <2>1, <2>2 DEF IsStart
<1>3. LspPosition(t, o) = [line |-> LineOf(t, o), column |-> o - LineStart(t, LineOf(t, o))]
  BY DEF LspPosition, CursorAt
<1>4. LspPosition(t, o) \in Cursor
  BY LspRoundTrip
<1>5. QED
  BY <1>1, <1>2, <1>3, <1>4

LEMMA PositionIsCursor ==
  ASSUME Marks = {}, NEW t \in Seq(Char), NEW o \in 0..Len(t)
  PROVE  LspPosition(t, o) \in CursorsOf(t) /\ CharIdx(t, LspPosition(t, o)) = o
<1> DEFINE line == LineOf(t, o)
           s == LineStart(t, line)
           c == LspPosition(t, o)
<1>1. /\ o \in Nat /\ Len(t) \in Nat /\ line \in 0..LineCount(t) - 1 /\ line \in Nat /\ s \in 0..o
      /\ c \in Cursor /\ c.line = line /\ c.column = o - s
  BY PositionParts
<1>2. LineCount(t) \in Nat /\ line < LineCount(t)
  <2>1. LineCount(t) \in Nat
    BY LineCountProperty
  <2> HIDE DEF line
  <2>2. QED
    BY <1>1, <2>1
<1>3. o <= LineEnd(t, line) /\ LineEnd(t, line) \in Nat
  BY <1>1, LineEndProperty
<1>4. Below(Graphemes(t, line), o) \subseteq Visible(t, line)
  <2>1. SUFFICES ASSUME NEW k \in Below(Graphemes(t, line), o) PROVE k \in Visible(t, line)
    OBVIOUS
  <2>2. k \in Graphemes(t, line) /\ k < o /\ k \in LineStart(t, line)..LineEnd(t, line) - 1
    BY DEF Below, Graphemes
  <2>3. k \in Nat /\ k + 1 \in Nat /\ k + 1 <= o
    BY <1>1, <1>3, <2>2
  <2>4. t[k + 1] # Newline
    <3>1. SUFFICES ASSUME t[k + 1] = Newline PROVE FALSE
      OBVIOUS
    <3>2. LineOf(t, k) < LineOf(t, k + 1)
      BY <2>3, <3>1, LineOfStrict
    <3>3. LineOf(t, k + 1) <= LineOf(t, o)
      BY <1>1, <2>3, LineOfMonotone
    <3>4. LineOf(t, k) = line
      BY <1>1, <2>2, LineEndProperty
    <3>5. LineOf(t, k) \in Nat /\ LineOf(t, k + 1) \in Nat
      BY <2>3, NewlinesFinite
    <3>6. QED
      BY <1>1, <3>2, <3>3, <3>4, <3>5
  <2>5. QED
    BY <2>2, <2>4 DEF Visible
<1>5. c.column <= LineLen(t, line)
  <2>1. o \in LineStart(t, line)..LineEnd(t, line)
    BY <1>1, <1>3
  <2>2. Cardinality(Below(Graphemes(t, line), o)) = o - s
    BY <1>1, <2>1, PlainLine
  <2>3. IsFiniteSet(Visible(t, line))
    <3>1. Graphemes(t, line) \in SUBSET (0..Len(t))
      BY <1>1, GraphemesProperty
    <3>2. Visible(t, line) \in SUBSET (0..Len(t))
      BY <3>1 DEF Visible
    <3>3. QED
      BY <1>1, <3>2, BelowFinite
  <2>4. Cardinality(Below(Graphemes(t, line), o)) <= Cardinality(Visible(t, line))
    BY <1>4, <2>3, FS_Subset
  <2>5. QED
    BY <1>1, <2>2, <2>4, LineLenIs
<1>6. c \in CursorsOf(t)
  BY <1>1, <1>2, <1>5, CursorsOfProperty
<1>7. CharIdx(t, c) = LineStart(t, c.line) + c.column
  BY <1>6, CursorIsPosition
<1> HIDE DEF c, line
<1>8. CharIdx(t, c) = o
  BY <1>1, <1>7
<1>9. QED
  BY <1>6, <1>8 DEF c

(* Texts that agree up to an offset have it at the same position. *)
LEMMA PositionPrefix ==
  ASSUME NEW t \in Seq(Char), NEW u \in Seq(Char), NEW o \in 0..Len(t), o \in 0..Len(u),
         \A k \in 1..o : t[k] = u[k]
  PROVE  LspPosition(t, o) = LspPosition(u, o)
<1> DEFINE line == LineOf(t, o)
           s == LineStart(t, line)
<1>1. o \in Nat /\ line \in 0..LineCount(t) - 1 /\ s \in 0..o /\ Len(u) \in Nat /\ o <= Len(u)
  BY PositionParts
<1>2. \A p \in 0..o : LineOf(t, p) = LineOf(u, p)
  <2>1. ASSUME NEW p \in 0..o PROVE LineOf(t, p) = LineOf(u, p)
    <3>1. p \in Nat /\ \A k \in 1..p : t[k] = u[k]
      BY <1>1
    <3>2. QED
      BY <3>1, LineOfPrefix
  <2>2. QED
    BY <2>1
<1>3. LineOf(u, o) = line
  BY <1>1, <1>2
<1>4. LineStart(u, line) = s
  <2>1. IsStart(t, line, s)
    BY <1>1, LineStartProperty
  <2> HIDE DEF line, s
  <2>2. s \in 0..o /\ s \in 0..Len(u) /\ (s = 0 \/ s \in 1..o)
    BY <1>1
  <2>3. LineOf(u, s) = line /\ (s = 0 \/ u[s] = Newline)
    BY <1>2, <2>1, <2>2 DEF IsStart
  <2>4. IsStart(u, line, s)
    BY <2>2, <2>3 DEF IsStart
  <2>5. QED
    BY <2>4, LineStartIs
<1>5. QED
  BY <1>3, <1>4 DEF LspPosition

(* One grapheme back is one character back. *)
LEMMA GraphemeBeforePlace ==
  ASSUME Marks = {}, text \in Seq(Char), NEW c \in CursorsOf(text), CharIdx(text, c) > 0
  PROVE  CharIdx(text, GraphemeBefore(c)) = CharIdx(text, c) - 1
<1> DEFINE i == CharIdx(text, c)
           p == GraphemeBefore(c)
<1>1. /\ i \in 0..Len(text) /\ i = LineStart(text, c.line) + c.column
      /\ p \in CursorsOf(text) /\ CharIdx(text, p) = LineStart(text, p.line) + p.column
      /\ CharIdx(text, p) \in 0..Len(text)
  BY CursorIsPosition, GraphemeBeforeTyped
<1>2. /\ c.line \in Nat /\ c.column \in Nat /\ Len(text) \in Nat /\ c.line \in 0..LineCount(text) - 1
      /\ LineCount(text) \in Nat
  BY CursorPlace, CursorsOfProperty, LineCountProperty DEF Cursor
<1>3. CASE c.column > 0
  <2>1. p.line = c.line /\ p.column = c.column - 1
    BY <1>3 DEF GraphemeBefore, CursorAt
  <2>2. LineStart(text, c.line) \in Nat
    BY <1>2, LineEndProperty
  <2>3. QED
    BY <1>1, <1>2, <2>1, <2>2
<1>4. CASE ~(c.column > 0)
  <2> DEFINE before == c.line - 1
             b == LineStart(text, before)
             e == LineStart(text, c.line)
  <2>1. c.column = 0 /\ i = e /\ e \in Nat
    <3>1. LineStart(text, c.line) \in Nat
      BY <1>2, LineEndProperty
    <3>2. QED
      BY <1>1, <1>2, <1>4, <3>1
  <2>2. p.line = before /\ p.column = LineLen(text, before) /\ p \in Cursor
    BY <1>1, <1>4, CursorsOfProperty DEF GraphemeBefore, CursorAt
  <2>3. before \in 0..LineCount(text) - 1 /\ before # LineCount(text) - 1
    <3>1. p.line \in Nat
      BY <2>2 DEF Cursor
    <3>2. QED
      BY <1>2, <2>2, <3>1
  <2>4. LineEnd(text, before) = e
    <3>1. before + 1 = c.line
      BY <1>2
    <3>2. QED
      BY <2>3, <3>1 DEF LineEnd
  <2>5. /\ b \in Nat /\ b < e /\ b <= e - 1 /\ e - 1 \in 0..Len(text) /\ LineOf(text, e - 1) = before
    <3>1. /\ LineEnd(text, before) \in 0..Len(text) /\ b \in 0..LineEnd(text, before)
          /\ b < LineEnd(text, before)
          /\ \A o \in b..LineEnd(text, before) - 1 : LineOf(text, o) = before
      BY <2>3, LineEndProperty
    <3> HIDE DEF b, e
    <3>2. b \in Nat /\ b < e /\ e - 1 \in b..e - 1 /\ e - 1 \in 0..Len(text)
      BY <1>2, <2>1, <2>4, <3>1
    <3>3. QED
      BY <2>1, <2>4, <3>1, <3>2
  <2>6. e - 1 - b <= LineLen(text, before)
    <3>1. LspPosition(text, e - 1) \in CursorsOf(text)
      BY <2>5, PositionIsCursor
    <3>2. LspPosition(text, e - 1).line = before /\ LspPosition(text, e - 1).column = e - 1 - b
      BY <2>5, PositionParts
    <3>3. QED
      BY <3>1, <3>2, CursorsOfProperty
  <2>7. LineLen(text, before) <= e - b /\ LineLen(text, before) # e - b /\ LineLen(text, before) \in Nat
    <3>1. e \in b..e /\ b = LineStart(text, before)
      BY <2>1, <2>5
    <3> HIDE DEF b, e, before
    <3>2. Cardinality(Graphemes(text, before)) = e - b
      BY <2>3, <2>4, <3>1, PlainLine
    <3>3. QED
      BY <2>3, <3>2, GraphemesProperty
  <2>8. LineLen(text, before) = e - 1 - b
    <3> HIDE DEF b, e, before
    <3>1. QED
      BY <2>1, <2>5, <2>6, <2>7
  <2>9. CharIdx(text, p) = e - 1
    <3>1. CharIdx(text, p) = b + LineLen(text, before)
      BY <1>1, <2>2
    <3> HIDE DEF b, e, before, p
    <3>2. QED
      BY <2>1, <2>5, <2>8, <3>1
  <2>10. QED
    BY <2>1, <2>9
<1>5. QED
  BY <1>3, <1>4

-----------------------------------------------------------------------------
(***************************************************************************)
(* Actions and the versions they lead between.  An insertion leads from lo *)
(* to hi and a deletion back; the position of either is a place of both.   *)
(***************************************************************************)
Linked(action, lo, hi, i) ==
  /\ i \in 0..Len(lo)
  /\ action.position = LspPosition(lo, i)
  /\ hi = Replace(lo, i, i, action.text)

Links(action, t, u) ==
  IF action.kind = "Insert" THEN \E i : Linked(action, t, u, i)
  ELSE \E i : Linked(action, u, t, i)

LEMMA LinkedProperty ==
  ASSUME NEW action \in Action, NEW lo \in Seq(Char), NEW hi, NEW i, Linked(action, lo, hi, i)
  PROVE  /\ action.text \in Seq(Char) /\ Len(action.text) \in Nat
         /\ Len(lo) \in Nat /\ i \in Nat /\ i <= Len(lo)
         /\ hi \in Seq(Char) /\ Len(hi) = Len(lo) + Len(action.text)
         /\ i \in 0..Len(hi) /\ i + Len(action.text) \in i..Len(hi)
         /\ lo = Replace(hi, i, i + Len(action.text), <<>>)
         /\ LspPosition(hi, i) = action.position
<1>1. i \in 0..Len(lo) /\ action.position = LspPosition(lo, i) /\ hi = Replace(lo, i, i, action.text)
  BY DEF Linked
<1>2. action.text \in Seq(Char) /\ Len(action.text) \in Nat /\ Len(lo) \in Nat
  BY LenProperties DEF Action
<1>3. /\ hi \in Seq(Char) /\ Len(hi) = Len(lo) + Len(action.text)
      /\ lo = Replace(hi, i, i + Len(action.text), <<>>)
  BY <1>1, <1>2, RemoveInserted
<1>4. i \in 0..Len(hi) /\ i + Len(action.text) \in i..Len(hi) /\ i \in i..Len(lo) /\ i \in Nat /\ i <= Len(lo)
  <2>1. i \in 0..Len(lo)
    BY <1>1
  <2>2. Len(action.text) \in Nat /\ Len(lo) \in Nat
    BY <1>2
  <2>3. Len(hi) = Len(lo) + Len(action.text)
    BY <1>3
  <2>4. QED
    BY <2>1, <2>2, <2>3
<1>5. \A k \in 1..i : lo[k] = hi[k]
  <2>1. Spliced(lo, i, i, action.text, hi)
    BY <1>1, <1>2, <1>4, ReplaceProperty
  <2>2. QED
    BY <2>1 DEF Spliced
<1>6. LspPosition(hi, i) = LspPosition(lo, i)
  BY <1>1, <1>3, <1>4, <1>5, PositionPrefix
<1>7. QED
  BY <1>1, <1>2, <1>3, <1>4, <1>6

(* Where an action that leads from a text to another is found in it, and    *)
(* what it replaces there: never anything past the end.                     *)
LEMMA LinkPlaces ==
  ASSUME Marks = {}, NEW t \in Seq(Char), NEW u \in Seq(Char), NEW action \in Action,
         Links(action, t, u)
  PROVE  LET i == CharIdx(t, action.position)
             j == IF action.kind = "Insert" THEN i ELSE i + Len(action.text)
             s == IF action.kind = "Insert" THEN action.text ELSE <<>>
         IN  /\ action.position.line < LineCount(t)
             /\ j <= Len(t) /\ ~(j > Len(t))
             /\ u = Replace(t, i, j, s)
<1> DEFINE i == CharIdx(t, action.position)
           j == IF action.kind = "Insert" THEN i ELSE i + Len(action.text)
           s == IF action.kind = "Insert" THEN action.text ELSE <<>>
           end(o) == IF action.kind = "Insert" THEN o ELSE o + Len(action.text)
<1>1. \E o \in 0..Len(t) : /\ action.position = LspPosition(t, o)
                           /\ end(o) <= Len(t)
                           /\ u = Replace(t, o, end(o), s)
  <2>1. CASE action.kind = "Insert"
    <3>1. PICK o : Linked(action, t, u, o)
      BY <2>1 DEF Links
    <3>2. o \in 0..Len(t) /\ o <= Len(t)
      BY <3>1, LinkedProperty
    <3>3. action.position = LspPosition(t, o) /\ u = Replace(t, o, o, action.text)
      BY <3>1 DEF Linked
    <3>4. QED
      BY <2>1, <3>2, <3>3
  <2>2. CASE action.kind # "Insert"
    <3>1. PICK o : Linked(action, u, t, o)
      BY <2>2 DEF Links
    <3>2. /\ o \in 0..Len(t) /\ o + Len(action.text) <= Len(t)
          /\ action.position = LspPosition(t, o)
          /\ u = Replace(t, o, o + Len(action.text), <<>>)
      <4>1. /\ o \in 0..Len(t) /\ o + Len(action.text) \in o..Len(t)
            /\ u = Replace(t, o, o + Len(action.text), <<>>)
            /\ LspPosition(t, o) = action.position
        BY <3>1, LinkedProperty
      <4>2. QED
        BY <4>1
    <3>3. QED
      BY <2>2, <3>2
  <2>3. QED
    BY <2>1, <2>2
<1>2. PICK o \in 0..Len(t) : /\ action.position = LspPosition(t, o)
                            /\ end(o) <= Len(t)
                            /\ u = Replace(t, o, end(o), s)
  BY <1>1
<1>3. i = o /\ action.position.line < LineCount(t)
  <2>1. LspPosition(t, o) \in CursorsOf(t) /\ CharIdx(t, LspPosition(t, o)) = o
    BY PositionIsCursor
  <2>2. QED
    BY <1>2, <2>1, CursorsOfProperty
<1>4. j = end(o)
  BY <1>3
<1>5. j <= Len(t) /\ u = Replace(t, i, j, s)
  BY <1>2, <1>3, <1>4
<1>6. ~(j > Len(t))
  <2>1. Len(t) \in Nat /\ o \in Nat /\ Len(action.text) \in Nat
    BY LenProperties DEF Action
  <2>2. j \in Nat
    BY <1>4, <2>1
  <2> HIDE DEF j
  <2>3. QED
    BY <1>5, <2>1, <2>2
<1> HIDE DEF i, j, s
<1>7. QED
  BY <1>3, <1>5, <1>6 DEF i, j, s

LEMMA LinkIsApplied ==
  ASSUME Marks = {}, text \in Seq(Char), NEW u \in Seq(Char), NEW action \in Action,
         Links(action, text, u), Applies(action)
  PROVE  text' = u /\ panicked' = panicked
<1> DEFINE i == CharIdx(text, action.position)
           j == IF action.kind = "Insert" THEN i ELSE i + Len(action.text)
           s == IF action.kind = "Insert" THEN action.text ELSE <<>>
<1>1. \/ /\ action.position.line < LineCount(text) /\ j <= Len(text)
         /\ text' = Replace(text, i, j, s)
         /\ panicked' = panicked
      \/ /\ action.position.line < LineCount(text) /\ j > Len(text)
         /\ panicked' = TRUE
         /\ text' = text
      \/ /\ ~(action.position.line < LineCount(text))
         /\ text' = text /\ panicked' = panicked
  BY DEF Applies
<1>2. /\ action.position.line < LineCount(text)
      /\ j <= Len(text) /\ ~(j > Len(text))
      /\ u = Replace(text, i, j, s)
  BY LinkPlaces
<1> HIDE DEF i, j, s
<1>3. QED
  BY <1>1, <1>2

LEMMA LinkEffect ==
  ASSUME Marks = {}, NEW t \in Seq(Char), NEW u \in Seq(Char), NEW action \in Action,
         Links(action, t, u)
  PROVE  Effect(action)[t] = u
BY LinkPlaces DEF Effect

(* The inverse of an action leads back. *)
LEMMA LinkInverted ==
  ASSUME NEW action \in Action, NEW t, NEW u, Links(action, t, u)
  PROVE  Links(Inverted(action), u, t)
<1>1. /\ Inverted(action).position = action.position /\ Inverted(action).text = action.text
      /\ Inverted(action).kind = "Insert" <=> action.kind # "Insert"
  BY DEF Inverted, Action
<1>2. \A lo, hi, i : Linked(Inverted(action), lo, hi, i) <=> Linked(action, lo, hi, i)
  BY <1>1 DEF Linked
<1>3. QED
  BY <1>1, <1>2 DEF Links

LEMMA InsertionLinks ==
  ASSUME Marks = {}, text \in Seq(Char), NEW c \in CursorsOf(text), NEW s \in Seq(Char),
         text' = Replace(text, CharIdx(text, c), CharIdx(text, c), s)
  PROVE  Links(Insertion(c, s), text, text')
<1>1. CharIdx(text, c) \in 0..Len(text) /\ c = LspPosition(text, CharIdx(text, c))
  BY CursorIsPosition
<1>2. Linked(Insertion(c, s), text, text', CharIdx(text, c))
  BY <1>1 DEF Linked, Insertion
<1>3. QED
  BY <1>2 DEF Links, Insertion

LEMMA DeletionLinks ==
  ASSUME Marks = {}, text \in Seq(Char), NEW i, NEW j, NEW p, Removes(i, j, p), CharIdx(text, p) = i
  PROVE  Links(Deletion(p, SubSeq(text, i + 1, j)), text, text')
<1> DEFINE s == SubSeq(text, i + 1, j)
           action == Deletion(p, s)
<1>1. /\ i \in 0..Len(text) /\ j \in i..Len(text) /\ p \in CursorsOf(text)
      /\ text' = Replace(text, i, j, <<>>) /\ <<>> \in Seq(Char)
  BY EmptySeq DEF Removes
<1>2. /\ text' \in Seq(Char) /\ i \in 0..Len(text')
      /\ s \in Seq(Char) /\ text = Replace(text', i, i, s)
  BY <1>1, InsertRemoved
<1>3. p = LspPosition(text, i)
  BY <1>1, CursorIsPosition
<1>4. LspPosition(text, i) = LspPosition(text', i)
  <2>1. Spliced(text, i, j, <<>>, text')
    BY <1>1, ReplaceProperty
  <2>2. \A k \in 1..i : text[k] = text'[k]
    BY <2>1 DEF Spliced
  <2>3. QED
    BY <1>1, <1>2, <2>2, PositionPrefix
<1> HIDE DEF s
<1>5. action.position = p /\ action.text = s /\ action.kind = "Delete"
  BY DEF Deletion
<1> HIDE DEF action
<1>6. Linked(action, text', text, i)
  BY <1>2, <1>3, <1>4, <1>5 DEF Linked
<1>7. Links(action, text, text')
  BY <1>5, <1>6 DEF Links
<1>8. QED
  BY <1>7 DEF action, s

(* Two keystrokes merged lead from the version before the first to the one  *)
(* behind the second.                                                       *)
LEMMA MergeLinks ==
  ASSUME NEW a \in Action, NEW b \in Action, CanMerge(a, b),
         NEW t \in Seq(Char), NEW u \in Seq(Char), NEW v \in Seq(Char),
         Links(a, t, u), Links(b, u, v)
  PROVE  Links(Merge(a, b), t, v)
<1>1. a.kind = b.kind /\ a.position.line = b.position.line /\ Len(b.text) = 1
  BY DEF CanMerge
<1>2. CASE a.kind = "Insert"
  <2>1. PICK i : Linked(a, t, u, i)
    BY <1>2 DEF Links
  <2>2. PICK k : Linked(b, u, v, k)
    BY <1>1, <1>2 DEF Links
  <2>3. /\ a.text \in Seq(Char) /\ Len(a.text) \in Nat /\ i \in 0..Len(t)
        /\ i \in Nat /\ i \in 0..Len(u)
        /\ LspPosition(u, i) = a.position
    BY <2>1, LinkedProperty DEF Linked
  <2>4. /\ b.text \in Seq(Char) /\ k \in 0..Len(u) /\ k \in Nat
        /\ LspPosition(u, k) = b.position /\ v = Replace(u, k, k, b.text)
    BY <2>2, LinkedProperty DEF Linked
  <2>5. b.position.column = a.position.column + Len(a.text)
    BY <1>2 DEF CanMerge
  <2>6. k = i + Len(a.text)
    <3> DEFINE s == LineStart(u, LineOf(u, i))
    <3>1. /\ a.position.line = LineOf(u, i) /\ a.position.column = i - s /\ s \in 0..i
      BY <2>3, PositionParts
    <3>2. /\ b.position.line = LineOf(u, k) /\ b.position.column = k - LineStart(u, LineOf(u, k))
          /\ LineStart(u, LineOf(u, k)) \in 0..k
      BY <2>4, PositionParts
    <3>3. LineStart(u, LineOf(u, k)) = s
      BY <1>1, <3>1, <3>2
    <3> HIDE DEF s
    <3>4. b.position.column = k - s /\ a.position.column = i - s /\ s \in 0..i
      BY <3>1, <3>2, <3>3
    <3>5. i \in Nat /\ k \in Nat /\ Len(a.text) \in Nat
      BY <2>3, <2>4
    <3>6. QED
      BY <2>5, <3>4, <3>5
  <2>7. u = Replace(t, i, i, a.text)
    BY <2>1 DEF Linked
  <2>8. v = Replace(t, i, i, a.text \o b.text)
    <3>1. v = Replace(Replace(t, i, i, a.text), i + Len(a.text), i + Len(a.text), b.text)
      BY <2>4, <2>6, <2>7
    <3>2. i \in 0..Len(t) /\ a.text \in Seq(Char) /\ b.text \in Seq(Char)
      BY <2>3, <2>4
    <3>3. Replace(Replace(t, i, i, a.text), i + Len(a.text), i + Len(a.text), b.text)
            = Replace(t, i, i, a.text \o b.text)
      BY <3>2, InsertBehind
    <3>4. QED
      BY <3>1, <3>3
  <2>9. /\ Merge(a, b).kind = "Insert" /\ Merge(a, b).position = a.position
        /\ Merge(a, b).text = a.text \o b.text
    BY <1>2 DEF Merge, Action
  <2>10. a.position = LspPosition(t, i)
    BY <2>1 DEF Linked
  <2>11. Linked(Merge(a, b), t, v, i)
    BY <2>3, <2>8, <2>9, <2>10 DEF Linked
  <2>12. QED
    BY <2>9, <2>11 DEF Links
<1>3. CASE a.kind # "Insert"
  <2>1. PICK i : Linked(a, u, t, i)
    BY <1>3 DEF Links
  <2>2. PICK k : Linked(b, v, u, k)
    BY <1>1, <1>3 DEF Links
  <2>3. /\ a.text \in Seq(Char) /\ i \in 0..Len(u) /\ i \in Nat
        /\ a.position = LspPosition(u, i) /\ t = Replace(u, i, i, a.text)
    BY <2>1, LinkedProperty DEF Linked
  <2>4. /\ b.text \in Seq(Char) /\ k \in 0..Len(v) /\ k \in Nat /\ k \in 0..Len(u)
        /\ LspPosition(u, k) = b.position
        /\ b.position = LspPosition(v, k) /\ u = Replace(v, k, k, b.text)
    BY <2>2, LinkedProperty DEF Linked
  <2>5. b.position.column + 1 = a.position.column
    BY <1>3 DEF CanMerge
  <2>6. i = k + Len(b.text)
    <3> DEFINE s == LineStart(u, LineOf(u, i))
    <3>1. /\ a.position.line = LineOf(u, i) /\ a.position.column = i - s /\ s \in 0..i
      BY <2>3, PositionParts
    <3>2. /\ b.position.line = LineOf(u, k) /\ b.position.column = k - LineStart(u, LineOf(u, k))
          /\ LineStart(u, LineOf(u, k)) \in 0..k
      BY <2>4, PositionParts
    <3>3. LineStart(u, LineOf(u, k)) = s
      BY <1>1, <3>1, <3>2
    <3> HIDE DEF s
    <3>4. b.position.column = k - s /\ a.position.column = i - s /\ s \in 0..i
      BY <3>1, <3>2, <3>3
    <3>5. i \in Nat /\ k \in Nat
      BY <2>3, <2>4
    <3>6. QED
      BY <1>1, <2>5, <3>4, <3>5
  <2>7. t = Replace(v, k, k, b.text \o a.text)
    <3>1. t = Replace(Replace(v, k, k, b.text), k + Len(b.text), k + Len(b.text), a.text)
      BY <2>3, <2>4, <2>6
    <3>2. k \in 0..Len(v) /\ a.text \in Seq(Char) /\ b.text \in Seq(Char)
      BY <2>3, <2>4
    <3>3. Replace(Replace(v, k, k, b.text), k + Len(b.text), k + Len(b.text), a.text)
            = Replace(v, k, k, b.text \o a.text)
      BY <3>2, InsertBehind
    <3>4. QED
      BY <3>1, <3>3
  <2>8. /\ Merge(a, b).kind = b.kind /\ Merge(a, b).position = b.position
        /\ Merge(a, b).text = b.text \o a.text
    BY <1>3 DEF Merge, Action
  <2>9. Linked(Merge(a, b), v, t, k)
    BY <2>4, <2>7, <2>8 DEF Linked
  <2>10. Merge(a, b).kind # "Insert"
    BY <1>1, <1>3, <2>8
  <2>11. QED
    BY <2>9, <2>10 DEF Links
<1>4. QED
  BY <1>2, <1>3

-----------------------------------------------------------------------------
(***************************************************************************)
(* The versions the actions lead through: up to the current text those     *)
(* that can be undone, and from it on those that were undone, last first.  *)
(***************************************************************************)
IsPast(h, done, t) ==
  /\ h \in [0..Len(done) -> Seq(Char)]
  /\ h[Len(done)] = t
  /\ \A k \in 1..Len(done) : Links(done[k], h[k - 1], h[k])

IsFuture(f, undone, t) ==
  /\ f \in [0..Len(undone) -> Seq(Char)]
  /\ f[Len(undone)] = t
  /\ \A k \in 1..Len(undone) : Links(undone[k], f[k], f[k - 1])

(* What a push makes of n + 1 versions h: the last one replaced, another    *)
(* one behind them, or that with the first one dropped.                     *)
Replaced(h, n, g, m) == n > 0 /\ m = n /\ \A k \in 0..n - 1 : g[k] = h[k]
Lengthened(h, n, g, m) == n <= MaxHistory /\ m = n + 1 /\ \A k \in 0..n : g[k] = h[k]
Shifted(h, n, g, m) == n = MaxHistory + 1 /\ m = n /\ \A k \in 0..n - 1 : g[k] = h[k + 1]

Grown(h, n, g, m) == Replaced(h, n, g, m) \/ Lengthened(h, n, g, m) \/ Shifted(h, n, g, m)

LEMMA NoVersions ==
  ASSUME NEW d, Len(d) = 0, NEW t \in Seq(Char)
  PROVE  IsPast([k \in 0..0 |-> t], d, t) /\ IsFuture([k \in 0..0 |-> t], d, t)
<1>1. [k \in 0..0 |-> t] \in [0..0 -> Seq(Char)] /\ [k \in 0..0 |-> t][0] = t
  OBVIOUS
<1>2. \A k \in 1..0 : FALSE
  OBVIOUS
<1>3. QED
  BY <1>1, <1>2 DEF IsPast, IsFuture

LEMMA PushVersions ==
  ASSUME HistoryTyped, text' \in Seq(Char), text \in Seq(Char),
         NEW h, IsPast(h, Done, text), NEW action \in Action, Push(action), Links(action, text, text')
  PROVE  /\ redo_stack' = <<>> /\ Len(redo_stack') = 0
         /\ \E g : IsPast(g, Done', text') /\ Grown(h, Len(Done), g, Len(Done'))
<1> DEFINE n == Len(Done)
           d == Done
           e == Done'
           u == text'
<1>1. /\ redo_stack' = <<>>
      /\ PushMerges(d, e, action) \/ PushAppends(d, e, action) \/ PushDrops(d, e, action)
  BY PushProperty
<1>2. n \in Nat /\ n <= MaxHistory + 1 /\ MaxHistory \in Nat /\ \A k \in 1..n : d[k] \in Action
  BY DoneProperty
<1>3. /\ h \in [0..n -> Seq(Char)] /\ h[n] = text
      /\ \A k \in 1..n : Links(d[k], h[k - 1], h[k])
  BY DEF IsPast
<1>4. u \in Seq(Char) /\ Links(action, text, u)
  OBVIOUS
<1> HIDE DEF n, d, e, u
<1> USE DEF n
<1>5. ASSUME PushMerges(d, e, action)
      PROVE  \E g : IsPast(g, e, u) /\ Grown(h, n, g, Len(e))
  <2>1. /\ n = Len(d) /\ n > 0 /\ CanMerge(d[n], action) /\ Len(e) = n
        /\ \A k \in 1..n - 1 : e[k] = d[k]
        /\ e[n] = Merge(d[n], action)
    BY <1>5 DEF PushMerges, d
  <2> HIDE DEF n
  <2> DEFINE g == [k \in 0..n |-> IF k = n THEN u ELSE h[k]]
  <2>2. /\ g \in [0..n -> Seq(Char)] /\ g[n] = u /\ \A k \in 0..n - 1 : g[k] = h[k]
    BY <1>2, <1>3, <1>4
  <2> HIDE DEF g
  <2>3. ASSUME NEW k \in 1..n PROVE Links(e[k], g[k - 1], g[k])
    <3>1. CASE k = n
      <4>1. n \in 1..n /\ n - 1 \in 0..n - 1 /\ n - 1 \in 0..n
        BY <1>2, <2>1
      <4>2. d[n] \in Action /\ Links(d[n], h[n - 1], text) /\ h[n - 1] \in Seq(Char)
        BY <1>2, <1>3, <4>1
      <4>3. Links(Merge(d[n], action), h[n - 1], u)
        BY <1>4, <2>1, <4>2, MergeLinks
      <4>4. QED
        BY <2>1, <2>2, <3>1, <4>1, <4>3
    <3>2. CASE k # n
      <4>1. k \in 1..n - 1 /\ k \in 0..n - 1 /\ k - 1 \in 0..n - 1
        BY <1>2, <3>2
      <4>2. QED
        BY <1>3, <2>1, <2>2, <4>1
    <3>3. QED
      BY <3>1, <3>2
  <2>4. IsPast(g, e, u)
    BY <2>1, <2>2, <2>3 DEF IsPast
  <2>5. Grown(h, n, g, Len(e))
    BY <2>1, <2>2 DEF Grown, Replaced
  <2>6. QED
    BY <2>4, <2>5
<1>6. ASSUME PushAppends(d, e, action)
      PROVE  \E g : IsPast(g, e, u) /\ Grown(h, n, g, Len(e))
  <2>1. /\ n = Len(d) /\ n <= MaxHistory /\ Len(e) = n + 1
        /\ \A k \in 1..n : e[k] = d[k]
        /\ e[n + 1] = action
    BY <1>6 DEF PushAppends, d
  <2> HIDE DEF n
  <2> DEFINE g == [k \in 0..n + 1 |-> IF k = n + 1 THEN u ELSE h[k]]
  <2>2. /\ g \in [0..n + 1 -> Seq(Char)] /\ g[n + 1] = u /\ \A k \in 0..n : g[k] = h[k]
    BY <1>2, <1>3, <1>4
  <2> HIDE DEF g
  <2>3. ASSUME NEW k \in 1..n + 1 PROVE Links(e[k], g[k - 1], g[k])
    <3>1. CASE k = n + 1
      <4>1. k - 1 = n /\ n \in 0..n
        BY <1>2, <3>1
      <4>2. QED
        BY <1>3, <1>4, <2>1, <2>2, <3>1, <4>1
    <3>2. CASE k # n + 1
      <4>1. k \in 1..n /\ k \in 0..n /\ k - 1 \in 0..n
        BY <1>2, <3>2
      <4>2. QED
        BY <1>3, <2>1, <2>2, <4>1
    <3>3. QED
      BY <3>1, <3>2
  <2>4. IsPast(g, e, u)
    BY <2>1, <2>2, <2>3 DEF IsPast
  <2>5. Grown(h, n, g, Len(e))
    BY <2>1, <2>2 DEF Grown, Lengthened
  <2>6. QED
    BY <2>4, <2>5
<1>7. ASSUME PushDrops(d, e, action)
      PROVE  \E g : IsPast(g, e, u) /\ Grown(h, n, g, Len(e))
  <2>1. /\ n = Len(d) /\ n = MaxHistory + 1 /\ Len(e) = n
        /\ \A k \in 1..n - 1 : e[k] = d[k + 1]
        /\ e[n] = action
    BY <1>7 DEF PushDrops, d
  <2> HIDE DEF n
  <2> DEFINE g == [k \in 0..n |-> IF k = n THEN u ELSE h[k + 1]]
  <2>2. /\ g \in [0..n -> Seq(Char)] /\ g[n] = u /\ \A k \in 0..n - 1 : g[k] = h[k + 1]
    <3>1. \A k \in 0..n : k # n => k + 1 \in 0..n
      BY <1>2
    <3>2. QED
      BY <1>2, <1>3, <1>4, <3>1
  <2> HIDE DEF g
  <2>3. ASSUME NEW k \in 1..n PROVE Links(e[k], g[k - 1], g[k])
    <3>1. CASE k = n
      <4>1. n - 1 \in 0..n - 1 /\ n - 1 + 1 = n
        BY <1>2, <2>1
      <4>2. QED
        BY <1>3, <1>4, <2>1, <2>2, <3>1, <4>1
    <3>2. CASE k # n
      <4>1. k \in 1..n - 1 /\ k \in 0..n - 1 /\ k - 1 \in 0..n - 1 /\ k - 1 + 1 = k /\ k + 1 \in 1..n
            /\ k + 1 - 1 = k
        BY <1>2, <3>2
      <4>2. Links(d[k + 1], h[k + 1 - 1], h[k + 1])
        BY <1>3, <4>1
      <4>3. QED
        BY <2>1, <2>2, <4>1, <4>2
    <3>3. QED
      BY <3>1, <3>2
  <2>4. IsPast(g, e, u)
    BY <2>1, <2>2, <2>3 DEF IsPast
  <2>5. Grown(h, n, g, Len(e))
    BY <2>1, <2>2 DEF Grown, Shifted
  <2>6. QED
    BY <2>4, <2>5
<1>8. \E g : IsPast(g, e, u) /\ Grown(h, n, g, Len(e))
  BY <1>1, <1>5, <1>6, <1>7
<1>9. Len(redo_stack') = 0
  BY <1>1, EmptySeq
<1>10. QED
  BY <1>1, <1>8, <1>9 DEF d, e, u, n

LEMMA UndoVersions ==
  ASSUME Marks = {}, Inv, Undo,
         NEW h, IsPast(h, Done, text), NEW f, IsFuture(f, redo_stack, text)
  PROVE  /\ panicked' = panicked /\ Len(Done) > 0 /\ text' = h[Len(Done) - 1]
         /\ Len(Done') = Len(Done) - 1 /\ Len(redo_stack') = Len(redo_stack) + 1
         /\ IsPast([k \in 0..Len(Done) - 1 |-> h[k]], Done', text')
         /\ IsFuture([k \in 0..Len(redo_stack) + 1 |->
                        IF k = Len(redo_stack) + 1 THEN text' ELSE f[k]], redo_stack', text')
<1> DEFINE n == Len(Done)
           m == Len(redo_stack)
           g == [k \in 0..n - 1 |-> h[k]]
           e == [k \in 0..m + 1 |-> IF k = m + 1 THEN text' ELSE f[k]]
<1>1. /\ text \in Seq(Char) /\ HistoryTyped /\ PopUndo /\ Last(Done) \in Action
      /\ Applies(Inverted(Last(Done))) /\ Inverted(Last(Done)) \in Action
  BY UndoProperty, ActionTyped DEF Inv, TypeOK
<1>2. /\ n > 0 /\ Last(Done) = Done[n]
      /\ Len(Done') = n - 1
      /\ \A k \in 1..n - 1 : Done'[k] = Done[k]
      /\ Len(redo_stack') = m + 1
      /\ \A k \in 1..m : redo_stack'[k] = redo_stack[k]
      /\ redo_stack'[m + 1] = Last(Done)
  BY <1>1, PopUndoProperty
<1>3. n \in Nat /\ m \in Nat
  BY <1>1, DoneProperty
<1>4. /\ h \in [0..n -> Seq(Char)] /\ h[n] = text
      /\ \A k \in 1..n : Links(Done[k], h[k - 1], h[k])
      /\ f \in [0..m -> Seq(Char)] /\ f[m] = text
      /\ \A k \in 1..m : Links(redo_stack[k], f[k], f[k - 1])
  BY DEF IsPast, IsFuture
<1> HIDE DEF n, m
<1>5. n \in 1..n /\ n - 1 \in 0..n /\ n - 1 \in 0..n - 1
  BY <1>2, <1>3
<1>6. Links(Last(Done), h[n - 1], text) /\ h[n - 1] \in Seq(Char)
  BY <1>2, <1>4, <1>5
<1>7. Links(Inverted(Last(Done)), text, h[n - 1])
  BY <1>1, <1>6, LinkInverted
<1>8. text' = h[n - 1] /\ panicked' = panicked
  BY <1>1, <1>6, <1>7, LinkIsApplied
<1>9. IsPast(g, Done', text')
  <2>1. g \in [0..n - 1 -> Seq(Char)] /\ \A k \in 0..n - 1 : g[k] = h[k]
    BY <1>3, <1>4
  <2> HIDE DEF g
  <2>2. g[n - 1] = text'
    BY <1>5, <1>8, <2>1
  <2>3. ASSUME NEW k \in 1..n - 1 PROVE Links(Done'[k], g[k - 1], g[k])
    <3>1. k \in 1..n /\ k \in 0..n - 1 /\ k - 1 \in 0..n - 1
      BY <1>3
    <3>2. QED
      BY <1>2, <1>4, <2>1, <3>1
  <2>4. QED
    BY <1>2, <2>1, <2>2, <2>3 DEF IsPast
<1>10. IsFuture(e, redo_stack', text')
  <2> DEFINE u == text'
  <2>1. u \in Seq(Char)
    BY <1>6, <1>8
  <2>2. e = [k \in 0..m + 1 |-> IF k = m + 1 THEN u ELSE f[k]]
    OBVIOUS
  <2> HIDE DEF u, e
  <2>3. e \in [0..m + 1 -> Seq(Char)] /\ e[m + 1] = u /\ \A k \in 0..m : e[k] = f[k]
    BY <1>3, <1>4, <2>1, <2>2
  <2>4. ASSUME NEW k \in 1..m + 1 PROVE Links(redo_stack'[k], e[k], e[k - 1])
    <3>1. CASE k = m + 1
      <4>1. k - 1 = m /\ m \in 0..m
        BY <1>3, <3>1
      <4>2. Links(redo_stack'[k], u, text)
        <5>1. Links(Last(Done), u, text)
          BY <1>6, <1>8 DEF u
        <5>2. QED
          BY <1>2, <3>1, <5>1
      <4>3. e[k] = u /\ e[k - 1] = text
        BY <1>4, <2>3, <3>1, <4>1
      <4>4. QED
        BY <4>2, <4>3
    <3>2. CASE k # m + 1
      <4>1. k \in 1..m /\ k \in 0..m /\ k - 1 \in 0..m
        BY <1>3, <3>2
      <4>2. QED
        BY <1>2, <1>4, <2>3, <4>1
    <3>3. QED
      BY <3>1, <3>2
  <2>5. IsFuture(e, redo_stack', u)
    BY <1>2, <2>3, <2>4 DEF IsFuture
  <2>6. QED
    BY <2>5 DEF u
<1>11. QED
  BY <1>2, <1>8, <1>9, <1>10 DEF n, m

LEMMA RedoVersions ==
  ASSUME Marks = {}, Inv, Redo,
         NEW h, IsPast(h, Done, text), NEW f, IsFuture(f, redo_stack, text)
  PROVE  /\ panicked' = panicked /\ Len(redo_stack) > 0 /\ text' = f[Len(redo_stack) - 1]
         /\ Len(Done') = Len(Done) + 1 /\ Len(redo_stack') = Len(redo_stack) - 1
         /\ IsPast([k \in 0..Len(Done) + 1 |-> IF k = Len(Done) + 1 THEN text' ELSE h[k]], Done', text')
         /\ IsFuture([k \in 0..Len(redo_stack) - 1 |-> f[k]], redo_stack', text')
<1> DEFINE n == Len(Done)
           m == Len(redo_stack)
           g == [k \in 0..n + 1 |-> IF k = n + 1 THEN text' ELSE h[k]]
           e == [k \in 0..m - 1 |-> f[k]]
<1>1. /\ text \in Seq(Char) /\ HistoryTyped /\ PopRedo /\ Last(redo_stack) \in Action
      /\ Applies(Last(redo_stack))
  BY RedoProperty DEF Inv, TypeOK
<1>2. /\ m > 0 /\ Last(redo_stack) = redo_stack[m]
      /\ Len(redo_stack') = m - 1
      /\ \A k \in 1..m - 1 : redo_stack'[k] = redo_stack[k]
      /\ Len(Done') = n + 1
      /\ \A k \in 1..n : Done'[k] = Done[k]
      /\ Done'[n + 1] = Last(redo_stack)
  BY <1>1, PopRedoProperty
<1>3. n \in Nat /\ m \in Nat
  BY <1>1, DoneProperty
<1>4. /\ h \in [0..n -> Seq(Char)] /\ h[n] = text
      /\ \A k \in 1..n : Links(Done[k], h[k - 1], h[k])
      /\ f \in [0..m -> Seq(Char)] /\ f[m] = text
      /\ \A k \in 1..m : Links(redo_stack[k], f[k], f[k - 1])
  BY DEF IsPast, IsFuture
<1> HIDE DEF n, m
<1>5. m \in 1..m /\ m - 1 \in 0..m /\ m - 1 \in 0..m - 1
  BY <1>2, <1>3
<1>6. Links(Last(redo_stack), text, f[m - 1]) /\ f[m - 1] \in Seq(Char)
  BY <1>2, <1>4, <1>5
<1>7. text' = f[m - 1] /\ panicked' = panicked
  BY <1>1, <1>6, LinkIsApplied
<1>8. IsFuture(e, redo_stack', text')
  <2>1. e \in [0..m - 1 -> Seq(Char)] /\ \A k \in 0..m - 1 : e[k] = f[k]
    BY <1>3, <1>4
  <2> HIDE DEF e
  <2>2. e[m - 1] = text'
    BY <1>5, <1>7, <2>1
  <2>3. ASSUME NEW k \in 1..m - 1 PROVE Links(redo_stack'[k], e[k], e[k - 1])
    <3>1. k \in 1..m /\ k \in 0..m - 1 /\ k - 1 \in 0..m - 1
      BY <1>3
    <3>2. QED
      BY <1>2, <1>4, <2>1, <3>1
  <2>4. QED
    BY <1>2, <2>1, <2>2, <2>3 DEF IsFuture
<1>9. IsPast(g, Done', text')
  <2> DEFINE u == text'
  <2>1. u \in Seq(Char)
    BY <1>6, <1>7
  <2>2. g = [k \in 0..n + 1 |-> IF k = n + 1 THEN u ELSE h[k]]
    OBVIOUS
  <2> HIDE DEF u, g
  <2>3. g \in [0..n + 1 -> Seq(Char)] /\ g[n + 1] = u /\ \A k \in 0..n : g[k] = h[k]
    BY <1>3, <1>4, <2>1, <2>2
  <2>4. ASSUME NEW k \in 1..n + 1 PROVE Links(Done'[k], g[k - 1], g[k])
    <3>1. CASE k = n + 1
      <4>1. k - 1 = n /\ n \in 0..n
        BY <1>3, <3>1
      <4>2. Links(Done'[k], text, u)
        <5>1. Links(Last(redo_stack), text, u)
          BY <1>6, <1>7 DEF u
        <5>2. QED
          BY <1>2, <3>1, <5>1
      <4>3. g[k] = u /\ g[k - 1] = text
        BY <1>4, <2>3, <3>1, <4>1
      <4>4. QED
        BY <4>2, <4>3
    <3>2. CASE k # n + 1
      <4>1. k \in 1..n /\ k \in 0..n /\ k - 1 \in 0..n
        BY <1>3, <3>2
      <4>2. QED
        BY <1>2, <1>4, <2>3, <4>1
    <3>3. QED
      BY <3>1, <3>2
  <2>5. IsPast(g, Done', u)
    BY <1>2, <2>3, <2>4 DEF IsPast
  <2>6. QED
    BY <2>5 DEF u
<1>10. QED
  BY <1>2, <1>7, <1>8, <1>9 DEF n, m

-----------------------------------------------------------------------------
(***************************************************************************)
(* Undo and redo never panic.                                              *)
(***************************************************************************)
LEMMA InsertLinks ==
  ASSUME Marks = {}, Inv, NEW c \in CursorsOf(text), NEW s \in Insertions, Insert(c, s)
  PROVE  /\ Insertion(c, s) \in Action /\ Push(Insertion(c, s))
         /\ Links(Insertion(c, s), text, text') /\ panicked' = panicked
<1>1. text \in Seq(Char)
  BY DEF Inv, TypeOK
<1>2. /\ s \in Seq(Char) /\ text' = Replace(text, CharIdx(text, c), CharIdx(text, c), s)
      /\ Push(Insertion(c, s)) /\ Insertion(c, s) \in Action
  BY InsertProperty
<1>3. panicked' = panicked
  BY DEF Insert, UserEdit
<1>4. QED
  BY <1>1, <1>2, <1>3, InsertionLinks

LEMMA RemovalLinks ==
  ASSUME Marks = {}, Inv, NEW i, NEW j, NEW p, Removes(i, j, p), CharIdx(text, p) = i
  PROVE  \E action \in Action : Push(action) /\ Links(action, text, text')
<1>1. text \in Seq(Char)
  BY DEF Inv, TypeOK
<1>2. Links(Deletion(p, SubSeq(text, i + 1, j)), text, text')
  BY <1>1, DeletionLinks
<1>3. Push(Deletion(p, SubSeq(text, i + 1, j))) /\ Deletion(p, SubSeq(text, i + 1, j)) \in Action
  BY DEF Removes
<1>4. QED
  BY <1>2, <1>3

(* Every edit of the user's is pushed as an action that leads to its text.  *)
EditOfUser ==
  \E c \in CursorsOf(text) :
    \/ \E s \in Insertions : Insert(c, s)
    \/ DeleteChar(c) \/ Backspace(c)
    \/ \E end \in CursorsOf(text) : DeleteRange(c, end)

LEMMA EditLinks ==
  ASSUME Marks = {}, Inv, EditOfUser
  PROVE  /\ \E action \in Action : Push(action) /\ Links(action, text, text')
         /\ panicked' = panicked /\ Inv'
<1>1. text \in Seq(Char)
  BY DEF Inv, TypeOK
<1>2. PICK c \in CursorsOf(text) :
        \/ \E s \in Insertions : Insert(c, s)
        \/ DeleteChar(c) \/ Backspace(c)
        \/ \E end \in CursorsOf(text) : DeleteRange(c, end)
  BY DEF EditOfUser
<1>3. ASSUME NEW s \in Insertions, Insert(c, s)
      PROVE  /\ \E action \in Action : Push(action) /\ Links(action, text, text')
             /\ panicked' = panicked /\ Inv'
  BY <1>3, InsertLinks, InsertProperty
<1>4. CASE DeleteChar(c)
  <2>1. Removes(CharIdx(text, c), CharIdx(text, c) + 1, c) /\ Inv'
    BY <1>4, DeleteCharProperty
  <2>2. panicked' = panicked
    BY <1>4 DEF DeleteChar, UserEdit
  <2>3. QED
    BY <2>1, <2>2, RemovalLinks
<1>5. CASE Backspace(c)
  <2>1. /\ CharIdx(text, c) > 0
        /\ Removes(CharIdx(text, c) - 1, CharIdx(text, c), GraphemeBefore(c)) /\ Inv'
    BY <1>5, BackspaceProperty
  <2>2. panicked' = panicked
    BY <1>5 DEF Backspace, UserEdit
  <2>3. CharIdx(text, GraphemeBefore(c)) = CharIdx(text, c) - 1
    BY <1>1, <2>1, GraphemeBeforePlace
  <2>4. QED
    BY <2>1, <2>2, <2>3, RemovalLinks
<1>6. ASSUME NEW end \in CursorsOf(text), DeleteRange(c, end)
      PROVE  /\ \E action \in Action : Push(action) /\ Links(action, text, text')
             /\ panicked' = panicked /\ Inv'
  <2>1. Removes(CharIdx(text, c), CharIdx(text, end), c) /\ Inv'
    BY <1>6, DeleteRangeProperty
  <2>2. panicked' = panicked
    BY <1>6 DEF DeleteRange, UserEdit
  <2>3. QED
    BY <2>1, <2>2, RemovalLinks
<1>7. QED
  BY <1>2, <1>3, <1>4, <1>5, <1>6

HistoryStands(done, undone, t) ==
  /\ \E h : IsPast(h, done, t)
  /\ \E f : IsFuture(f, undone, t)

HInv == Inv /\ panicked = FALSE /\ HistoryStands(Done, redo_stack, text)

LEMMA HInvTyped ==
  ASSUME HInv
  PROVE  Inv /\ text \in Seq(Char) /\ HistoryTyped
BY TypeOKParts DEF HInv, Inv

LEMMA EditVersions ==
  ASSUME Marks = {}, HInv, EditOfUser, NEW h, IsPast(h, Done, text)
  PROVE  /\ Len(redo_stack') = 0 /\ text' \in Seq(Char) /\ Inv' /\ panicked' = panicked
         /\ \E g : IsPast(g, Done', text') /\ Grown(h, Len(Done), g, Len(Done'))
<1>1. Inv /\ text \in Seq(Char) /\ HistoryTyped
  BY HInvTyped
<1>2. /\ \E action \in Action : Push(action) /\ Links(action, text, text')
      /\ panicked' = panicked /\ Inv'
  BY <1>1, EditLinks
<1>3. text' \in Seq(Char)
  BY <1>2 DEF Inv, TypeOK
<1>4. PICK action \in Action : Push(action) /\ Links(action, text, text')
  BY <1>2
<1>5. /\ Len(redo_stack') = 0
      /\ \E g : IsPast(g, Done', text') /\ Grown(h, Len(Done), g, Len(Done'))
  BY <1>1, <1>3, <1>4, PushVersions
<1>6. QED
  BY <1>2, <1>3, <1>5

LEMMA HInvInit == Marks = {} /\ Init => HInv
<1> SUFFICES ASSUME Marks = {}, Init PROVE HInv
  OBVIOUS
<1>1. Inv /\ panicked = FALSE
  BY InvInit DEF Init
<1>2. text \in Seq(Char) /\ Len(Done) = 0 /\ Len(redo_stack) = 0
  BY <1>1, NoHistory DEF Init, Inv, TypeOK
<1>3. HistoryStands(Done, redo_stack, text)
  BY <1>2, NoVersions DEF HistoryStands
<1>4. QED
  BY <1>1, <1>3 DEF HInv

LEMMA HInvStep == Marks = {} /\ HInv /\ [Next]_vars => HInv'
<1> SUFFICES ASSUME Marks = {}, HInv, [Next]_vars PROVE HInv'
  OBVIOUS
<1>1. Inv /\ text \in Seq(Char) /\ HistoryTyped /\ panicked = FALSE
  BY HInvTyped DEF HInv
<1>2. PICK h : IsPast(h, Done, text)
  BY DEF HInv, HistoryStands
<1>3. PICK f : IsFuture(f, redo_stack, text)
  BY DEF HInv, HistoryStands
<1>4. Inv'
  BY <1>1, InvStep
<1>5. text' \in Seq(Char)
  BY <1>4 DEF Inv, TypeOK
<1>6. CASE EditOfUser
  <2>1. /\ Len(redo_stack') = 0 /\ panicked' = panicked
        /\ \E g : IsPast(g, Done', text')
    BY <1>2, <1>6, EditVersions
  <2>2. \E e : IsFuture(e, redo_stack', text')
    BY <1>5, <2>1, NoVersions
  <2>3. QED
    BY <1>1, <1>4, <2>1, <2>2 DEF HInv, HistoryStands
<1>7. CASE Undo
  <2>1. /\ panicked' = panicked
        /\ \E g : IsPast(g, Done', text')
        /\ \E e : IsFuture(e, redo_stack', text')
    BY <1>1, <1>2, <1>3, <1>7, UndoVersions
  <2>2. QED
    BY <1>1, <1>4, <2>1 DEF HInv, HistoryStands
<1>8. CASE Redo
  <2>1. /\ panicked' = panicked
        /\ \E g : IsPast(g, Done', text')
        /\ \E e : IsFuture(e, redo_stack', text')
    BY <1>1, <1>2, <1>3, <1>8, RedoVersions
  <2>2. QED
    BY <1>1, <1>4, <2>1 DEF HInv, HistoryStands
<1>9. ASSUME Done' = Done, redo_stack' = redo_stack, text' = text, panicked' = panicked
      PROVE  HInv'
  BY <1>1, <1>2, <1>3, <1>4, <1>9 DEF HInv, HistoryStands
<1>10. CASE RedoNothing
  <2>1. CommitPending /\ text' = text /\ panicked' = panicked
    BY <1>1, <1>10, RedoNothingProperty
  <2>2. Done' = Done /\ redo_stack' = redo_stack
    BY <1>1, <2>1, CommitProperty
  <2>3. QED
    BY <1>9, <2>1, <2>2
<1>11. ASSUME NEW t \in Documents, Reload(t) PROVE HInv'
  <2>1. panicked' = panicked /\ Len(Done') = 0 /\ Len(redo_stack') = 0
    BY <1>1, <1>11, ReloadProperty
  <2>2. HistoryStands(Done', redo_stack', text')
    BY <1>5, <2>1, NoVersions DEF HistoryStands
  <2>3. QED
    BY <1>1, <1>4, <2>1, <2>2 DEF HInv, HistoryStands
<1>12. CASE Flush
  <2>1. UNCHANGED <<historyVars, text, panicked>> /\ Done' = Done
    BY <1>1, <1>12, FlushProperty
  <2>2. QED
    BY <1>9, <2>1 DEF historyVars
<1>13. CASE UNCHANGED vars
  <2>1. UNCHANGED <<historyVars, text, panicked>>
    BY <1>13 DEF vars
  <2>2. Done' = Done
    BY <2>1 DEF historyVars, Done
  <2>3. QED
    BY <1>9, <2>1, <2>2 DEF historyVars
<1>14. QED
  BY <1>6, <1>7, <1>8, <1>10, <1>11, <1>12, <1>13 DEF Next, EditOfUser

(* Undo and redo never reach past the end of the rope, in texts without     *)
(* combining marks and whatever the size of the history: each action on the *)
(* stacks leads between two versions the document had, through merged       *)
(* keystrokes and a full history, so its line and column are those of the   *)
(* place it was recorded at when apply_action looks them up again.          *)
THEOREM NoPanicHolds ==
  ASSUME Marks = {}
  PROVE  Spec => []NoPanic
<1>1. Init => HInv
  BY HInvInit
<1>2. HInv /\ [Next]_vars => HInv'
  BY HInvStep
<1>3. HInv => NoPanic
  BY DEF HInv, NoPanic
<1>4. QED
  BY <1>1, <1>2, <1>3, PTL DEF Spec

-----------------------------------------------------------------------------
(***************************************************************************)
(* The cursor after an insertion.                                          *)
(***************************************************************************)
(* The lines of a text put into another are counted from its own.           *)
LEMMA LineOfInserted ==
  ASSUME NEW t \in Seq(Char), NEW i \in 0..Len(t), NEW s \in Seq(Char),
         NEW u, Spliced(t, i, i, s, u)
  PROVE  \A k \in 0..Len(s) : LineOf(u, i + k) = LineOf(t, i) + LineOf(s, k)
<1> DEFINE T == {k \in Nat : k <= Len(s) => LineOf(u, i + k) = LineOf(t, i) + LineOf(s, k)}
<1>1. i \in Nat /\ Len(s) \in Nat /\ LineOf(t, i) \in Nat
  BY LenProperties, NewlinesFinite
<1>2. 0 \in T
  <2>1. LineOf(u, i) = LineOf(t, i)
    <3>1. \A k \in 1..i : u[k] = t[k]
      BY DEF Spliced
    <3>2. QED
      BY <1>1, <3>1, LineOfPrefix
  <2>2. i + 0 = i /\ LineOf(s, 0) = 0
    BY <1>1, LineOfZero
  <2>3. LineOf(u, i + 0) = LineOf(t, i) + LineOf(s, 0)
    BY <1>1, <2>1, <2>2
  <2>4. QED
    BY <2>3
<1>3. ASSUME NEW k \in Nat \ {0}, k - 1 \in T
      PROVE  k \in T
  <2>1. SUFFICES ASSUME k <= Len(s) PROVE LineOf(u, i + k) = LineOf(t, i) + LineOf(s, k)
    OBVIOUS
  <2>2. LineOf(u, i + (k - 1)) = LineOf(t, i) + LineOf(s, k - 1)
    BY <1>1, <1>3, <2>1
  <2>3. /\ k - 1 \in Nat /\ i + (k - 1) \in Nat /\ (k - 1) + 1 = k /\ (i + (k - 1)) + 1 = i + k
        /\ k \in 1..Len(s)
    BY <1>1, <2>1
  <2>4. u[i + k] = s[k]
    BY <2>3 DEF Spliced
  <2>5. LineOf(s, k) = IF s[k] = Newline THEN LineOf(s, k - 1) + 1 ELSE LineOf(s, k - 1)
    <3>1. LineOf(s, (k - 1) + 1) = IF s[(k - 1) + 1] = Newline THEN LineOf(s, k - 1) + 1 ELSE LineOf(s, k - 1)
      BY <2>3, LineOfStep
    <3>2. QED
      BY <2>3, <3>1
  <2>6. LineOf(u, i + k) = IF u[i + k] = Newline THEN LineOf(u, i + (k - 1)) + 1 ELSE LineOf(u, i + (k - 1))
    <3> DEFINE o == i + (k - 1)
    <3>1. o \in Nat /\ o + 1 = i + k
      BY <2>3
    <3> HIDE DEF o
    <3>2. LineOf(u, o + 1) = IF u[o + 1] = Newline THEN LineOf(u, o) + 1 ELSE LineOf(u, o)
      BY <3>1, LineOfStep
    <3>3. QED
      BY <3>1, <3>2 DEF o
  <2>7. LineOf(s, k - 1) \in Nat
    BY <2>3, NewlinesFinite
  <2>8. QED
    BY <1>1, <2>2, <2>4, <2>5, <2>6, <2>7
<1> HIDE DEF T
<1>4. T = Nat
  BY <1>2, <1>3, Upward DEF T
<1>5. ASSUME NEW k \in 0..Len(s) PROVE LineOf(u, i + k) = LineOf(t, i) + LineOf(s, k)
  <2>1. k \in Nat /\ k <= Len(s)
    BY <1>1
  <2>2. QED
    BY <1>4, <2>1 DEF T
<1>6. QED
  BY <1>5

(* The last line of a text, and the one advance_cursor counts on.           *)
LEMMA LastLineLen ==
  ASSUME Marks = {}, NEW s \in Seq(Char)
  PROVE  /\ LineOf(s, Len(s)) \in 0..LineCount(s) - 1
         /\ LineStart(s, LineOf(s, Len(s))) \in 0..Len(s)
         /\ LineLen(s, LineOf(s, Len(s))) = Len(s) - LineStart(s, LineOf(s, Len(s)))
<1> DEFINE l == LineOf(s, Len(s))
           b == LineStart(s, l)
<1>1. Len(s) \in Nat /\ Len(s) \in 0..Len(s)
  BY LenProperties
<1>2. /\ l \in 0..LineCount(s) - 1 /\ b \in 0..Len(s)
      /\ LspPosition(s, Len(s)).line = l /\ LspPosition(s, Len(s)).column = Len(s) - b
  BY <1>1, PositionParts
<1>3. LspPosition(s, Len(s)) \in CursorsOf(s)
  BY <1>1, PositionIsCursor
<1>4. Len(s) - b <= LineLen(s, l)
  BY <1>2, <1>3, CursorsOfProperty
<1>5. LineLen(s, l) <= Len(s) - b /\ LineLen(s, l) \in Nat
  <2>1. LineEnd(s, l) = Len(s)
    <3>1. l = LineCount(s) - 1
      BY <1>1, NewlinesFinite DEF LineCount
    <3>2. QED
      BY <3>1 DEF LineEnd
  <2>2. Len(s) \in LineStart(s, l)..LineEnd(s, l)
    BY <1>1, <1>2, <2>1
  <2>3. Cardinality(Graphemes(s, l)) = Len(s) - b
    BY <1>2, <2>1, <2>2, PlainLine
  <2>4. QED
    BY <1>2, <2>3, GraphemesProperty
<1> HIDE DEF l, b
<1>6. LineLen(s, l) = Len(s) - b
  BY <1>1, <1>2, <1>4, <1>5
<1>7. QED
  BY <1>2, <1>6 DEF l, b

(* Inserting at a cursor, the computed cursor is the place behind it.       *)
LEMMA AdvanceIsBehind ==
  ASSUME Marks = {}, NEW t \in Seq(Char), NEW c \in CursorsOf(t), NEW s \in Seq(Char), s # <<>>,
         StrLines(s) > 1 => Last(s) # Newline,
         NEW u \in Seq(Char), Spliced(t, CharIdx(t, c), CharIdx(t, c), s, u)
  PROVE  /\ CharIdx(t, c) + Len(s) \in 0..Len(u)
         /\ AdvanceCursor(c, s) = LspPosition(u, CharIdx(t, c) + Len(s))
<1> DEFINE i == CharIdx(t, c)
           L == LineOf(s, Len(s))
           o == i + Len(s)
<1>1. /\ i \in 0..Len(t) /\ c = LspPosition(t, i)
  BY CursorIsPosition
<1>2. /\ Len(t) \in Nat /\ i \in Nat /\ i <= Len(t) /\ Len(s) \in Nat \ {0} /\ Len(u) = Len(t) + Len(s)
      /\ o \in Nat /\ o \in 0..Len(u) /\ i \in 0..Len(u)
  <2>1. Len(s) \in Nat \ {0} /\ Len(t) \in Nat
    BY EmptySeq, LenProperties
  <2>2. Len(u) = i + Len(s) + Len(t) - i
    BY DEF Spliced
  <2> HIDE DEF i
  <2>3. QED
    BY <1>1, <2>1, <2>2
<1>3. Spliced(t, i, i, s, u)
  OBVIOUS
<1>4. \A k \in 1..i : t[k] = u[k]
  BY <1>3 DEF Spliced
<1>5. c = LspPosition(u, i)
  BY <1>1, <1>2, <1>4, PositionPrefix
<1> HIDE DEF i
<1>6. /\ c.line = LineOf(u, i) /\ c.line \in Nat /\ c.column = i - LineStart(u, c.line)
      /\ LineStart(u, c.line) \in 0..i /\ c.column \in Nat
      /\ c.line \in 0..LineCount(u) - 1
  <2>1. /\ c.line = LineOf(u, i) /\ LineOf(u, i) \in Nat /\ c.column = i - LineStart(u, LineOf(u, i))
        /\ LineStart(u, LineOf(u, i)) \in 0..i /\ c \in Cursor
        /\ LineOf(u, i) \in 0..LineCount(u) - 1
    BY <1>2, <1>5, PositionParts
  <2>2. QED
    BY <2>1 DEF Cursor
<1>7. \A k \in 0..Len(s) : LineOf(u, i + k) = c.line + LineOf(s, k)
  <2>1. \A k \in 0..Len(s) : LineOf(u, i + k) = LineOf(t, i) + LineOf(s, k)
    BY <1>1, <1>3, LineOfInserted
  <2>2. LineOf(t, i) = c.line
    BY <1>1, PositionParts
  <2>3. QED
    BY <2>1, <2>2
<1>8. L \in Nat /\ LineCount(s) = L + 1 /\ LineOf(u, o) = c.line + L
  <2>1. Len(s) \in 0..Len(s)
    BY <1>2
  <2>2. QED
    BY <1>2, <1>7, <2>1, NewlinesFinite DEF LineCount
<1> HIDE DEF o, L
<1>9. LspPosition(u, o) = CursorAt(c.line + L, o - LineStart(u, c.line + L))
  BY <1>8 DEF LspPosition
(* A line of s that does not start it is one of u. *)
<1>10. ASSUME NEW k \in 1..Len(s), s[k] = Newline, LineOf(s, k) = L
       PROVE  LineStart(u, c.line + L) = i + k
  <2>1. i + k \in 0..Len(u)
    BY <1>2
  <2>2. LineOf(u, i + k) = c.line + L
    BY <1>7, <1>10
  <2>3. u[i + k] = Newline
    BY <1>3, <1>10 DEF Spliced
  <2>4. IsStart(u, c.line + L, i + k)
    BY <2>1, <2>2, <2>3 DEF IsStart
  <2>5. QED
    BY <2>4, LineStartIs
<1>11. CASE Last(s) = Newline
  <2>1. s[Len(s)] = Newline /\ Len(s) \in 1..Len(s)
    BY <1>2, <1>11 DEF Last
  <2>2. StrLines(s) = L
    BY <1>8, <1>11 DEF StrLines
  <2>3. L = 1
    <3>1. L # 0
      <4>1. LineOf(s, 0) < LineOf(s, Len(s))
        BY <1>2, <2>1, LineOfStrict
      <4>2. QED
        BY <1>8, <4>1, LineOfZero DEF L
    <3>2. ~(L > 1)
      BY <1>11, <2>2
    <3>3. QED
      BY <1>8, <3>1, <3>2
  <2>4. AdvanceCursor(c, s) = CursorAt(c.line + 1, 0)
    BY <1>11, <2>2, <2>3 DEF AdvanceCursor
  <2>5. LineStart(u, c.line + L) = o
    <3>1. LineOf(s, Len(s)) = L
      BY DEF L
    <3>2. LineStart(u, c.line + L) = i + Len(s)
      BY <1>10, <2>1, <3>1
    <3>3. QED
      BY <3>2 DEF o
  <2>6. o - o = 0
    BY <1>2
  <2>7. QED
    BY <1>2, <1>9, <2>3, <2>4, <2>5, <2>6 DEF i, o
<1>12. CASE Last(s) # Newline
  <2>1. StrLines(s) = L + 1
    BY <1>8, <1>12 DEF StrLines
  <2>2. /\ L \in 0..LineCount(s) - 1 /\ LineStart(s, L) \in 0..Len(s)
        /\ LineLen(s, L) = Len(s) - LineStart(s, L)
    BY LastLineLen DEF L
  <2>3. IsStart(s, L, LineStart(s, L))
    BY <2>2, LineStartProperty
  <2>4. CASE L = 0
    <3>1. AdvanceCursor(c, s) = CursorAt(c.line, c.column + LineLen(s, 0))
      BY <1>12, <2>1, <2>4 DEF AdvanceCursor
    <3>2. LineStart(s, 0) = 0
      <4>1. IsStart(s, 0, 0)
        BY <1>2, LineOfZero DEF IsStart
      <4>2. QED
        BY <4>1, LineStartIs
    <3>3. LineLen(s, 0) = Len(s)
      BY <1>2, <2>2, <2>4, <3>2
    <3>4. c.line + L = c.line
      BY <1>6, <2>4
    <3>5. c.column + LineLen(s, 0) = o - LineStart(u, c.line)
      <4>1. c.column = i - LineStart(u, c.line) /\ o = i + Len(s)
        BY <1>6 DEF o
      <4>2. LineStart(u, c.line) \in Int /\ i \in Int /\ Len(s) \in Int
        BY <1>2, <1>6
      <4>3. QED
        BY <3>3, <4>1, <4>2
    <3>6. QED
      BY <1>2, <1>9, <3>1, <3>4, <3>5 DEF i, o
  <2>5. CASE L # 0
    <3>1. AdvanceCursor(c, s) = CursorAt(c.line + StrLines(s) - 1, LineLen(s, StrLines(s) - 1))
      BY <1>8, <1>12, <2>1, <2>5 DEF AdvanceCursor
    <3>2. c.line + StrLines(s) - 1 = c.line + L /\ StrLines(s) - 1 = L
      BY <1>6, <1>8, <2>1
    <3>3. LineStart(s, L) # 0
      BY <2>3, <2>5, LineOfZero DEF IsStart
    <3>4. LineStart(u, c.line + L) = i + LineStart(s, L)
      <4>1. LineStart(s, L) \in 1..Len(s) /\ s[LineStart(s, L)] = Newline /\ LineOf(s, LineStart(s, L)) = L
        BY <1>2, <2>2, <2>3, <3>3 DEF IsStart
      <4>2. QED
        BY <1>10, <4>1
    <3>5. o - LineStart(u, c.line + L) = LineLen(s, L)
      BY <1>2, <2>2, <3>4 DEF o
    <3>6. QED
      BY <1>2, <1>9, <3>1, <3>2, <3>5 DEF i, o
  <2>6. QED
    BY <2>4, <2>5
<1>13. QED
  BY <1>11, <1>12

LEMMA InsertMovesBehind ==
  ASSUME Marks = {}, \A s \in Insertions : StrLines(s) > 1 => Last(s) # Newline,
         Inv, NEW c \in CursorsOf(text), NEW s \in Insertions, Insert(c, s)
  PROVE  CharIdx(text', cursor') = CharIdx(text, c) + Len(s)
<1> DEFINE i == CharIdx(text, c)
           u == text'
<1>1. text \in Seq(Char)
  BY DEF Inv, TypeOK
<1>2. /\ s \in Seq(Char) /\ s # <<>> /\ i \in 0..Len(text) /\ Inv'
      /\ u = Replace(text, i, i, s)
  BY InsertProperty
<1>3. u \in Seq(Char)
  BY <1>2 DEF Inv, TypeOK
<1>4. Spliced(text, i, i, s, u)
  <2>1. i \in i..Len(text)
    BY <1>1, <1>2, LenProperties
  <2>2. QED
    BY <1>1, <1>2, <2>1, ReplaceProperty
<1>5. cursor' = ClampCursor(u, AdvanceCursor(c, s))
  BY DEF Insert
<1> HIDE DEF u
<1>6. i + Len(s) \in 0..Len(u) /\ AdvanceCursor(c, s) = LspPosition(u, i + Len(s))
  BY <1>1, <1>2, <1>3, <1>4, AdvanceIsBehind
<1>7. /\ LspPosition(u, i + Len(s)) \in CursorsOf(u) /\ CharIdx(u, LspPosition(u, i + Len(s))) = i + Len(s)
      /\ LspPosition(u, i + Len(s)) \in Cursor
  BY <1>3, <1>6, PositionIsCursor, PositionParts
<1>8. cursor' = LspPosition(u, i + Len(s))
  BY <1>3, <1>5, <1>6, <1>7, ClampProperty
<1>9. QED
  BY <1>7, <1>8 DEF u

(* After typing or pasting, the cursor is right behind what was inserted:   *)
(* advance_cursor, which computes it from the inserted text alone, agrees   *)
(* with the rope, for texts without combining marks, and for every text     *)
(* inserted but one of several lines that ends in a newline.                *)
THEOREM CursorFollowsInsertionHolds ==
  ASSUME Marks = {}, \A s \in Insertions : StrLines(s) > 1 => Last(s) # Newline
  PROVE  Spec => CursorFollowsInsertion
<1> DEFINE Follows == \A c \in CursorsOf(text), s \in Insertions :
                        Insert(c, s) => CharIdx(text', cursor') = CharIdx(text, c) + Len(s)
<1>1. Inv /\ [Next]_vars => [Follows]_vars
  <2>1. SUFFICES ASSUME Inv PROVE Follows
    OBVIOUS
  <2>2. QED
    BY <2>1, InsertMovesBehind
<1>2. Spec => []Inv
  BY InvHolds
<1>3. QED
  BY <1>1, <1>2, PTL DEF Spec, CursorFollowsInsertion

-----------------------------------------------------------------------------
(***************************************************************************)
(* The line of versions, and how each step moves along it.                 *)
(***************************************************************************)
IsBack(b, done, t) ==
  b = [n \in 0..Len(done) |->
         IF n = 0 THEN t ELSE Effect(Inverted(done[Len(done) - n + 1]))[b[n - 1]]]

IsAhead(b, undone, t) ==
  b = [n \in 0..Len(undone) |->
         IF n = 0 THEN t ELSE Effect(undone[Len(undone) - n + 1])[b[n - 1]]]

LEMMA BackUnique ==
  ASSUME NEW done, Len(done) \in Nat, NEW t, NEW a, NEW b, IsBack(a, done, t), IsBack(b, done, t)
  PROVE  a = b
<1> DEFINE N == Len(done)
           T == {n \in Nat : n <= N => a[n] = b[n]}
<1>1. \A n \in 0..N : /\ a[n] = IF n = 0 THEN t ELSE Effect(Inverted(done[N - n + 1]))[a[n - 1]]
                      /\ b[n] = IF n = 0 THEN t ELSE Effect(Inverted(done[N - n + 1]))[b[n - 1]]
  BY DEF IsBack
<1>2. 0 \in T
  BY <1>1
<1>3. ASSUME NEW n \in Nat \ {0}, n - 1 \in T
      PROVE  n \in T
  <2>1. SUFFICES ASSUME n <= N PROVE a[n] = b[n]
    OBVIOUS
  <2>2. a[n - 1] = b[n - 1] /\ n \in 0..N /\ n # 0
    BY <1>3, <2>1
  <2>3. QED
    BY <1>1, <2>2
<1> HIDE DEF T
<1>4. T = Nat
  BY <1>2, <1>3, Upward DEF T
<1>5. \A n \in 0..N : a[n] = b[n]
  BY <1>4 DEF T
<1>6. a = [n \in 0..N |-> a[n]] /\ b = [n \in 0..N |-> b[n]]
  BY DEF IsBack
<1>7. QED
  BY <1>5, <1>6

LEMMA AheadUnique ==
  ASSUME NEW undone, Len(undone) \in Nat, NEW t, NEW a, NEW b,
         IsAhead(a, undone, t), IsAhead(b, undone, t)
  PROVE  a = b
<1> DEFINE N == Len(undone)
           T == {n \in Nat : n <= N => a[n] = b[n]}
<1>1. \A n \in 0..N : /\ a[n] = IF n = 0 THEN t ELSE Effect(undone[N - n + 1])[a[n - 1]]
                      /\ b[n] = IF n = 0 THEN t ELSE Effect(undone[N - n + 1])[b[n - 1]]
  BY DEF IsAhead
<1>2. 0 \in T
  BY <1>1
<1>3. ASSUME NEW n \in Nat \ {0}, n - 1 \in T
      PROVE  n \in T
  <2>1. SUFFICES ASSUME n <= N PROVE a[n] = b[n]
    OBVIOUS
  <2>2. a[n - 1] = b[n - 1] /\ n \in 0..N /\ n # 0
    BY <1>3, <2>1
  <2>3. QED
    BY <1>1, <2>2
<1> HIDE DEF T
<1>4. T = Nat
  BY <1>2, <1>3, Upward DEF T
<1>5. \A n \in 0..N : a[n] = b[n]
  BY <1>4 DEF T
<1>6. a = [n \in 0..N |-> a[n]] /\ b = [n \in 0..N |-> b[n]]
  BY DEF IsAhead
<1>7. QED
  BY <1>5, <1>6

LEMMA PastOf ==
  ASSUME NEW done, NEW t, NEW b, IsBack(b, done, t), \A a : IsBack(a, done, t) => a = b
  PROVE  Past(done, t) = [k \in 1..Len(done) |-> b[Len(done) - k + 1]]
<1>1. \A a : a = [n \in 0..Len(done) |->
                   IF n = 0 THEN t ELSE Effect(Inverted(done[Len(done) - n + 1]))[a[n - 1]]]
             <=> IsBack(a, done, t)
  BY DEF IsBack
<1> DEFINE c == CHOOSE a : a = [n \in 0..Len(done) |->
                   IF n = 0 THEN t ELSE Effect(Inverted(done[Len(done) - n + 1]))[a[n - 1]]]
<1>2. c = b
  BY <1>1
<1>3. Past(done, t) = [k \in 1..Len(done) |-> c[Len(done) - k + 1]]
  BY Zenon DEF Past
<1> HIDE DEF c
<1>4. QED
  BY <1>2, <1>3

LEMMA PastIs ==
  ASSUME Marks = {}, NEW done \in Seq(Action), NEW t \in Seq(Char), NEW h, IsPast(h, done, t)
  PROVE  Past(done, t) = [k \in 1..Len(done) |-> h[k - 1]]
<1> DEFINE N == Len(done)
           b == [n \in 0..N |-> h[N - n]]
<1>1. /\ N \in Nat /\ h \in [0..N -> Seq(Char)] /\ h[N] = t
      /\ \A k \in 1..N : Links(done[k], h[k - 1], h[k]) /\ done[k] \in Action
  BY LenProperties, ElementOfSeq DEF IsPast
<1> HIDE DEF N
<1>2. \A n \in 0..N : N - n \in 0..N /\ b[n] = h[N - n]
  BY <1>1
<1>3. b = [n \in 0..N |-> b[n]]
  OBVIOUS
<1> HIDE DEF b
<1>4. ASSUME NEW n \in 0..N
      PROVE  b[n] = IF n = 0 THEN t ELSE Effect(Inverted(done[N - n + 1]))[b[n - 1]]
  <2>1. CASE n = 0
    <3>1. N - 0 = N
      BY <1>1
    <3>2. QED
      BY <1>1, <1>2, <2>1, <3>1
  <2>2. CASE n # 0
    <3> DEFINE k == N - n + 1
    <3>1. k \in 1..N /\ k - 1 = N - n /\ n - 1 \in 0..N /\ N - (n - 1) = k /\ k \in 0..N /\ k - 1 \in 0..N
      BY <1>1, <2>2
    <3>2. b[n] = h[k - 1] /\ b[n - 1] = h[k]
      BY <1>2, <3>1
    <3> HIDE DEF k
    <3>3. Links(done[k], h[k - 1], h[k]) /\ done[k] \in Action /\ h[k - 1] \in Seq(Char) /\ h[k] \in Seq(Char)
      BY <1>1, <3>1
    <3>4. Links(Inverted(done[k]), h[k], h[k - 1]) /\ Inverted(done[k]) \in Action
      BY <3>3, LinkInverted, ActionTyped
    <3>5. Effect(Inverted(done[k]))[h[k]] = h[k - 1]
      BY <3>3, <3>4, LinkEffect
    <3>6. QED
      BY <2>2, <3>2, <3>5 DEF k
  <2>3. QED
    BY <2>1, <2>2
<1>5. IsBack(b, done, t)
  BY <1>3, <1>4 DEF IsBack, N
<1>6. \A a : IsBack(a, done, t) => a = b
  <2>1. ASSUME NEW a, IsBack(a, done, t) PROVE a = b
    <3>1. Len(done) \in Nat
      BY <1>1 DEF N
    <3>2. QED
      BY <1>5, <2>1, <3>1, BackUnique
  <2>2. QED
    BY <2>1
<1>7. Past(done, t) = [k \in 1..N |-> b[N - k + 1]]
  <2>1. Past(done, t) = [k \in 1..Len(done) |-> b[Len(done) - k + 1]]
    BY <1>5, <1>6, PastOf
  <2>2. QED
    BY <2>1 DEF N
<1>8. \A k \in 1..N : b[N - k + 1] = h[k - 1]
  <2>1. ASSUME NEW k \in 1..N PROVE b[N - k + 1] = h[k - 1]
    <3>1. N - k + 1 \in 0..N /\ N - (N - k + 1) = k - 1
      BY <1>1
    <3>2. QED
      BY <1>2, <3>1
  <2>2. QED
    BY <2>1
<1>9. QED
  BY <1>7, <1>8 DEF N

LEMMA FutureIs ==
  ASSUME Marks = {}, NEW undone \in Seq(Action), NEW t \in Seq(Char), NEW f, IsFuture(f, undone, t)
  PROVE  Future(undone, t) = [k \in 1..Len(undone) |-> f[Len(undone) - k]]
<1> DEFINE N == Len(undone)
           b == [n \in 0..N |-> f[N - n]]
<1>1. /\ N \in Nat /\ f \in [0..N -> Seq(Char)] /\ f[N] = t
      /\ \A k \in 1..N : Links(undone[k], f[k], f[k - 1]) /\ undone[k] \in Action
  BY LenProperties, ElementOfSeq DEF IsFuture
<1> HIDE DEF N
<1>2. \A n \in 0..N : N - n \in 0..N /\ b[n] = f[N - n]
  BY <1>1
<1>3. b = [n \in 0..N |-> b[n]]
  OBVIOUS
<1> HIDE DEF b
<1>4. ASSUME NEW n \in 0..N
      PROVE  b[n] = IF n = 0 THEN t ELSE Effect(undone[N - n + 1])[b[n - 1]]
  <2>1. CASE n = 0
    <3>1. N - 0 = N
      BY <1>1
    <3>2. QED
      BY <1>1, <1>2, <2>1, <3>1
  <2>2. CASE n # 0
    <3> DEFINE k == N - n + 1
    <3>1. k \in 1..N /\ k - 1 = N - n /\ n - 1 \in 0..N /\ N - (n - 1) = k /\ k \in 0..N /\ k - 1 \in 0..N
      BY <1>1, <2>2
    <3>2. b[n] = f[k - 1] /\ b[n - 1] = f[k]
      BY <1>2, <3>1
    <3> HIDE DEF k
    <3>3. Links(undone[k], f[k], f[k - 1]) /\ undone[k] \in Action /\ f[k - 1] \in Seq(Char) /\ f[k] \in Seq(Char)
      BY <1>1, <3>1
    <3>4. Effect(undone[k])[f[k]] = f[k - 1]
      BY <3>3, LinkEffect
    <3>5. QED
      BY <2>2, <3>2, <3>4 DEF k
  <2>3. QED
    BY <2>1, <2>2
<1>5. IsAhead(b, undone, t)
  BY <1>3, <1>4 DEF IsAhead, N
<1>6. \A a : IsAhead(a, undone, t) => a = b
  <2>1. ASSUME NEW a, IsAhead(a, undone, t) PROVE a = b
    <3>1. Len(undone) \in Nat
      BY <1>1 DEF N
    <3>2. QED
      BY <1>5, <2>1, <3>1, AheadUnique
  <2>2. QED
    BY <2>1
<1>7. Future(undone, t) = [k \in 1..N |-> b[k]]
  BY <1>5, <1>6 DEF Future, IsAhead, N
<1>8. \A k \in 1..N : k \in 0..N
  BY <1>1
<1>9. QED
  BY <1>2, <1>7, <1>8 DEF N

(* n versions, the current one, and m that were undone. *)
Path(h, n, f, m) == [k \in 1..n + 1 + m |-> IF k <= n + 1 THEN h[k - 1] ELSE f[n + 1 + m - k]]

LEMMA VersionsIs ==
  ASSUME Marks = {}, NEW done \in Seq(Action), NEW undone \in Seq(Action), NEW t \in Seq(Char),
         NEW h, IsPast(h, done, t), NEW f, IsFuture(f, undone, t)
  PROVE  /\ Versions(done, undone, t) = Path(h, Len(done), f, Len(undone))
         /\ Path(h, Len(done), f, Len(undone)) \in Seq(Seq(Char))
         /\ Len(Path(h, Len(done), f, Len(undone))) = Len(done) + 1 + Len(undone)
<1> DEFINE n == Len(done)
           m == Len(undone)
           S == Seq(Char)
           a == [k \in 1..n |-> h[k - 1]]
           b == <<t>>
           c == [k \in 1..m |-> f[m - k]]
           p == Path(h, n, f, m)
<1>1. /\ n \in Nat /\ m \in Nat
      /\ h \in [0..n -> S] /\ h[n] = t /\ f \in [0..m -> S] /\ f[m] = t
  BY LenProperties DEF IsPast, IsFuture
<1>2. Versions(done, undone, t) = (a \o b) \o c
  <2>1. Past(done, t) = a
    BY PastIs
  <2>2. Future(undone, t) = c
    BY FutureIs
  <2> HIDE DEF a, c
  <2>3. QED
    BY <2>1, <2>2 DEF Versions
<1>3. t \in S
  OBVIOUS
<1> HIDE DEF n, m, S
<1>4. /\ a \in Seq(S) /\ Len(a) = n /\ \A k \in 1..n : a[k] = h[k - 1]
  <2>1. \A k \in 1..n : h[k - 1] \in S
    BY <1>1
  <2>2. QED
    BY <1>1, <2>1
<1>5. b \in Seq(S) /\ Len(b) = 1 /\ b[1] = t
  BY <1>3
<1>6. /\ c \in Seq(S) /\ Len(c) = m /\ \A k \in 1..m : c[k] = f[m - k]
  <2>1. \A k \in 1..m : f[m - k] \in S
    BY <1>1
  <2>2. QED
    BY <1>1, <2>1
<1>7. /\ p \in Seq(S) /\ Len(p) = n + 1 + m
      /\ \A k \in 1..n + 1 + m : p[k] = IF k <= n + 1 THEN h[k - 1] ELSE f[n + 1 + m - k]
  <2>1. ASSUME NEW k \in 1..n + 1 + m PROVE (IF k <= n + 1 THEN h[k - 1] ELSE f[n + 1 + m - k]) \in S
    <3>1. CASE k <= n + 1
      <4>1. k - 1 \in 0..n
        BY <1>1, <3>1
      <4>2. QED
        BY <1>1, <3>1, <4>1
    <3>2. CASE ~(k <= n + 1)
      <4>1. n + 1 + m - k \in 0..m
        BY <1>1, <3>2
      <4>2. QED
        BY <1>1, <3>2, <4>1
    <3>3. QED
      BY <3>1, <3>2
  <2>2. n + 1 + m \in Nat
    BY <1>1
  <2>3. QED
    BY <2>1, <2>2 DEF Path
<1> HIDE DEF a, b, c, p
<1>8. /\ a \o b \in Seq(S) /\ Len(a \o b) = n + 1
      /\ \A k \in 1..n : (a \o b)[k] = h[k - 1]
      /\ (a \o b)[n + 1] = t
  <2>1. /\ a \o b \in Seq(S) /\ Len(a \o b) = Len(a) + Len(b)
        /\ \A k \in 1..Len(a) + Len(b) : (a \o b)[k] = IF k <= Len(a) THEN a[k] ELSE b[k - Len(a)]
    BY <1>4, <1>5, ConcatProperties
  <2>2. ASSUME NEW k \in 1..n PROVE (a \o b)[k] = h[k - 1]
    <3>1. k \in 1..Len(a) + Len(b) /\ k <= Len(a)
      BY <1>1, <1>4, <1>5
    <3>2. QED
      BY <1>4, <2>1, <3>1
  <2>3. (a \o b)[n + 1] = t
    <3>1. n + 1 \in 1..Len(a) + Len(b) /\ ~(n + 1 <= Len(a)) /\ n + 1 - Len(a) = 1
      BY <1>1, <1>4, <1>5
    <3>2. QED
      BY <1>5, <2>1, <3>1
  <2>4. QED
    BY <1>4, <1>5, <2>1, <2>2, <2>3
<1> DEFINE ab == a \o b
<1> HIDE DEF ab
<1>9. ab \in Seq(S) /\ Len(ab) = n + 1
  BY <1>8 DEF ab
<1>10. /\ ab \o c \in Seq(S) /\ Len(ab \o c) = n + 1 + m
       /\ \A k \in 1..n + 1 + m : (ab \o c)[k] = IF k <= n + 1 THEN ab[k] ELSE c[k - (n + 1)]
  <2>1. /\ ab \o c \in Seq(S) /\ Len(ab \o c) = Len(ab) + Len(c)
        /\ \A k \in 1..Len(ab) + Len(c) : (ab \o c)[k] = IF k <= Len(ab) THEN ab[k] ELSE c[k - Len(ab)]
    BY <1>6, <1>9, ConcatProperties
  <2>2. QED
    BY <1>6, <1>9, <2>1
<1>11. ASSUME NEW k \in 1..n + 1 + m PROVE (ab \o c)[k] = p[k]
  <2>1. CASE k <= n
    <3>1. k \in 1..n /\ k <= n + 1
      BY <1>1, <2>1
    <3>2. QED
      BY <1>7, <1>8, <1>10, <3>1 DEF ab
  <2>2. CASE k = n + 1
    <3>1. k <= n + 1 /\ k - 1 = n
      BY <1>1, <2>2
    <3>2. QED
      BY <1>1, <1>7, <1>8, <1>10, <2>2, <3>1 DEF ab
  <2>3. CASE ~(k <= n + 1)
    <3>1. k - (n + 1) \in 1..m /\ m - (k - (n + 1)) = n + 1 + m - k
      BY <1>1, <2>3
    <3>2. c[k - (n + 1)] = f[n + 1 + m - k]
      BY <1>6, <3>1
    <3>3. QED
      BY <1>7, <1>10, <2>3, <3>2
  <2>4. k \in Int /\ (k <= n \/ k = n + 1 \/ ~(k <= n + 1))
    BY <1>1
  <2>5. QED
    BY <2>1, <2>2, <2>3, <2>4
<1>12. ab \o c = p
  BY <1>7, <1>10, <1>11, SeqEqual
<1>13. QED
  BY <1>2, <1>7, <1>12 DEF ab, a, b, c, p, n, m, S

-----------------------------------------------------------------------------
(***************************************************************************)
(* The steps of UndoTimeline on such lines.                                *)
(***************************************************************************)
Edited(v, at, w, b) ==
  /\ \E keep \in {at - 1, at} \ {0} :
       LET line == Append(SubSeq(v, 1, keep), w[b])
       IN  w = IF Len(line) > MaxHistory + 2 THEN Tail(line) ELSE line
  /\ b = Len(w)

Cut(v, keep, t) == Append(SubSeq(v, 1, keep), t)

IsCut(line, S, v, keep, t) ==
  /\ line \in Seq(S) /\ Len(line) = keep + 1 /\ line[keep + 1] = t
  /\ \A k \in 1..keep : line[k] = v[k]
  /\ Tail(line) \in Seq(S) /\ Len(Tail(line)) = keep
  /\ \A k \in 1..keep : Tail(line)[k] = line[k + 1]

LEMMA CutAndPut ==
  ASSUME NEW S, NEW v \in Seq(S), NEW keep \in 1..Len(v), NEW t \in S
  PROVE  IsCut(Cut(v, keep, t), S, v, keep, t)
<1> DEFINE s == SubSeq(v, 1, keep)
           line == Append(s, t)
<1>0. keep \in Nat /\ 1 <= keep /\ keep <= Len(v) /\ Len(v) \in Nat
  BY LenProperties
<1>1. /\ s \in Seq(S) /\ Len(s) = keep
      /\ \A k \in 1..keep : s[k] = v[k]
  <2>1. \A k \in 1..keep : v[k] \in S
    <3>1. \A k \in 1..keep : k \in 1..Len(v)
      BY <1>0
    <3>2. QED
      BY <3>1, ElementOfSeq
  <2>2. 1 \in Int /\ keep \in Int /\ 1 <= keep /\ keep - 1 + 1 = keep /\ \A k \in 1..keep : 1 + k - 1 = k
    BY <1>0
  <2>3. /\ SubSeq(v, 1, keep) \in Seq(S)
        /\ Len(SubSeq(v, 1, keep)) = IF 1 <= keep THEN keep - 1 + 1 ELSE 0
        /\ \A k \in 1..keep - 1 + 1 : SubSeq(v, 1, keep)[k] = v[1 + k - 1]
    BY <2>1, <2>2, SubSeqProperties
  <2>4. QED
    BY <2>2, <2>3
<1> HIDE DEF s
<1>2. /\ line \in Seq(S) /\ line # <<>> /\ Len(line) = keep + 1 /\ line[keep + 1] = t
      /\ \A k \in 1..keep : line[k] = s[k]
  BY <1>1, AppendProperties
<1> HIDE DEF line
<1>3. /\ Tail(line) \in Seq(S) /\ Len(Tail(line)) = Len(line) - 1
      /\ \A k \in 1..Len(Tail(line)) : Tail(line)[k] = line[k + 1]
  BY <1>2, HeadTailProperties
<1>4. Len(Tail(line)) = keep
  BY <1>0, <1>2, <1>3
<1>5. QED
  BY <1>1, <1>2, <1>3, <1>4 DEF line, s, Cut, IsCut

Starts(v, h, n) == \A k \in 1..n + 1 : v[k] = h[k - 1]

LEMMA GrownEdits ==
  ASSUME NEW S, NEW n \in Nat, NEW m \in Nat, NEW p \in Nat, n <= MaxHistory + 1,
         NEW h, NEW g, Grown(h, n, g, p),
         NEW v \in Seq(S), Len(v) = n + 1 + m, Starts(v, h, n),
         NEW w \in Seq(S), Len(w) = p + 1, Starts(w, g, p)
  PROVE  Edited(v, n + 1, w, p + 1)
<1> DEFINE t == w[p + 1]
           line(keep) == Cut(v, keep, t)
           M == MaxHistory + 2
<1>0. /\ \A k \in 1..n + 1 : v[k] = h[k - 1]
      /\ \A k \in 1..p + 1 : w[k] = g[k - 1]
  BY DEF Starts
<1>1. t \in S
  <2>1. p + 1 \in 1..Len(w)
    OBVIOUS
  <2>2. QED
    BY <2>1, ElementOfSeq
<1>2. M = MaxHistory + 2 /\ MaxHistory \in Nat
  BY HistoryAssumption
<1> HIDE DEF t
<1>3. ASSUME NEW keep \in 1..n + 1
      PROVE  /\ line(keep) \in Seq(S) /\ Len(line(keep)) = keep + 1 /\ line(keep)[keep + 1] = t
             /\ \A k \in 1..keep : line(keep)[k] = v[k]
             /\ Tail(line(keep)) \in Seq(S) /\ Len(Tail(line(keep))) = keep
             /\ \A k \in 1..keep : Tail(line(keep))[k] = line(keep)[k + 1]
  <2>1. keep \in 1..Len(v)
    OBVIOUS
  <2>2. IsCut(line(keep), S, v, keep, t)
    BY <1>1, <2>1, CutAndPut
  <2> HIDE DEF line
  <2>3. QED
    BY <2>2 DEF IsCut
<1> HIDE DEF line, M
<1>4. SUFFICES \E keep \in {n, n + 1} \ {0} :
                 w = IF Len(line(keep)) > M THEN Tail(line(keep)) ELSE line(keep)
  <2>1. ASSUME NEW keep \in {n, n + 1} \ {0},
               w = IF Len(line(keep)) > M THEN Tail(line(keep)) ELSE line(keep)
        PROVE  Edited(v, n + 1, w, p + 1)
    <3>1. n + 1 - 1 = n /\ p + 1 = Len(w)
      OBVIOUS
    <3>2. keep \in {n + 1 - 1, n + 1} \ {0}
      BY <3>1
    <3>3. line(keep) = Append(SubSeq(v, 1, keep), w[p + 1])
      BY DEF line, Cut, t
    <3>4. w = IF Len(Append(SubSeq(v, 1, keep), w[p + 1])) > MaxHistory + 2
              THEN Tail(Append(SubSeq(v, 1, keep), w[p + 1])) ELSE Append(SubSeq(v, 1, keep), w[p + 1])
      BY <1>2, <2>1, <3>3
    <3>5. QED
      BY <3>1, <3>2, <3>4 DEF Edited
  <2>2. QED
    BY <2>1
<1>5. CASE Replaced(h, n, g, p)
  <2>1. n \in 1..n + 1 /\ p = n /\ \A k \in 0..n - 1 : g[k] = h[k]
    BY <1>5 DEF Replaced
  <2>2. ~(n + 1 > M)
    BY <1>2
  <2>3. ASSUME NEW k \in 1..n + 1 PROVE line(n)[k] = w[k]
    <3>1. CASE k = n + 1
      BY <1>0, <1>3, <2>1, <3>1 DEF t
    <3>2. CASE k # n + 1
      <4>1. k \in 1..n /\ k - 1 \in 0..n - 1
        BY <3>2
      <4>2. QED
        BY <1>0, <1>3, <2>1, <4>1
    <3>3. QED
      BY <3>1, <3>2
  <2>4. line(n) = w
    BY <1>3, <2>1, <2>3, SeqEqual
  <2>5. QED
    BY <1>3, <2>1, <2>2, <2>4
<1>6. CASE Lengthened(h, n, g, p)
  <2>1. n <= MaxHistory /\ p = n + 1 /\ \A k \in 0..n : g[k] = h[k]
    BY <1>6 DEF Lengthened
  <2>2. n + 1 \in 1..n + 1 /\ ~(n + 1 + 1 > M)
    BY <1>2, <2>1
  <2>3. ASSUME NEW k \in 1..n + 1 + 1 PROVE line(n + 1)[k] = w[k]
    <3>1. CASE k = n + 1 + 1
      BY <1>0, <1>3, <2>1, <2>2, <3>1 DEF t
    <3>2. CASE k # n + 1 + 1
      <4>1. k \in 1..n + 1 /\ k - 1 \in 0..n
        BY <3>2
      <4>2. QED
        BY <1>0, <1>3, <2>1, <2>2, <4>1
    <3>3. QED
      BY <3>1, <3>2
  <2>4. line(n + 1) = w
    BY <1>3, <2>1, <2>2, <2>3, SeqEqual
  <2>5. n + 1 \in {n, n + 1} \ {0}
    OBVIOUS
  <2>6. QED
    BY <1>3, <2>2, <2>4, <2>5
<1>7. CASE Shifted(h, n, g, p)
  <2>1. n = MaxHistory + 1 /\ p = n /\ \A k \in 0..n - 1 : g[k] = h[k + 1]
    BY <1>7 DEF Shifted
  <2>2. n + 1 \in 1..n + 1 /\ n + 1 + 1 > M
    BY <1>2, <2>1
  <2>3. ASSUME NEW k \in 1..n + 1 PROVE Tail(line(n + 1))[k] = w[k]
    <3>1. Tail(line(n + 1))[k] = line(n + 1)[k + 1]
      BY <1>3, <2>2
    <3>2. CASE k = n + 1
      BY <1>0, <1>3, <2>1, <2>2, <3>1, <3>2 DEF t
    <3>3. CASE k # n + 1
      <4>1. k + 1 \in 1..n + 1 /\ k - 1 \in 0..n - 1 /\ k + 1 - 1 = k - 1 + 1
        BY <3>3
      <4>2. line(n + 1)[k + 1] = v[k + 1]
        BY <1>3, <2>2, <4>1
      <4>3. v[k + 1] = h[k + 1 - 1] /\ w[k] = g[k - 1] /\ g[k - 1] = h[k - 1 + 1]
        <5>1. v[k + 1] = h[k + 1 - 1]
          BY <1>0, <4>1
        <5>2. w[k] = g[k - 1]
          BY <1>0, <2>1
        <5>3. g[k - 1] = h[k - 1 + 1]
          BY <2>1, <4>1
        <5>4. QED
          BY <5>1, <5>2, <5>3
      <4>4. QED
        BY <3>1, <4>1, <4>2, <4>3
    <3>4. QED
      BY <3>2, <3>3
  <2>4. Tail(line(n + 1)) = w
    BY <1>3, <2>1, <2>2, <2>3, SeqEqual
  <2>5. n + 1 \in {n, n + 1} \ {0}
    OBVIOUS
  <2>6. QED
    BY <1>3, <2>2, <2>4, <2>5
<1>8. QED
  BY <1>5, <1>6, <1>7 DEF Grown

LEMMA PathProperty ==
  ASSUME NEW n \in Nat, NEW m \in Nat, NEW h, NEW f
  PROVE  \A k \in 1..n + 1 + m :
           Path(h, n, f, m)[k] = IF k <= n + 1 THEN h[k - 1] ELSE f[n + 1 + m - k]
BY DEF Path

(* Undo takes the last of the past versions to the front of the future.     *)
LEMMA UndonePath ==
  ASSUME NEW n \in Nat, NEW m \in Nat, n > 0, NEW h, NEW f, h[n] = f[m],
         NEW g, NEW e, \A k \in 0..n - 1 : g[k] = h[k], \A k \in 0..m : e[k] = f[k]
  PROVE  Path(g, n - 1, e, m + 1) = Path(h, n, f, m)
<1>1. n - 1 + 1 = n /\ n - 1 + 1 + (m + 1) = n + 1 + m
  OBVIOUS
<1>2. ASSUME NEW k \in 1..n + 1 + m
      PROVE  (IF k <= n THEN g[k - 1] ELSE e[n + 1 + m - k])
             = IF k <= n + 1 THEN h[k - 1] ELSE f[n + 1 + m - k]
  <2>1. CASE k <= n
    <3>1. k <= n + 1 /\ k - 1 \in 0..n - 1
      BY <2>1
    <3>2. QED
      BY <2>1, <3>1
  <2>2. CASE k = n + 1
    <3>1. ~(k <= n) /\ k <= n + 1 /\ k - 1 = n /\ n + 1 + m - k = m /\ m \in 0..m
      BY <2>2
    <3>2. QED
      BY <3>1
  <2>3. CASE k > n + 1
    <3>1. ~(k <= n) /\ ~(k <= n + 1) /\ n + 1 + m - k \in 0..m
      BY <2>3
    <3>2. QED
      BY <3>1
  <2>4. k <= n \/ k = n + 1 \/ k > n + 1
    OBVIOUS
  <2>5. QED
    BY <2>1, <2>2, <2>3, <2>4
<1>3. QED
  BY <1>1, <1>2 DEF Path

(* Redo takes the first of the future versions to the end of the past.      *)
LEMMA RedonePath ==
  ASSUME NEW n \in Nat, NEW m \in Nat, m > 0, NEW h, NEW f,
         NEW g, NEW e, \A k \in 0..n : g[k] = h[k], g[n + 1] = f[m - 1], \A k \in 0..m - 1 : e[k] = f[k]
  PROVE  Path(g, n + 1, e, m - 1) = Path(h, n, f, m)
<1>1. n + 1 + 1 + (m - 1) = n + 1 + m
  OBVIOUS
<1>2. ASSUME NEW k \in 1..n + 1 + m
      PROVE  (IF k <= n + 1 + 1 THEN g[k - 1] ELSE e[n + 1 + m - k])
             = IF k <= n + 1 THEN h[k - 1] ELSE f[n + 1 + m - k]
  <2>1. CASE k <= n + 1
    <3>1. k <= n + 1 + 1 /\ k - 1 \in 0..n
      BY <2>1
    <3>2. QED
      BY <2>1, <3>1
  <2>2. CASE k = n + 1 + 1
    <3>1. k <= n + 1 + 1 /\ ~(k <= n + 1) /\ k - 1 = n + 1 /\ n + 1 + m - k = m - 1
      BY <2>2
    <3>2. QED
      BY <3>1
  <2>3. CASE k > n + 1 + 1
    <3>1. ~(k <= n + 1) /\ ~(k <= n + 1 + 1) /\ n + 1 + m - k \in 0..m - 1
      BY <2>3
    <3>2. QED
      BY <3>1
  <2>4. k <= n + 1 \/ k = n + 1 + 1 \/ k > n + 1 + 1
    OBVIOUS
  <2>5. QED
    BY <2>1, <2>2, <2>3, <2>4
<1>3. QED
  BY <1>1, <1>2 DEF Path

-----------------------------------------------------------------------------
(***************************************************************************)
(* The buffer implements UndoTimeline.                                     *)
(***************************************************************************)
LEMMA NowVersions ==
  ASSUME Marks = {}, Inv, NEW h, IsPast(h, Done, text), NEW f, IsFuture(f, redo_stack, text)
  PROVE  /\ Len(Done) \in Nat /\ Len(Done) <= MaxHistory + 1 /\ Len(redo_stack) \in Nat
         /\ Versions(Done, redo_stack, text) = Path(h, Len(Done), f, Len(redo_stack))
         /\ Versions(Done, redo_stack, text) \in Seq(Seq(Char))
         /\ Len(Versions(Done, redo_stack, text)) = Len(Done) + 1 + Len(redo_stack)
<1>1. text \in Seq(Char) /\ HistoryTyped
  BY TypeOKParts DEF Inv
<1>2. Done \in Seq(Action) /\ redo_stack \in Seq(Action)
  BY <1>1, DoneProperty DEF HistoryTyped
<1>3. /\ Versions(Done, redo_stack, text) = Path(h, Len(Done), f, Len(redo_stack))
      /\ Path(h, Len(Done), f, Len(redo_stack)) \in Seq(Seq(Char))
      /\ Len(Path(h, Len(Done), f, Len(redo_stack))) = Len(Done) + 1 + Len(redo_stack)
  BY <1>1, <1>2, VersionsIs
<1>4. QED
  BY <1>1, <1>3, DoneProperty

LEMMA NextVersions ==
  ASSUME Marks = {}, Inv', NEW h, IsPast(h, Done', text'), NEW f, IsFuture(f, redo_stack', text')
  PROVE  /\ Len(Done') \in Nat /\ Len(redo_stack') \in Nat
         /\ Versions(Done', redo_stack', text') = Path(h, Len(Done'), f, Len(redo_stack'))
         /\ Versions(Done', redo_stack', text') \in Seq(Seq(Char))
         /\ Len(Versions(Done', redo_stack', text')) = Len(Done') + 1 + Len(redo_stack')
<1>1. /\ text' \in Seq(Char) /\ undo_stack' \in Seq(Action) /\ pending_action' \in Seq(Action)
      /\ redo_stack' \in Seq(Action)
  BY DEF Inv, TypeOK
<1>2. Done' \in Seq(Action)
  BY <1>1, ConcatProperties DEF Done
<1>3. /\ Versions(Done', redo_stack', text') = Path(h, Len(Done'), f, Len(redo_stack'))
      /\ Path(h, Len(Done'), f, Len(redo_stack')) \in Seq(Seq(Char))
      /\ Len(Path(h, Len(Done'), f, Len(redo_stack'))) = Len(Done') + 1 + Len(redo_stack')
  BY <1>1, <1>2, VersionsIs
<1>4. Len(Done') \in Nat /\ Len(redo_stack') \in Nat
  BY <1>1, <1>2, LenProperties
<1>5. QED
  BY <1>3, <1>4

LEMMA UndoMaps ==
  ASSUME Marks = {}, HInv, Undo
  PROVE  /\ Len(Done) + 1 > 1 /\ Len(Done') + 1 = Len(Done) + 1 - 1
         /\ Versions(Done', redo_stack', text') = Versions(Done, redo_stack, text)
<1>1. Inv /\ text \in Seq(Char) /\ HistoryTyped /\ Inv'
  BY HInvTyped, InvStep DEF Next
<1>2. PICK h : IsPast(h, Done, text)
  BY DEF HInv, HistoryStands
<1>3. PICK f : IsFuture(f, redo_stack, text)
  BY DEF HInv, HistoryStands
<1> DEFINE n == Len(Done)
           m == Len(redo_stack)
           g == [k \in 0..n - 1 |-> h[k]]
           e == [k \in 0..m + 1 |-> IF k = m + 1 THEN text' ELSE f[k]]
<1>4. /\ n > 0 /\ Len(Done') = n - 1 /\ Len(redo_stack') = m + 1
      /\ IsPast(g, Done', text') /\ IsFuture(e, redo_stack', text')
  BY <1>1, <1>2, <1>3, UndoVersions
<1>5. n \in Nat /\ m \in Nat /\ Versions(Done, redo_stack, text) = Path(h, n, f, m)
  BY <1>1, <1>2, <1>3, NowVersions
<1>6. h[n] = f[m]
  BY <1>2, <1>3 DEF IsPast, IsFuture
<1> HIDE DEF n, m
<1>7. (\A k \in 0..n - 1 : g[k] = h[k]) /\ \A k \in 0..m : e[k] = f[k]
  BY <1>5
<1> HIDE DEF g, e
<1>8. Versions(Done', redo_stack', text') = Path(g, n - 1, e, m + 1)
  BY <1>1, <1>4, NextVersions
<1>9. Path(g, n - 1, e, m + 1) = Path(h, n, f, m)
  BY <1>4, <1>5, <1>6, <1>7, UndonePath
<1>10. n + 1 > 1 /\ Len(Done') + 1 = n + 1 - 1
  BY <1>4, <1>5
<1>11. QED
  BY <1>5, <1>8, <1>9, <1>10 DEF n

LEMMA RedoMaps ==
  ASSUME Marks = {}, HInv, Redo
  PROVE  /\ Len(Done) + 1 < Len(Versions(Done, redo_stack, text))
         /\ Len(Done') + 1 = Len(Done) + 1 + 1
         /\ Versions(Done', redo_stack', text') = Versions(Done, redo_stack, text)
<1>1. Inv /\ text \in Seq(Char) /\ HistoryTyped /\ Inv'
  BY HInvTyped, InvStep DEF Next
<1>2. PICK h : IsPast(h, Done, text)
  BY DEF HInv, HistoryStands
<1>3. PICK f : IsFuture(f, redo_stack, text)
  BY DEF HInv, HistoryStands
<1> DEFINE n == Len(Done)
           m == Len(redo_stack)
           g == [k \in 0..n + 1 |-> IF k = n + 1 THEN text' ELSE h[k]]
           e == [k \in 0..m - 1 |-> f[k]]
<1>4. /\ m > 0 /\ text' = f[m - 1] /\ Len(Done') = n + 1 /\ Len(redo_stack') = m - 1
      /\ IsPast(g, Done', text') /\ IsFuture(e, redo_stack', text')
  BY <1>1, <1>2, <1>3, RedoVersions
<1>5. /\ n \in Nat /\ m \in Nat /\ Versions(Done, redo_stack, text) = Path(h, n, f, m)
      /\ Len(Versions(Done, redo_stack, text)) = n + 1 + m
  BY <1>1, <1>2, <1>3, NowVersions
<1> HIDE DEF n, m
<1>6. /\ \A k \in 0..n : g[k] = h[k]
      /\ g[n + 1] = f[m - 1]
      /\ \A k \in 0..m - 1 : e[k] = f[k]
  <2>1. n + 1 \in 0..n + 1 /\ \A k \in 0..n : k \in 0..n + 1 /\ k # n + 1
    BY <1>5
  <2>2. QED
    BY <1>4, <2>1
<1> HIDE DEF g, e
<1>7. Versions(Done', redo_stack', text') = Path(g, n + 1, e, m - 1)
  BY <1>1, <1>4, NextVersions
<1>8. Path(g, n + 1, e, m - 1) = Path(h, n, f, m)
  BY <1>4, <1>5, <1>6, RedonePath
<1>9. n + 1 < n + 1 + m
  BY <1>4, <1>5
<1>10. QED
  BY <1>4, <1>5, <1>7, <1>8, <1>9 DEF n

LEMMA EditMaps ==
  ASSUME Marks = {}, HInv, EditOfUser
  PROVE  /\ Edited(Versions(Done, redo_stack, text), Len(Done) + 1,
                   Versions(Done', redo_stack', text'), Len(Done') + 1)
         /\ Versions(Done', redo_stack', text')[Len(Done') + 1] \in Seq(Char)
<1>1. Inv /\ text \in Seq(Char) /\ HistoryTyped
  BY HInvTyped
<1>2. PICK h : IsPast(h, Done, text)
  BY DEF HInv, HistoryStands
<1>3. PICK f : IsFuture(f, redo_stack, text)
  BY DEF HInv, HistoryStands
<1> DEFINE n == Len(Done)
           m == Len(redo_stack)
           p == Len(Done')
           v == Versions(Done, redo_stack, text)
           w == Versions(Done', redo_stack', text')
           e == [k \in 0..0 |-> text']
<1>4. /\ Len(redo_stack') = 0 /\ text' \in Seq(Char) /\ Inv'
      /\ \E g : IsPast(g, Done', text') /\ Grown(h, n, g, p)
  BY <1>2, EditVersions
<1>5. PICK g : IsPast(g, Done', text') /\ Grown(h, n, g, p)
  BY <1>4
<1>6. IsFuture(e, redo_stack', text')
  BY <1>4, NoVersions
<1>7. /\ n \in Nat /\ n <= MaxHistory + 1 /\ m \in Nat
      /\ v = Path(h, n, f, m) /\ v \in Seq(Seq(Char)) /\ Len(v) = n + 1 + m
  BY <1>1, <1>2, <1>3, NowVersions
<1>8. /\ p \in Nat /\ w = Path(g, p, e, 0) /\ w \in Seq(Seq(Char)) /\ Len(w) = p + 1 + 0
  <2> HIDE DEF e
  <2>1. /\ p \in Nat /\ w = Path(g, p, e, Len(redo_stack')) /\ w \in Seq(Seq(Char))
        /\ Len(w) = p + 1 + Len(redo_stack')
    BY <1>4, <1>5, <1>6, NextVersions
  <2>2. QED
    BY <1>4, <2>1
<1> HIDE DEF n, m, p, v, w, e
<1>9. Starts(v, h, n)
  <2>1. \A k \in 1..n + 1 : k \in 1..n + 1 + m /\ k <= n + 1
    BY <1>7
  <2>2. QED
    BY <1>7, <2>1, PathProperty DEF Starts
<1>10. Starts(w, g, p)
  <2>1. \A k \in 1..p + 1 : k \in 1..p + 1 + 0 /\ k <= p + 1
    BY <1>8
  <2>2. \A k \in 1..p + 1 + 0 : w[k] = IF k <= p + 1 THEN g[k - 1] ELSE e[p + 1 + 0 - k]
    <3>1. 0 \in Nat
      OBVIOUS
    <3>2. QED
      BY <1>8, <3>1, PathProperty
  <2>3. QED
    BY <2>1, <2>2 DEF Starts
<1>11. Len(w) = p + 1
  BY <1>8
<1>12. Edited(v, n + 1, w, p + 1)
  <2> DEFINE S == Seq(Char)
  <2>1. /\ n \in Nat /\ m \in Nat /\ p \in Nat /\ n <= MaxHistory + 1
        /\ v \in Seq(S) /\ w \in Seq(S)
    BY <1>7, <1>8
  <2>2. Len(v) = n + 1 + m /\ Grown(h, n, g, p)
    BY <1>5, <1>7
  <2> HIDE DEF S
  <2>3. QED
    BY <1>9, <1>10, <1>11, <2>1, <2>2, GrownEdits
<1>13. w[p + 1] \in Seq(Char)
  <2>1. p + 1 \in 1..Len(w)
    BY <1>8, <1>11
  <2>2. QED
    BY <1>8, <2>1, ElementOfSeq
<1>14. QED
  BY <1>12, <1>13 DEF n, p, v, w

(* The buffer as it is opened, and reloaded: one version.                   *)
LEMMA LoadMaps ==
  ASSUME NEW t \in Seq(Char)
  PROVE  /\ \A done, undone : Len(done) = 0 /\ Len(undone) = 0 => Versions(done, undone, t) = <<t>>
         /\ <<t>> \in [{1} -> Seq(Char)]
<1>1. ASSUME NEW done, NEW undone, Len(done) = 0, Len(undone) = 0
      PROVE  Versions(done, undone, t) = <<t>>
  <2>1. \A b : [k \in 1..0 |-> b[k]] = <<>>
    OBVIOUS
  <2>2. Past(done, t) = <<>> /\ Future(undone, t) = <<>>
    BY <1>1 DEF Past, Future
  <2>3. <<t>> \in Seq(Seq(Char))
    OBVIOUS
  <2>4. QED
    BY <2>2, <2>3, ConcatEmptySeq DEF Versions
<1>2. <<t>> \in [{1} -> Seq(Char)]
  <2>1. <<t>> \in [1..1 -> Seq(Char)] /\ 1..1 = {1}
    OBVIOUS
  <2>2. QED
    BY <2>1
<1>3. QED
  BY <1>1, <1>2

LEMMA TimelineInit == Marks = {} /\ Init => Timeline!Init
<1> SUFFICES ASSUME Init PROVE Timeline!Init
  OBVIOUS
<1>1. text \in Seq(Char) /\ Len(Done) = 0 /\ Len(redo_stack) = 0
  BY InvInit, NoHistory DEF Init, Inv, TypeOK
<1>2. Versions(Done, redo_stack, text) = <<text>> /\ <<text>> \in [{1} -> Seq(Char)]
  BY <1>1, LoadMaps
<1>3. Len(Done) + 1 = 1
  BY <1>1
<1>4. QED
  BY <1>2, <1>3 DEF Timeline!Init

LEMMA TimelineStep ==
  Marks = {} /\ HInv /\ [Next]_vars => [Timeline!Next]_(Timeline!timelineVars)
<1> SUFFICES ASSUME Marks = {}, HInv, [Next]_vars
             PROVE  [Timeline!Next]_(Timeline!timelineVars)
  OBVIOUS
<1>1. Inv /\ text \in Seq(Char) /\ HistoryTyped
  BY HInvTyped
<1>2. CASE EditOfUser
  <2>1. /\ Edited(Versions(Done, redo_stack, text), Len(Done) + 1,
                  Versions(Done', redo_stack', text'), Len(Done') + 1)
        /\ Versions(Done', redo_stack', text')[Len(Done') + 1] \in Seq(Char)
    BY <1>2, EditMaps
  <2>2. Timeline!Changed
    BY <2>1 DEF Timeline!Changed, Timeline!Edit, Edited
  <2>3. QED
    BY <2>2 DEF Timeline!Next
<1>3. CASE Undo
  <2>1. Timeline!Undo
    BY <1>3, UndoMaps DEF Timeline!Undo
  <2>2. QED
    BY <2>1 DEF Timeline!Next
<1>4. CASE Redo
  <2>1. Timeline!Redo
    BY <1>4, RedoMaps DEF Timeline!Redo
  <2>2. QED
    BY <2>1 DEF Timeline!Next
<1>5. ASSUME Done' = Done, redo_stack' = redo_stack, text' = text
      PROVE  UNCHANGED Timeline!timelineVars
  BY <1>5 DEF Timeline!timelineVars
<1>6. CASE RedoNothing
  <2>1. CommitPending /\ text' = text
    BY <1>1, <1>6, RedoNothingProperty
  <2>2. Done' = Done /\ redo_stack' = redo_stack
    BY <1>1, <2>1, CommitProperty
  <2>3. QED
    BY <1>5, <2>1, <2>2
<1>7. ASSUME NEW t \in Documents, Reload(t) PROVE Timeline!Next
  <2>1. text' = t /\ t \in Seq(Char) /\ Len(Done') = 0 /\ Len(redo_stack') = 0
    BY <1>1, <1>7, ReloadProperty, BufferAssumption
  <2>2. Versions(Done', redo_stack', text') = <<text'>>
    BY <2>1, LoadMaps
  <2>3. Len(Done') + 1 = 1 /\ <<text'>>[1] = text' /\ text' \in Seq(Char)
    BY <2>1
  <2>4. Timeline!Changed
    BY <2>2, <2>3 DEF Timeline!Changed, Timeline!Load
  <2>5. QED
    BY <2>4 DEF Timeline!Next
<1>8. CASE Flush
  <2>1. UNCHANGED <<historyVars, text>> /\ Done' = Done
    BY <1>1, <1>8, FlushProperty
  <2>2. QED
    BY <1>5, <2>1 DEF historyVars
<1>9. CASE UNCHANGED vars
  <2>1. UNCHANGED <<historyVars, text>>
    BY <1>9 DEF vars
  <2>2. Done' = Done
    BY <2>1 DEF historyVars, Done
  <2>3. QED
    BY <1>5, <2>1, <2>2 DEF historyVars
<1>10. QED
  BY <1>2, <1>3, <1>4, <1>6, <1>7, <1>8, <1>9 DEF Next, EditOfUser

(* The buffer implements UndoTimeline, in texts without combining marks and *)
(* for every size of the history: undo and redo walk along the versions the *)
(* document really had, merged keystrokes count as one version, the oldest  *)
(* is dropped when the history is full, an edit cuts off what was undone,   *)
(* and flushing, committing and a redo with nothing to redo change nothing. *)
THEOREM ImplementsTimelineHolds ==
  ASSUME Marks = {}
  PROVE  Spec => ImplementsTimeline
<1>1. Init => HInv /\ Timeline!Init
  BY HInvInit, TimelineInit
<1>2. HInv /\ [Next]_vars => HInv' /\ [Timeline!Next]_(Timeline!timelineVars)
  BY HInvStep, TimelineStep
<1>3. QED
  BY <1>1, <1>2, PTL DEF Spec, ImplementsTimeline, Timeline!Spec
=============================================================================
