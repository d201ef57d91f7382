-------------------------- MODULE SessionStoreProofs --------------------------
(***************************************************************************)
(* What a session keeps of unsaved text, for any projects, numbers of      *)
(* documents and names.                                                    *)
(***************************************************************************)
EXTENDS SessionStore, SequenceTheorems, FiniteSetTheorems, TLAPS

-----------------------------------------------------------------------------
(***************************************************************************)
(* The helpers: removing a document, saving, loading.                      *)
(***************************************************************************)

LEMMA EditorFields ==
  ASSUME NEW e \in Editors
  PROVE  /\ e.modified \in BOOLEAN /\ e.blank \in BOOLEAN /\ e.file \in Names \cup {None}
         /\ \A n \in Names : [e EXCEPT !.file = n] \in Editors
                             /\ [e EXCEPT !.file = n].file = n
                             /\ [e EXCEPT !.file = n].modified = e.modified
                             /\ [e EXCEPT !.file = n].blank = e.blank
BY DEF Editors

LEMMA FunctionIsSeq ==
  ASSUME NEW S, NEW n \in Nat, NEW f \in [1..n -> S]
  PROVE  f \in Seq(S) /\ Len(f) = n
OBVIOUS

LEMMA NoneIsNoName == None \notin Names
BY SessionAssumption

(* Taking one element out of a sequence moves the later ones up. *)
LEMMA RemoveAtProperty ==
  ASSUME NEW S, NEW s \in Seq(S), NEW i \in 1..Len(s)
  PROVE  /\ RemoveAt(s, i) \in Seq(S) /\ Len(RemoveAt(s, i)) = Len(s) - 1
         /\ \A k \in 1..Len(s) - 1 : RemoveAt(s, i)[k] = IF k < i THEN s[k] ELSE s[k + 1]
<1> DEFINE a == SubSeq(s, 1, i - 1)
           b == SubSeq(s, i + 1, Len(s))
<1>1. Len(s) \in Nat /\ i \in Int /\ \A k \in 1..Len(s) : s[k] \in S
  BY LenProperties, ElementOfSeq
<1>2. a \in Seq(S) /\ Len(a) = i - 1 /\ \A k \in 1..i - 1 : a[k] = s[k]
  <2>1. \A k \in 1..i - 1 : s[k] \in S
    BY <1>1
  <2>2. 1 \in Int /\ i - 1 \in Int
    BY <1>1
  <2>3. /\ a \in Seq(S) /\ Len(a) = IF 1 <= i - 1 THEN i - 1 - 1 + 1 ELSE 0
        /\ \A k \in 1..i - 1 - 1 + 1 : a[k] = s[1 + k - 1]
    BY <2>1, <2>2, SubSeqProperties
  <2> HIDE DEF a
  <2>4. QED
    BY <1>1, <2>3
<1>3. b \in Seq(S) /\ Len(b) = Len(s) - i /\ \A k \in 1..Len(s) - i : b[k] = s[i + k]
  <2>1. \A k \in i + 1..Len(s) : s[k] \in S
    BY <1>1
  <2>2. i + 1 \in Int /\ Len(s) \in Int
    BY <1>1
  <2>3. /\ b \in Seq(S) /\ Len(b) = IF i + 1 <= Len(s) THEN Len(s) - (i + 1) + 1 ELSE 0
        /\ \A k \in 1..Len(s) - (i + 1) + 1 : b[k] = s[i + 1 + k - 1]
    BY <2>1, <2>2, SubSeqProperties
  <2> HIDE DEF b
  <2>4. QED
    BY <1>1, <2>3
<1>4. RemoveAt(s, i) = a \o b
  BY DEF RemoveAt
<1> HIDE DEF a, b
<1>5. /\ a \o b \in Seq(S) /\ Len(a \o b) = Len(a) + Len(b)
      /\ \A k \in 1..Len(a) + Len(b) : (a \o b)[k] = IF k <= Len(a) THEN a[k] ELSE b[k - Len(a)]
  BY <1>2, <1>3, ConcatProperties
<1>6. ASSUME NEW k \in 1..Len(s) - 1
      PROVE  (a \o b)[k] = IF k < i THEN s[k] ELSE s[k + 1]
  <2>1. k \in 1..Len(a) + Len(b)
    BY <1>1, <1>2, <1>3
  <2>2. CASE k < i
    BY <2>1, <2>2, <1>1, <1>2, <1>5
  <2>3. CASE ~(k < i)
    <3>1. (a \o b)[k] = b[k - (i - 1)] /\ k - (i - 1) \in 1..Len(s) - i
      BY <2>1, <2>3, <1>1, <1>2, <1>3, <1>5
    <3>2. b[k - (i - 1)] = s[i + (k - (i - 1))] /\ i + (k - (i - 1)) = k + 1
      BY <3>1, <1>1, <1>3
    <3>3. QED
      BY <3>1, <3>2, <2>3
  <2>4. QED
    BY <2>2, <2>3
<1>7. QED
  BY <1>1, <1>2, <1>3, <1>4, <1>5, <1>6

(* A save gives names to documents that need one and changes nothing else.  *)
Named(eds, new) ==
  /\ new \in Seq(Editors) /\ Len(new) = Len(eds)
  /\ \A i \in 1..Len(eds) : /\ eds[i].file # None => new[i] = eds[i]
                            /\ new[i].file \in Names \/ (new[i] = eds[i] /\ ~new[i].modified)
                            /\ new[i].file \in Fresh \/ new[i].file = eds[i].file

LEMMA SaveEffect ==
  ASSUME TypeOK, NEW eds \in Seq(Editors), NEW purpose, Save(eds, purpose)
  PROVE  Named(eds, editors') /\ step' = "buffers" /\ at' = 1 /\ panels' = <<>> /\ after' = purpose
<1>1. PICK names \in [Nameless(eds) -> Fresh] :
        editors' = [i \in DOMAIN eds |-> IF i \in Nameless(eds) THEN [eds[i] EXCEPT !.file = names[i]]
                                         ELSE eds[i]]
  BY DEF Save, Namings
<1>2. DOMAIN eds = 1..Len(eds) /\ Len(eds) \in Nat /\ \A i \in 1..Len(eds) : eds[i] \in Editors
  BY LenProperties, ElementOfSeq
<1>3. Fresh \subseteq Names
  BY DEF Fresh
<1>4. ASSUME NEW i \in 1..Len(eds)
      PROVE  /\ editors'[i] \in Editors
             /\ eds[i].file # None => editors'[i] = eds[i]
             /\ editors'[i].file \in Names \/ (editors'[i] = eds[i] /\ ~editors'[i].modified)
             /\ editors'[i].file \in Fresh \/ editors'[i].file = eds[i].file
  <2>1. CASE i \in Nameless(eds)
    <3>1. names[i] \in Fresh /\ names[i] \in Names /\ eds[i].file = None
      BY <1>1, <1>3, <2>1 DEF Nameless
    <3>2. editors'[i] = [eds[i] EXCEPT !.file = names[i]]
      BY <1>1, <1>2, <2>1
    <3>3. QED
      BY <1>2, <3>1, <3>2, EditorFields
  <2>2. CASE i \notin Nameless(eds)
    <3>1. editors'[i] = eds[i]
      BY <1>1, <1>2, <2>2
    <3>2. eds[i].file \in Names \/ ~eds[i].modified
      BY <1>2, <2>2, EditorFields DEF Nameless
    <3>3. QED
      BY <1>2, <3>1, <3>2
  <2>3. QED
    BY <2>1, <2>2
<1>5. editors' \in Seq(Editors) /\ Len(editors') = Len(eds)
  <2>1. editors' \in [1..Len(eds) -> Editors]
    BY <1>1, <1>2, <1>4
  <2>2. QED
    BY <1>2, <2>1
<1>6. step' = "buffers" /\ at' = 1 /\ panels' = <<>> /\ after' = purpose
  BY DEF Save
<1>7. QED
  BY <1>4, <1>5, <1>6 DEF Named

(* Only new names come to be shared by a save, and no other file ceases to   *)
(* be.                                                                       *)
LEMMA SaveShares ==
  ASSUME NEW eds, NEW purpose, Save(eds, purpose)
  PROVE  shared \ Fresh \subseteq shared' /\ shared' \subseteq shared \cup Fresh
<1>1. PICK names \in [Nameless(eds) -> Fresh] :
        shared' = (shared \ Fresh)
                     \cup {names[i] : i \in {j \in Nameless(eds) : \E k \in Nameless(eds) :
                                                                     k # j /\ names[k] = names[j]}}
  BY DEF Save, Namings
<1>2. QED
  BY <1>1

(* What is of one document, or named once, but for some files. *)
Distinct(S, eds) ==
  \A i, j \in DOMAIN eds : eds[i].file = eds[j].file /\ i # j => eds[i].file \in S \cup {None}
Injective(S, s) == \A i, j \in DOMAIN s : s[i] = s[j] => i = j \/ s[i] \in S
Known(eds) == \A i \in DOMAIN eds : eds[i].file = None \/ \E j \in DOMAIN editors : editors[j].file = eds[i].file

(* The names are new; those that two documents get are shared. *)
LEMMA SaveDistinct ==
  ASSUME TypeOK, NEW eds \in Seq(Editors), NEW purpose, Save(eds, purpose),
         Distinct(shared, eds), Known(eds)
  PROVE  Distinct(shared', editors')
<1>1. PICK names \in [Nameless(eds) -> Fresh] :
        /\ editors' = [i \in DOMAIN eds |-> IF i \in Nameless(eds) THEN [eds[i] EXCEPT !.file = names[i]]
                                            ELSE eds[i]]
        /\ shared' = (shared \ Fresh)
                        \cup {names[i] : i \in {j \in Nameless(eds) : \E k \in Nameless(eds) :
                                                                        k # j /\ names[k] = names[j]}}
  BY DEF Save, Namings
<1>2. DOMAIN eds = 1..Len(eds) /\ \A i \in DOMAIN eds : eds[i] \in Editors
  BY LenProperties, ElementOfSeq
<1>3. DOMAIN editors' = DOMAIN eds
  BY <1>1
<1>4. ASSUME NEW i \in DOMAIN eds
      PROVE  editors'[i].file = IF i \in Nameless(eds) THEN names[i] ELSE eds[i].file
  <2>1. CASE i \in Nameless(eds)
    <3>1. names[i] \in Names /\ editors'[i] = [eds[i] EXCEPT !.file = names[i]]
      BY <1>1, <2>1 DEF Fresh
    <3>2. QED
      BY <1>2, <2>1, <3>1, EditorFields
  <2>2. CASE i \notin Nameless(eds)
    BY <1>1, <2>2
  <2>3. QED
    BY <2>1, <2>2
<1>5. \A i \in DOMAIN eds : eds[i].file = None \/ eds[i].file \notin Fresh
  BY DEF Known, Fresh
<1>6. ASSUME NEW i \in DOMAIN eds, NEW j \in DOMAIN eds, editors'[i].file = editors'[j].file, i # j
      PROVE  editors'[i].file \in shared' \cup {None}
  <2>1. CASE i \in Nameless(eds) /\ j \in Nameless(eds)
    <3>1. editors'[i].file = names[i] /\ editors'[j].file = names[j]
      BY <1>4, <2>1
    <3>2. names[i] = names[j]
      BY <1>6, <3>1
    <3>3. names[i] \in shared'
      BY <1>1, <1>6, <2>1, <3>2
    <3>4. QED
      BY <3>1, <3>3
  <2>2. CASE i \in Nameless(eds) /\ j \notin Nameless(eds)
    <3>1. names[i] \in Fresh
      BY <1>1, <2>2
    <3>2. QED
      BY <1>4, <1>5, <1>6, <2>2, <3>1
  <2>3. CASE i \notin Nameless(eds) /\ j \in Nameless(eds)
    <3>1. names[j] \in Fresh
      BY <1>1, <2>3
    <3>2. QED
      BY <1>4, <1>5, <1>6, <2>3, <3>1
  <2>4. CASE i \notin Nameless(eds) /\ j \notin Nameless(eds)
    <3>1. eds[i].file = eds[j].file /\ editors'[i].file = eds[i].file
      BY <1>4, <1>6, <2>4
    <3>2. eds[i].file \in shared \cup {None}
      BY <1>6, <3>1 DEF Distinct
    <3>3. QED
      BY <1>5, <3>1, <3>2, SaveShares
  <2>5. QED
    BY <2>1, <2>2, <2>3, <2>4
<1>7. QED
  BY <1>3, <1>6 DEF Distinct

(* A load opens each text there is, and nothing else; each once but for the *)
(* files that session.toml may name several times.                          *)
LoadOf(p, eds) ==
  /\ eds \in Seq(Editors)
  /\ \A i \in DOMAIN eds : eds[i].file \in Saved(p) /\ eds[i] = Restored(eds[i].file)
  /\ \A n \in Saved(p) : \E i \in DOMAIN eds : eds[i] = Restored(n)
  /\ Injective(shared, session[p]) => Distinct(shared, eds)

LEMMA LoadsProperty ==
  ASSUME TypeOK, NEW p \in Projects, Readable(p), NEW eds \in Loads(p)
  PROVE  LoadOf(p, eds)
<1> DEFINE listed == {i \in DOMAIN session[p] : session[p][i] \in Saved(p)}
           orphans == Orphans(p)
<1>1. session[p] \in Seq(Names) /\ DOMAIN session[p] = 1..Len(session[p]) /\ Len(session[p]) \in Nat
  <2>1. session[p] \in Seq(Names)
    BY DEF TypeOK, Readable
  <2>2. QED
    BY <2>1, LenProperties
<1>2. Saved(p) \subseteq Names /\ orphans \subseteq Names
  BY DEF Saved, Orphans
<1>3. Cardinality(listed) \in Nat /\ Cardinality(orphans) \in Nat
  <2>1. IsFiniteSet(1..Len(session[p])) /\ IsFiniteSet(Names)
    BY <1>1, FS_Interval, SessionAssumption
  <2>2. listed \subseteq 1..Len(session[p])
    BY <1>1
  <2>3. IsFiniteSet(listed) /\ IsFiniteSet(orphans)
    BY <1>2, <2>1, <2>2, FS_Subset
  <2>4. QED
    BY <2>3, FS_CardinalityType
<1> DEFINE c == Cardinality(listed)
           d == Cardinality(orphans)
<1>4. PICK e \in Enumerations(listed), o \in Enumerations(orphans) :
        /\ \A j, k \in DOMAIN e : j < k => e[j] < e[k]
        /\ eds = [i \in DOMAIN e |-> Restored(session[p][e[i]])] \o [i \in DOMAIN o |-> Restored(o[i])]
  <2> DEFINE inOrder == {e \in Enumerations(listed) : \A j, k \in DOMAIN e : j < k => e[j] < e[k]}
             both(e, o) == [i \in DOMAIN e |-> Restored(session[p][e[i]])] \o [i \in DOMAIN o |-> Restored(o[i])]
  <2>1. Loads(p) = {both(e, o) : e \in inOrder, o \in Enumerations(orphans)}
    BY DEF Loads
  <2>2. \E e \in inOrder, o \in Enumerations(orphans) : eds = both(e, o)
    <3> HIDE DEF inOrder, orphans, both
    <3>1. QED
      BY <2>1
  <2>3. QED
    BY <2>2
<1>5. /\ e \in [1..c -> listed] /\ \A x \in listed : \E k \in 1..c : e[k] = x
      /\ o \in [1..d -> orphans] /\ \A x \in orphans : \E k \in 1..d : o[k] = x
      /\ \A j, k \in 1..d : o[j] = o[k] => j = k
      /\ \A j, k \in 1..c : e[j] = e[k] => j = k
  BY DEF Enumerations, Bijection, Injection, Surjection, IsInjective
<1>6. \A x \in listed : session[p][x] \in Saved(p) /\ session[p][x] \in ToSet(session[p])
  BY DEF ToSet
<1>7. \A x \in orphans : x \in Saved(p) /\ x \notin ToSet(session[p])
  BY DEF Orphans
<1>8. \A n \in Saved(p) : n \in orphans \/ \E x \in listed : session[p][x] = n
  BY DEF Orphans, ToSet
<1>9. \A x, y \in listed : Injective(shared, session[p]) /\ session[p][x] = session[p][y]
                              => x = y \/ session[p][x] \in shared
  BY DEF Injective
<1> DEFINE one == [i \in DOMAIN e |-> Restored(session[p][e[i]])]
           two == [i \in DOMAIN o |-> Restored(o[i])]
<1> HIDE DEF listed, orphans, c, d
<1>10. \A n \in Names : Restored(n) \in Editors /\ Restored(n).file = n
  BY DEF Restored, Editors
<1>11. c \in Nat /\ d \in Nat
  BY <1>3 DEF c, d
<1>12. one \in Seq(Editors) /\ Len(one) = c /\ \A i \in 1..c : one[i] = Restored(session[p][e[i]])
  <2>1. DOMAIN e = 1..c
    BY <1>5
  <2>2. one \in [1..c -> Editors] /\ \A i \in 1..c : one[i] = Restored(session[p][e[i]])
    BY <2>1, <1>2, <1>5, <1>6, <1>10
  <2> HIDE DEF one
  <2>3. QED
    BY <1>11, <2>2
<1>13. two \in Seq(Editors) /\ Len(two) = d /\ \A i \in 1..d : two[i] = Restored(o[i])
  <2>1. DOMAIN o = 1..d
    BY <1>5
  <2>2. two \in [1..d -> Editors] /\ \A i \in 1..d : two[i] = Restored(o[i])
    BY <2>1, <1>2, <1>5, <1>10
  <2> HIDE DEF two
  <2>3. QED
    BY <1>11, <2>2
<1>14. eds = one \o two
  BY <1>4
<1> HIDE DEF one, two
<1>15. /\ eds \in Seq(Editors) /\ DOMAIN eds = 1..c + d
       /\ \A i \in 1..c + d : eds[i] = IF i <= c THEN one[i] ELSE two[i - c]
  BY <1>12, <1>13, <1>14, ConcatProperties, LenProperties
<1>16. \A i \in 1..c : eds[i] = Restored(session[p][e[i]]) /\ eds[i].file = session[p][e[i]]
  BY <1>2, <1>5, <1>6, <1>10, <1>11, <1>12, <1>15
<1>17. \A i \in 1..d : eds[c + i] = Restored(o[i]) /\ eds[c + i].file = o[i]
  <2>1. \A i \in 1..d : c + i \in 1..c + d /\ ~(c + i <= c) /\ c + i - c = i
    BY <1>11
  <2>2. ASSUME NEW i \in 1..d
        PROVE  eds[c + i] = Restored(o[i]) /\ eds[c + i].file = o[i]
    <3>1. c + i \in 1..c + d /\ ~(c + i <= c) /\ c + i - c = i
      BY <2>1
    <3>2. PICK m \in 1..c + d : m = c + i
      BY <3>1
    <3>3. ~(m <= c) /\ m - c = i
      BY <1>11, <3>1, <3>2
    <3>4. eds[m] = two[m - c]
      BY <3>3, <1>15
    <3>5. eds[c + i] = two[i]
      BY <3>2, <3>3, <3>4
    <3>6. eds[c + i] = Restored(o[i]) /\ o[i] \in Names
      BY <3>5, <1>2, <1>5, <1>13
    <3>7. QED
      BY <3>6, <1>10
  <2>3. QED
    BY <2>2
<1>18. ASSUME NEW i \in DOMAIN eds
       PROVE  i \in 1..c \/ \E k \in 1..d : i = c + k
  <2>1. CASE i > c
    <3>1. i - c \in 1..d /\ i = c + (i - c)
      BY <1>11, <1>15, <2>1
    <3>2. QED
      BY <3>1
  <2>2. CASE ~(i > c)
    BY <1>11, <1>15, <2>2
  <2>3. QED
    BY <2>1, <2>2
<1>19. ASSUME NEW i \in DOMAIN eds
       PROVE  eds[i].file \in Saved(p) /\ eds[i] = Restored(eds[i].file)
  <2>1. CASE i \in 1..c
    BY <1>5, <1>6, <1>16, <2>1
  <2>2. CASE \E k \in 1..d : i = c + k
    BY <1>5, <1>7, <1>17, <2>2
  <2>3. QED
    BY <1>18, <2>1, <2>2
<1>20. ASSUME NEW n \in Saved(p)
       PROVE  \E i \in DOMAIN eds : eds[i] = Restored(n)
  <2>1. CASE n \in orphans
    <3>1. PICK k \in 1..d : o[k] = n
      BY <1>5, <2>1
    <3>2. c + k \in DOMAIN eds
      BY <1>11, <1>15
    <3>3. QED
      BY <1>17, <3>1, <3>2
  <2>2. CASE \E x \in listed : session[p][x] = n
    <3>1. PICK k \in 1..c : session[p][e[k]] = n
      BY <1>5, <2>2
    <3>2. k \in DOMAIN eds
      BY <1>11, <1>15
    <3>3. QED
      BY <1>16, <3>1, <3>2
  <2>3. QED
    BY <1>8, <2>1, <2>2
<1>21. ASSUME Injective(shared, session[p]), NEW i \in DOMAIN eds, NEW j \in DOMAIN eds, eds[i].file = eds[j].file
       PROVE  i = j \/ eds[i].file \in shared
  <2>1. CASE i \in 1..c /\ j \in 1..c
    BY <1>5, <1>9, <1>16, <1>21, <2>1
  <2>2. ASSUME NEW k \in 1..d, i = c + k, j \in 1..c
        PROVE  FALSE
    BY <1>5, <1>6, <1>7, <1>16, <1>17, <1>21, <2>2
  <2>3. ASSUME NEW k \in 1..d, j = c + k, i \in 1..c
        PROVE  FALSE
    BY <1>5, <1>6, <1>7, <1>16, <1>17, <1>21, <2>3
  <2>4. ASSUME NEW k \in 1..d, i = c + k, NEW l \in 1..d, j = c + l
        PROVE  i = j
    BY <1>5, <1>17, <1>21, <2>4
  <2>5. QED
    BY <1>18, <2>1, <2>2, <2>3, <2>4
<1>22. QED
  BY <1>15, <1>19, <1>20, <1>21 DEF LoadOf, Distinct

-----------------------------------------------------------------------------
(***************************************************************************)
(* Types.  A document a save writes has a name.                            *)
(***************************************************************************)
NamedWhenSaved ==
  step = "buffers" => \A i \in 1..Len(editors) : editors[i].modified => editors[i].file \in Names

TypeInv == TypeOK /\ NamedWhenSaved

LEMMA ContinueIsPurpose == Continue \in Purposes /\ Continue.kind = "continue"
BY DEF Purposes, Continue, For

LEMMA PurposeProject ==
  ASSUME NEW a \in Purposes, a.kind \in {"switch", "new", "move"}
  PROVE  a.project \in Projects
BY DEF Purposes, Continue, For

LEMMA SaveTyped ==
  ASSUME TypeOK, NEW eds \in Seq(Editors), NEW purpose \in Purposes, Save(eds, purpose)
  PROVE  /\ editors' \in Seq(Editors) /\ NamedWhenSaved'
         /\ step' \in {"idle", "buffers", "clean", "done"} /\ at' \in Nat \ {0}
         /\ panels' \in Seq(Names) /\ after' \in Purposes /\ shared' \subseteq Names
<1>1. Named(eds, editors') /\ step' = "buffers" /\ at' = 1 /\ panels' = <<>> /\ after' = purpose
  BY SaveEffect
<1>2. editors' \in Seq(Editors) /\ Len(editors') = Len(eds)
  BY <1>1 DEF Named
<1>3. NamedWhenSaved'
  <2>1. ASSUME NEW i \in 1..Len(editors'), editors'[i].modified
        PROVE  editors'[i].file \in Names
    <3>1. editors'[i].file \in Names \/ ~editors'[i].modified
      BY <1>1, <1>2 DEF Named
    <3>2. QED
      BY <2>1, <3>1
  <2>2. QED
    BY <2>1 DEF NamedWhenSaved
<1>4. shared' \subseteq Names
  <2>1. shared' \subseteq shared \cup Fresh
    BY SaveShares
  <2>2. QED
    BY <2>1 DEF TypeOK, Fresh
<1>5. QED
  BY <1>1, <1>2, <1>3, <1>4

LEMMA IdleTyped ==
  ASSUME Idle
  PROVE  /\ NamedWhenSaved' /\ step' = "idle"
         /\ step' \in {"idle", "buffers", "clean", "done"} /\ at' \in Nat \ {0}
         /\ panels' \in Seq(Names) /\ after' \in Purposes
BY ContinueIsPurpose DEF Idle, NamedWhenSaved

(* One file of one project changes. *)
LEMMA BufferTyped ==
  ASSUME TypeOK, NEW p \in Projects, NEW n \in Names, NEW v \in {None, "blank", "text"}
  PROVE  /\ [buffers EXCEPT ![p][n] = v] \in [Projects -> [Names -> {None, "blank", "text"}]]
         /\ [buffers EXCEPT ![p][n] = v][p][n] = v
         /\ \A q \in Projects, m \in Names :
              q # p \/ m # n => [buffers EXCEPT ![p][n] = v][q][m] = buffers[q][m]
BY DEF TypeOK

LEMMA SweptTyped ==
  ASSUME TypeOK, NEW p \in Projects
  PROVE  Swept(p) \in [Names -> {None, "blank", "text"}] /\ NoFiles \in [Names -> {None, "blank", "text"}]
BY DEF Swept, NoFiles

LEMMA StopTyped ==
  ASSUME Stop
  PROVE  Idle /\ running' = FALSE /\ running' \in BOOLEAN /\ editors' = <<>> /\ editors' \in Seq(Editors)
<1>1. <<>> \in Seq(Editors)
  BY EmptySeq
<1>2. Idle /\ running' = FALSE /\ editors' = <<>>
  BY DEF Stop
<1>3. QED
  BY <1>1, <1>2

(* The document that is being written. *)
LEMMA AtNamed ==
  ASSUME TypeInv, step = "buffers", at <= Len(editors), Unsaved(editors[at])
  PROVE  at \in DOMAIN editors /\ at \in 1..Len(editors) /\ editors[at].file \in Names
<1>1. DOMAIN editors = 1..Len(editors) /\ Len(editors) \in Nat /\ at \in Nat \ {0}
  BY LenProperties DEF TypeInv, TypeOK
<1>2. at \in 1..Len(editors)
  BY <1>1
<1>3. editors[at].modified
  BY DEF Unsaved
<1>4. QED
  BY <1>1, <1>2, <1>3 DEF TypeInv, NamedWhenSaved

Edited(eds, i) == [eds EXCEPT ![i].modified = TRUE, ![i].blank = ~@]

LEMMA EditEffect ==
  ASSUME NEW eds \in Seq(Editors), NEW i \in DOMAIN eds, NEW new, new = Edited(eds, i)
  PROVE  /\ new \in Seq(Editors) /\ Len(new) = Len(eds) /\ DOMAIN new = DOMAIN eds
         /\ \A j \in DOMAIN eds : new[j].file = eds[j].file /\ (j # i => new[j] = eds[j])
<1>1. Len(eds) \in Nat /\ DOMAIN eds = 1..Len(eds) /\ \A j \in DOMAIN eds : eds[j] \in Editors
  BY LenProperties, ElementOfSeq
<1>2. DOMAIN new = DOMAIN eds /\ \A j \in DOMAIN eds : j # i => new[j] = eds[j]
  BY DEF Edited
<1>3. new[i] = [eds[i] EXCEPT !.modified = TRUE, !.blank = ~@]
  BY DEF Edited
<1>4. new[i] \in Editors /\ new[i].file = eds[i].file
  <2>1. eds[i] \in Editors
    BY <1>1
  <2>2. QED
    BY <1>3, <2>1 DEF Editors
<1>5. new \in [1..Len(eds) -> Editors]
  <2>1. new = [j \in 1..Len(eds) |-> new[j]]
    BY <1>1 DEF Edited
  <2>2. \A j \in 1..Len(eds) : new[j] \in Editors
    BY <1>1, <1>2, <1>4
  <2>3. QED
    BY <2>1, <2>2
<1>6. new \in Seq(Editors) /\ Len(new) = Len(eds)
  BY <1>1, <1>5, FunctionIsSeq, Zenon
<1>7. \A j \in DOMAIN eds : new[j].file = eds[j].file /\ (j # i => new[j] = eds[j])
  BY <1>2, <1>4
<1>8. QED
  BY <1>2, <1>6, <1>7

(* The types each step keeps, by part of the state. *)
LEMMA StartTyped ==
  ASSUME TypeInv, NEW p \in Projects, Start(p)
  PROVE  TypeInv'
<1>1. PICK old \in SUBSET {q \in Projects \ {p} : MayGo(q)} :
        /\ session' = [q \in Projects |-> IF q \in Gone(old) THEN None ELSE session[q]]
        /\ buffers' = [q \in Projects |-> IF q \in Gone(old) THEN NoFiles
                                          ELSE IF q = p /\ Readable(p) THEN Swept(p)
                                          ELSE buffers[q]]
  BY DEF Start
<1>2. running' = TRUE /\ project' = p /\ Idle /\ shared' = shared
  BY DEF Start
<1>3. session' \in [Projects -> {None, Torn} \cup Seq(Names)]
  BY <1>1 DEF TypeInv, TypeOK
<1>4. buffers' \in [Projects -> [Names -> {None, "blank", "text"}]]
  <2>1. Swept(p) \in [Names -> {None, "blank", "text"}] /\ NoFiles \in [Names -> {None, "blank", "text"}]
    BY SweptTyped DEF TypeInv
  <2>2. QED
    BY <1>1, <2>1 DEF TypeInv, TypeOK
<1>5. editors' \in Seq(Editors)
  <2>1. CASE Readable(p)
    <3>1. editors' \in Loads(p)
      BY <2>1 DEF Start
    <3>2. LoadOf(p, editors')
      BY <2>1, <3>1, LoadsProperty DEF TypeInv
    <3>3. QED
      BY <3>2 DEF LoadOf
  <2>2. CASE ~Readable(p)
    BY <2>2 DEF Start
  <2>3. QED
    BY <2>1, <2>2
<1>6. kept' \in [Projects -> SUBSET Names]
  <2>1. kept' = kept \/ kept' = [kept EXCEPT ![p] = {}]
    BY DEF Start
  <2>2. QED
    BY <2>1 DEF TypeInv, TypeOK
<1>7. QED
  BY <1>2, <1>3, <1>4, <1>5, <1>6, IdleTyped DEF TypeInv, TypeOK

(* The changes of kept and of one project's files that several steps make. *)
LEMMA KeptTyped ==
  ASSUME TypeOK, NEW p \in Projects, NEW S \in SUBSET Names, NEW n
  PROVE  /\ [kept EXCEPT ![p] = S] \in [Projects -> SUBSET Names]
         /\ [kept EXCEPT ![p] = @ \cup S] \in [Projects -> SUBSET Names]
         /\ [kept EXCEPT ![p] = @ \ {n}] \in [Projects -> SUBSET Names]
BY DEF TypeOK

LEMMA UserTyped ==
  ASSUME TypeInv, NewEditor \/ (\E i \in DOMAIN editors : Edit(i) \/ SaveAs(i) \/ CloseEditor(i))
                  \/ (\E purpose \in Purposes : SaveFor(purpose)) \/ (\E p \in Projects : DeleteSession(p))
  PROVE  TypeInv'
<1>1. /\ editors \in Seq(Editors) /\ DOMAIN editors = 1..Len(editors) /\ Len(editors) \in Nat
      /\ TypeOK /\ project \in Projects
  BY LenProperties DEF TypeInv, TypeOK
<1>2. CASE NewEditor
  <2>1. Untitled \in Editors
    BY DEF Untitled, Editors
  <2>2. Append(editors, Untitled) \in Seq(Editors)
    BY <1>1, <2>1
  <2>3. Save(Append(editors, Untitled), Continue)
    BY <1>2 DEF NewEditor
  <2>4. QED
    BY <1>1, <1>2, <2>2, <2>3, SaveTyped, ContinueIsPurpose DEF NewEditor, TypeInv, TypeOK, diskVars
<1>3. ASSUME NEW i \in DOMAIN editors, Edit(i)
      PROVE  TypeInv'
  <2>1. editors' \in Seq(Editors)
    <3>1. editors' = Edited(editors, i)
      BY <1>3 DEF Edit, Edited
    <3>2. QED
      BY <1>1, <3>1, EditEffect
  <2>2. kept' \in [Projects -> SUBSET Names]
    <3>1. kept' = kept \/ kept' = [kept EXCEPT ![project] = @ \ {editors[i].file}]
      BY <1>3 DEF Edit, Forget
    <3>2. QED
      BY <1>1, <3>1 DEF TypeOK
  <2>3. step' # "buffers"
    BY <1>3 DEF Edit, MayAct, saveVars
  <2>4. QED
    BY <1>1, <1>3, <2>1, <2>2, <2>3 DEF Edit, TypeInv, TypeOK, NamedWhenSaved, saveVars, diskVars
<1>4. ASSUME NEW i \in DOMAIN editors, SaveAs(i)
      PROVE  TypeInv'
  <2>1. editors' \in Seq(Editors)
    BY <1>1, <1>4, RemoveAtProperty DEF SaveAs
  <2>2. kept' \in [Projects -> SUBSET Names]
    BY <1>1, <1>4, KeptTyped DEF SaveAs, Forget, TypeOK
  <2>3. step' # "buffers"
    BY <1>4 DEF SaveAs, MayAct, saveVars
  <2>4. QED
    BY <1>1, <1>4, <2>1, <2>2, <2>3 DEF SaveAs, TypeInv, TypeOK, NamedWhenSaved, saveVars, diskVars
<1>5. ASSUME NEW i \in DOMAIN editors, CloseEditor(i)
      PROVE  TypeInv'
  <2>1. RemoveAt(editors, i) \in Seq(Editors) /\ Save(RemoveAt(editors, i), Continue)
    BY <1>1, <1>5, RemoveAtProperty DEF CloseEditor
  <2>2. kept' \in [Projects -> SUBSET Names]
    BY <1>1, <1>5, KeptTyped DEF CloseEditor, Forget, TypeOK
  <2>3. buffers' \in [Projects -> [Names -> {None, "blank", "text"}]]
    <3>1. CASE editors[i].file = None
      BY <1>1, <1>5, <3>1 DEF CloseEditor, TypeOK
    <3>2. CASE editors[i].file # None
      <4>1. editors[i].file \in Names
        BY <1>1, <3>2, ElementOfSeq, EditorFields
      <4>2. buffers' = [buffers EXCEPT ![project][editors[i].file] = None]
        BY <1>5, <3>2 DEF CloseEditor
      <4>3. QED
        BY <1>1, <4>1, <4>2, BufferTyped
    <3>3. QED
      BY <3>1, <3>2
  <2>4. QED
    BY <1>1, <1>5, <2>1, <2>2, <2>3, SaveTyped, ContinueIsPurpose DEF CloseEditor, TypeInv, TypeOK
<1>6. ASSUME NEW purpose \in Purposes, SaveFor(purpose)
      PROVE  TypeInv'
  <2>1. Save(editors, purpose)
    BY <1>6 DEF SaveFor
  <2>2. QED
    BY <1>1, <1>6, <2>1, SaveTyped DEF SaveFor, TypeInv, TypeOK, diskVars
<1>7. ASSUME NEW p \in Projects, DeleteSession(p)
      PROVE  TypeInv'
  <2>1. session' \in [Projects -> {None, Torn} \cup Seq(Names)]
    BY <1>1, <1>7 DEF DeleteSession, TypeOK
  <2>2. buffers' \in [Projects -> [Names -> {None, "blank", "text"}]]
    BY <1>1, <1>7 DEF DeleteSession, TypeOK, NoFiles
  <2>3. kept' \in [Projects -> SUBSET Names]
    BY <1>1, <1>7 DEF DeleteSession, TypeOK
  <2>4. QED
    BY <1>1, <1>7, <2>1, <2>2, <2>3 DEF DeleteSession, TypeInv, TypeOK, NamedWhenSaved, MayAct, saveVars
<1>8. QED
  BY <1>2, <1>3, <1>4, <1>5, <1>6, <1>7

LEMMA SavingTyped ==
  ASSUME TypeInv, WriteBuffer \/ SkipEditor \/ WriteSession \/ CleanupStaleBuffers
  PROVE  TypeInv'
<1>1. /\ editors \in Seq(Editors) /\ DOMAIN editors = 1..Len(editors) /\ Len(editors) \in Nat
      /\ TypeOK /\ project \in Projects /\ at \in Nat \ {0}
  BY LenProperties DEF TypeInv, TypeOK
<1>2. CASE WriteBuffer
  <2> DEFINE n == editors[at].file
  <2>1. n \in Names
    BY <1>2, AtNamed DEF WriteBuffer
  <2> HIDE DEF n
  <2>2. /\ step' = "buffers" /\ step = "buffers" /\ editors' = editors /\ at' = at + 1
        /\ UNCHANGED <<running, project, after, session, shared>>
    BY <1>2 DEF WriteBuffer
  <2>3. panels' \in Seq(Names)
    <3>1. panels' = Append(panels, n) \/ panels' = panels
      BY <1>2 DEF WriteBuffer, n
    <3>2. panels \in Seq(Names)
      BY <1>1 DEF TypeOK
    <3>3. QED
      BY <2>1, <3>1, <3>2
  <2>4. buffers' \in [Projects -> [Names -> {None, "blank", "text"}]]
    <3>1. \/ buffers' = buffers \/ buffers' = [buffers EXCEPT ![project][n] = "text"]
          \/ buffers' = [buffers EXCEPT ![project][n] = "blank"]
      BY <1>2 DEF WriteBuffer, n
    <3>2. ASSUME NEW v \in {None, "blank", "text"}
          PROVE  [buffers EXCEPT ![project][n] = v] \in [Projects -> [Names -> {None, "blank", "text"}]]
      BY <1>1, <2>1, BufferTyped
    <3>3. QED
      BY <1>1, <3>1, <3>2 DEF TypeOK
  <2>5. kept' \in [Projects -> SUBSET Names]
    <3>1. \/ kept' = kept \/ kept' = [kept EXCEPT ![project] = @ \cup {n}]
          \/ kept' = [kept EXCEPT ![project] = @ \ {n}]
      BY <1>2 DEF WriteBuffer, n
    <3>2. {n} \in SUBSET Names
      BY <2>1
    <3>3. QED
      BY <1>1, <3>1, <3>2, KeptTyped DEF TypeOK
  <2>6. QED
    BY <1>1, <2>2, <2>3, <2>4, <2>5 DEF TypeInv, TypeOK, NamedWhenSaved
<1>3. CASE SkipEditor
  BY <1>1, <1>3 DEF SkipEditor, TypeInv, TypeOK, NamedWhenSaved, diskVars, historyVars
<1>4. CASE WriteSession
  <2>1. session' \in [Projects -> {None, Torn} \cup Seq(Names)]
    BY <1>1, <1>4 DEF WriteSession, TypeOK
  <2>2. kept' \in [Projects -> SUBSET Names]
    <3>1. ToSet(panels) \ shared \in SUBSET Names
      BY <1>1, LenProperties, ElementOfSeq DEF ToSet, TypeOK
    <3>2. QED
      BY <1>1, <1>4, <3>1, KeptTyped DEF WriteSession, TypeOK
  <2>3. step' \in {"clean", "done"}
    BY <1>4 DEF WriteSession
  <2>4. QED
    BY <1>1, <1>4, <2>1, <2>2, <2>3 DEF WriteSession, TypeInv, TypeOK, NamedWhenSaved
<1>5. CASE CleanupStaleBuffers
  <2>1. buffers' \in [Projects -> [Names -> {None, "blank", "text"}]]
    BY <1>1, <1>5 DEF CleanupStaleBuffers, TypeOK
  <2>2. QED
    BY <1>1, <1>5, <2>1 DEF CleanupStaleBuffers, TypeInv, TypeOK, NamedWhenSaved, historyVars
<1>6. QED
  BY <1>2, <1>3, <1>4, <1>5

LEMMA AfterTyped ==
  ASSUME TypeInv, Resume \/ SwitchToSession \/ CreateNewSession \/ MoveSessionTo \/ Crash
  PROVE  TypeInv'
<1>1. TypeOK /\ project \in Projects /\ editors \in Seq(Editors) /\ after \in Purposes
  BY DEF TypeInv, TypeOK
<1>2. CASE Resume
  <2>1. Idle /\ running' \in BOOLEAN /\ editors' \in Seq(Editors)
    BY <1>1, <1>2, StopTyped DEF Resume, TypeOK
  <2>2. QED
    BY <1>1, <1>2, <2>1, IdleTyped DEF Resume, TypeInv, TypeOK, diskVars, historyVars
<1>3. CASE SwitchToSession
  <2>1. project' \in Projects /\ project' = after.project
    BY <1>1, <1>3, PurposeProject DEF SwitchToSession
  <2>2. editors' \in Seq(Editors) /\ Idle /\ running' \in BOOLEAN
        /\ (buffers' = buffers \/ buffers' = [buffers EXCEPT ![project'] = Swept(project')])
    <3>1. CASE Readable(project') /\ editors' \in Loads(project') /\ Idle /\ UNCHANGED running
               /\ buffers' = [buffers EXCEPT ![project'] = Swept(project')]
      <4>1. LoadOf(project', editors')
        BY <1>1, <2>1, <3>1, LoadsProperty
      <4>2. QED
        BY <1>1, <3>1, <4>1 DEF LoadOf, TypeOK
    <3>2. CASE Stop /\ UNCHANGED buffers
      BY <3>2, StopTyped
    <3>3. QED
      BY <1>3, <3>1, <3>2 DEF SwitchToSession
  <2>3. buffers' \in [Projects -> [Names -> {None, "blank", "text"}]]
    BY <1>1, <2>1, <2>2, SweptTyped DEF TypeOK
  <2>4. QED
    BY <1>1, <1>3, <2>1, <2>2, <2>3, IdleTyped DEF SwitchToSession, TypeInv, TypeOK, historyVars
<1>4. CASE CreateNewSession
  <2>1. project' \in Projects
    BY <1>1, <1>4, PurposeProject DEF CreateNewSession
  <2>2. session' \in [Projects -> {None, Torn} \cup Seq(Names)] /\ kept' \in [Projects -> SUBSET Names]
    BY <1>1, <1>4, <2>1 DEF CreateNewSession, TypeOK
  <2>3. CASE Save(<<>>, Continue) /\ UNCHANGED running
    <3>1. <<>> \in Seq(Editors)
      OBVIOUS
    <3>2. QED
      BY <1>1, <1>4, <2>1, <2>2, <2>3, <3>1, SaveTyped, ContinueIsPurpose DEF CreateNewSession, TypeInv, TypeOK
  <2>4. CASE Stop /\ UNCHANGED shared
    BY <1>1, <1>4, <2>1, <2>2, <2>4, IdleTyped, StopTyped DEF CreateNewSession, TypeInv, TypeOK
  <2>5. QED
    BY <1>4, <2>3, <2>4 DEF CreateNewSession
<1>5. CASE MoveSessionTo
  <2>1. project' \in Projects
    BY <1>1, <1>5, PurposeProject DEF MoveSessionTo
  <2>2. PICK copied \in SUBSET Names :
          LET gone == {project} \cup NestedIn(project)
          IN  /\ session' \in {[q \in Projects |-> IF q \in gone THEN None
                                                   ELSE IF q = project' THEN s ELSE session[q]]
                                 : s \in {session[project], session[project']}}
              /\ buffers' = [q \in Projects |-> [n \in Names |->
                               IF q \in gone THEN None
                               ELSE IF q = project' /\ n \in copied THEN buffers[project][n]
                               ELSE buffers[q][n]]]
              /\ kept' = [kept EXCEPT ![project] = {},
                           ![project'] = IF session'[project'] \in {None, Torn} THEN {}
                                         ELSE kept[project] \cap copied]
    BY <1>5 DEF MoveSessionTo
  <2>3. session' \in [Projects -> {None, Torn} \cup Seq(Names)]
    <3>1. PICK s \in {session[project], session[project']} :
            session' = [q \in Projects |-> IF q \in {project} \cup NestedIn(project) THEN None
                                           ELSE IF q = project' THEN s ELSE session[q]]
      BY <2>2
    <3>2. s \in {None, Torn} \cup Seq(Names)
      BY <1>1, <2>1 DEF TypeOK
    <3>3. QED
      BY <1>1, <3>1, <3>2 DEF TypeOK
  <2>4. buffers' \in [Projects -> [Names -> {None, "blank", "text"}]]
    BY <1>1, <2>2 DEF TypeOK
  <2>5. kept' \in [Projects -> SUBSET Names]
    BY <1>1, <2>1, <2>2 DEF TypeOK
  <2>6. CASE Save(editors, Continue) /\ UNCHANGED running
    BY <1>1, <2>1, <2>3, <2>4, <2>5, <2>6, SaveTyped, ContinueIsPurpose DEF TypeInv, TypeOK
  <2>7. CASE Stop /\ UNCHANGED shared
    BY <1>1, <2>1, <2>3, <2>4, <2>5, <2>7, IdleTyped, StopTyped DEF TypeInv, TypeOK
  <2>8. QED
    BY <1>5, <2>6, <2>7 DEF MoveSessionTo
<1>6. CASE Crash
  <2>1. Stop /\ project' = project /\ shared' = shared
    BY <1>6 DEF Crash
  <2>2. kept' \in [Projects -> SUBSET Names]
    BY <1>1, <1>6, KeptTyped DEF Crash, Forget, TypeOK
  <2>3. session' \in [Projects -> {None, Torn} \cup Seq(Names)]
    BY <1>1, <1>6 DEF Crash, diskVars, TypeOK
  <2>4. buffers' \in [Projects -> [Names -> {None, "blank", "text"}]]
    <3>1. CASE buffers' = buffers
      BY <1>1, <3>1 DEF TypeOK
    <3>2. CASE /\ step = "buffers" /\ at <= Len(editors) /\ Unsaved(editors[at])
               /\ buffers' = [buffers EXCEPT ![project][editors[at].file] = "blank"]
      <4>1. editors[at].file \in Names
        BY <3>2, AtNamed
      <4>2. QED
        BY <1>1, <3>2, <4>1, BufferTyped
    <3>3. QED
      BY <1>6, <3>1, <3>2 DEF Crash, diskVars
  <2>5. QED
    BY <2>1, <2>2, <2>3, <2>4, <1>1, IdleTyped, StopTyped DEF TypeInv, TypeOK
<1>7. QED
  BY <1>2, <1>3, <1>4, <1>5, <1>6

LEMMA TypeInvInit == Init => TypeInv
<1> SUFFICES ASSUME Init
             PROVE  TypeInv
  OBVIOUS
<1>1. <<>> \in Seq(Editors) /\ <<>> \in Seq(Names)
  BY EmptySeq
<1>2. editors \in Seq(Editors) /\ panels \in Seq(Names) /\ after \in Purposes
  BY <1>1, ContinueIsPurpose DEF Init
<1>3. /\ session \in [Projects -> {None, Torn} \cup Seq(Names)]
      /\ buffers \in [Projects -> [Names -> {None, "blank", "text"}]]
      /\ kept \in [Projects -> SUBSET Names] /\ shared \subseteq Names
  BY DEF Init, NoFiles
<1>4. running \in BOOLEAN /\ project \in Projects /\ step = "idle" /\ at = 1
  BY DEF Init
<1>5. QED
  BY <1>2, <1>3, <1>4 DEF TypeInv, TypeOK, NamedWhenSaved

LEMMA TypeInvNext == TypeInv /\ [Next]_vars => TypeInv'
<1> SUFFICES ASSUME TypeInv, [Next]_vars
             PROVE  TypeInv'
  OBVIOUS
<1>1. CASE \E p \in Projects : Start(p)
  BY <1>1, StartTyped
<1>2. CASE \/ NewEditor \/ (\E i \in DOMAIN editors : Edit(i) \/ SaveAs(i) \/ CloseEditor(i))
           \/ (\E purpose \in Purposes : SaveFor(purpose)) \/ (\E p \in Projects : DeleteSession(p))
  BY <1>2, UserTyped
<1>3. CASE WriteBuffer \/ SkipEditor \/ WriteSession \/ CleanupStaleBuffers
  BY <1>3, SavingTyped
<1>4. CASE Resume \/ SwitchToSession \/ CreateNewSession \/ MoveSessionTo \/ Crash
  BY <1>4, AfterTyped
<1>5. CASE UNCHANGED vars
  BY <1>5 DEF vars, saveVars, diskVars, historyVars, TypeInv, TypeOK, NamedWhenSaved
<1>6. QED
  BY <1>1, <1>2, <1>3, <1>4, <1>5 DEF Next

(* Every state is of the types of SessionStore: what session.toml names and *)
(* what a save writes are names of files, whichever way the session was      *)
(* loaded, copied or cut short (App::save_session, App::load_session).      *)
THEOREM TypeOKHolds == Spec => []TypeOK
<1>1. Init => TypeInv
  BY TypeInvInit
<1>2. TypeInv /\ [Next]_vars => TypeInv'
  BY TypeInvNext
<1>3. TypeInv => TypeOK
  BY DEF TypeInv
<1>4. QED
  BY <1>1, <1>2, <1>3, PTL DEF Spec

-----------------------------------------------------------------------------
(***************************************************************************)
(* Names.  But for the files that one save gave to several documents, no    *)
(* file has two documents, no session.toml names a file twice, and the      *)
(* files that the save under way has written are those of documents it has  *)
(* left behind.                                                              *)
(***************************************************************************)
PanelsOwn ==
  step = "buffers" =>
    /\ Injective(shared, panels)
    /\ \A k \in DOMAIN panels : \E i \in DOMAIN editors : i < at /\ editors[i].file = panels[k]

SessionsOwn == \A p \in Projects : Readable(p) => Injective(shared, session[p])

OwnInv == Distinct(shared, editors) /\ PanelsOwn /\ SessionsOwn

LEMMA EmptyOwn == \A S : Distinct(S, <<>>) /\ Injective(S, <<>>)
<1>1. DOMAIN <<>> = {}
  OBVIOUS
<1>2. QED
  BY <1>1 DEF Distinct, Injective

LEMMA IdleOwn ==
  ASSUME Idle
  PROVE  PanelsOwn'
BY DEF Idle, PanelsOwn

LEMMA SaveOwn ==
  ASSUME TypeOK, NEW eds \in Seq(Editors), NEW purpose, Save(eds, purpose),
         Distinct(shared, eds), Known(eds)
  PROVE  Distinct(shared', editors') /\ PanelsOwn'
<1>1. Distinct(shared', editors')
  BY SaveDistinct
<1>2. panels' = <<>>
  BY SaveEffect
<1>3. Injective(shared', panels') /\ DOMAIN panels' = {}
  BY <1>2, EmptyOwn
<1>4. QED
  BY <1>1, <1>3 DEF PanelsOwn

(* A save leaves sessions that were there: their names are not new. *)
LEMMA SaveSessions ==
  ASSUME TypeOK, SessionsOwn, NEW eds, NEW purpose, Save(eds, purpose),
         \A p \in Projects : session'[p] = None \/ \E q \in Projects : session'[p] = session[q]
  PROVE  SessionsOwn'
<1>1. ASSUME NEW p \in Projects, session'[p] \notin {None, Torn}
      PROVE  Injective(shared', session'[p])
  <2>1. PICK q \in Projects : session'[p] = session[q]
    BY <1>1
  <2>2. Readable(q)
    BY <1>1, <2>1 DEF Readable
  <2>3. Injective(shared, session[q])
    BY <2>2 DEF SessionsOwn
  <2>4. \A k \in DOMAIN session[q] : session[q][k] \notin Fresh
    BY <2>2 DEF Fresh, ToSet
  <2>5. shared \ Fresh \subseteq shared'
    BY SaveShares
  <2>6. Injective(shared', session[q])
    BY <2>3, <2>4, <2>5 DEF Injective
  <2>7. QED
    BY <2>1, <2>6
<1>2. QED
  BY <1>1 DEF SessionsOwn, Readable

(* Other documents than those that are there are of no file yet. *)
LEMMA AppendOwn ==
  ASSUME NEW eds \in Seq(Editors), NEW S, Distinct(S, eds)
  PROVE  /\ Append(eds, Untitled) \in Seq(Editors) /\ Distinct(S, Append(eds, Untitled))
         /\ eds = editors => Known(Append(eds, Untitled))
<1>1. Untitled \in Editors /\ Untitled.file = None
  BY DEF Untitled, Editors
<1>2. Len(eds) \in Nat /\ DOMAIN eds = 1..Len(eds)
  BY LenProperties
<1> DEFINE new == Append(eds, Untitled)
<1>3. /\ new \in Seq(Editors) /\ DOMAIN new = 1..Len(eds) + 1
      /\ \A i \in 1..Len(eds) : new[i] = eds[i]
      /\ new[Len(eds) + 1] = Untitled
  BY <1>1, <1>2
<1> HIDE DEF new
<1>4. ASSUME NEW i \in DOMAIN new
      PROVE  (i \in DOMAIN eds /\ new[i] = eds[i]) \/ new[i].file = None
  <2>1. CASE i \in 1..Len(eds)
    BY <1>2, <1>3, <2>1
  <2>2. CASE i = Len(eds) + 1
    BY <1>1, <1>3, <2>2
  <2>3. QED
    BY <1>2, <1>3, <2>1, <2>2
<1>5. Distinct(S, new)
  BY <1>4 DEF Distinct
<1>6. eds = editors => Known(new)
  BY <1>4 DEF Known
<1>7. QED
  BY <1>3, <1>5, <1>6 DEF new

LEMMA RemoveOwn ==
  ASSUME NEW eds \in Seq(Editors), NEW i \in DOMAIN eds, NEW S, Distinct(S, eds)
  PROVE  /\ RemoveAt(eds, i) \in Seq(Editors) /\ Distinct(S, RemoveAt(eds, i))
         /\ eds = editors => Known(RemoveAt(eds, i))
<1> DEFINE new == RemoveAt(eds, i)
<1>1. Len(eds) \in Nat /\ DOMAIN eds = 1..Len(eds) /\ i \in 1..Len(eds)
  BY LenProperties
<1>2. /\ new \in Seq(Editors) /\ Len(new) = Len(eds) - 1
      /\ \A k \in 1..Len(eds) - 1 : new[k] = IF k < i THEN eds[k] ELSE eds[k + 1]
  BY <1>1, RemoveAtProperty
<1>3. DOMAIN new = 1..Len(eds) - 1
  BY <1>1, <1>2
<1> HIDE DEF new
<1> DEFINE old(k) == IF k < i THEN k ELSE k + 1
<1>4. ASSUME NEW k \in DOMAIN new
      PROVE  old(k) \in DOMAIN eds /\ new[k] = eds[old(k)]
  <2>1. CASE k < i
    BY <1>1, <1>2, <1>3, <2>1
  <2>2. CASE ~(k < i)
    BY <1>1, <1>2, <1>3, <2>2
  <2>3. QED
    BY <2>1, <2>2
<1>5. ASSUME NEW j \in DOMAIN new, NEW k \in DOMAIN new, j # k
      PROVE  old(j) # old(k)
  BY <1>1, <1>3, <1>5
<1> HIDE DEF old
<1>6. Distinct(S, new)
  BY <1>4, <1>5 DEF Distinct
<1>7. eds = editors => Known(new)
  BY <1>4 DEF Known
<1>8. QED
  BY <1>2, <1>6, <1>7 DEF new

LEMMA InjectiveAppend ==
  ASSUME NEW s \in Seq(Names), NEW n \in Names, NEW S, Injective(S, s),
         n \in S \/ \A k \in DOMAIN s : s[k] # n
  PROVE  Injective(S, Append(s, n))
<1> DEFINE t == Append(s, n)
<1>1. /\ Len(s) \in Nat /\ DOMAIN s = 1..Len(s) /\ DOMAIN t = 1..Len(s) + 1
      /\ \A k \in 1..Len(s) : t[k] = s[k]
      /\ t[Len(s) + 1] = n
  BY LenProperties
<1> HIDE DEF t
<1>2. ASSUME NEW i \in DOMAIN t, NEW j \in DOMAIN t, t[i] = t[j]
      PROVE  i = j \/ t[i] \in S
  <2>1. CASE i \in 1..Len(s) /\ j \in 1..Len(s)
    BY <1>1, <1>2, <2>1 DEF Injective
  <2>2. CASE i = Len(s) + 1 /\ j \in 1..Len(s)
    BY <1>1, <1>2, <2>2
  <2>3. CASE i \in 1..Len(s) /\ j = Len(s) + 1
    BY <1>1, <1>2, <2>3
  <2>4. QED
    BY <1>1, <2>1, <2>2, <2>3
<1>3. QED
  BY <1>2 DEF Injective, t

LEMMA KnownSelf == Known(editors) /\ Known(<<>>)
BY DEF Known

LEMMA OwnStart ==
  ASSUME TypeInv, OwnInv, NEW p \in Projects, Start(p)
  PROVE  OwnInv'
<1>1. PICK gone \in SUBSET Projects : session' = [q \in Projects |-> IF q \in gone THEN None ELSE session[q]]
  <2>1. PICK old \in SUBSET {q \in Projects \ {p} : MayGo(q)} :
          session' = [q \in Projects |-> IF q \in Gone(old) THEN None ELSE session[q]]
    BY DEF Start
  <2>2. session' = [q \in Projects |-> IF q \in Projects \cap Gone(old) THEN None ELSE session[q]]
    BY <2>1
  <2>3. QED
    BY <2>2
<1>0. shared' = shared
  BY DEF Start
<1>2. SessionsOwn'
  BY <1>0, <1>1 DEF OwnInv, SessionsOwn, Readable
<1>3. Distinct(shared', editors')
  <2>1. CASE Readable(p)
    <3>1. LoadOf(p, editors')
      BY <2>1, LoadsProperty DEF Start, TypeInv
    <3>2. QED
      BY <1>0, <2>1, <3>1 DEF LoadOf, OwnInv, SessionsOwn
  <2>2. CASE ~Readable(p)
    BY <2>2, EmptyOwn DEF Start
  <2>3. QED
    BY <2>1, <2>2
<1>4. PanelsOwn'
  BY IdleOwn DEF Start
<1>5. QED
  BY <1>2, <1>3, <1>4 DEF OwnInv

LEMMA OwnUser ==
  ASSUME TypeInv, OwnInv,
         NewEditor \/ (\E i \in DOMAIN editors : Edit(i) \/ SaveAs(i) \/ CloseEditor(i))
         \/ (\E purpose \in Purposes : SaveFor(purpose)) \/ (\E p \in Projects : DeleteSession(p))
  PROVE  OwnInv'
<1>1. TypeOK /\ editors \in Seq(Editors) /\ Distinct(shared, editors) /\ SessionsOwn
  BY DEF TypeInv, TypeOK, OwnInv
<1>2. CASE NewEditor
  <2>1. Save(Append(editors, Untitled), Continue) /\ session' = session
    BY <1>2 DEF NewEditor, diskVars
  <2>2. Distinct(shared', editors') /\ PanelsOwn'
    BY <1>1, <2>1, AppendOwn, SaveOwn
  <2>3. SessionsOwn'
    BY <1>1, <2>1, SaveSessions
  <2>4. QED
    BY <2>2, <2>3 DEF OwnInv
<1>3. ASSUME NEW i \in DOMAIN editors, Edit(i)
      PROVE  OwnInv'
  <2>1. editors' = Edited(editors, i) /\ session' = session /\ step' = "idle" /\ shared' = shared
    BY <1>3 DEF Edit, Edited, MayAct, saveVars, diskVars
  <2>2. DOMAIN editors' = DOMAIN editors /\ \A j \in DOMAIN editors : editors'[j].file = editors[j].file
    BY <1>1, <2>1, EditEffect
  <2>3. Distinct(shared', editors')
    BY <1>1, <2>1, <2>2 DEF Distinct
  <2>4. QED
    BY <1>1, <2>1, <2>3 DEF OwnInv, SessionsOwn, Readable, PanelsOwn
<1>4. ASSUME NEW i \in DOMAIN editors, SaveAs(i)
      PROVE  OwnInv'
  <2>1. editors' = RemoveAt(editors, i) /\ session' = session /\ step' = "idle" /\ shared' = shared
    BY <1>4 DEF SaveAs, MayAct, saveVars, diskVars
  <2>2. Distinct(shared', editors')
    BY <1>1, <2>1, RemoveOwn
  <2>3. QED
    BY <1>1, <2>1, <2>2 DEF OwnInv, SessionsOwn, Readable, PanelsOwn
<1>5. ASSUME NEW i \in DOMAIN editors, CloseEditor(i)
      PROVE  OwnInv'
  <2>1. Save(RemoveAt(editors, i), Continue) /\ session' = session
    BY <1>5 DEF CloseEditor
  <2>2. Distinct(shared', editors') /\ PanelsOwn'
    BY <1>1, <2>1, RemoveOwn, SaveOwn
  <2>3. SessionsOwn'
    BY <1>1, <2>1, SaveSessions
  <2>4. QED
    BY <2>2, <2>3 DEF OwnInv
<1>6. ASSUME NEW purpose \in Purposes, SaveFor(purpose)
      PROVE  OwnInv'
  <2>1. Save(editors, purpose) /\ session' = session
    BY <1>6 DEF SaveFor, diskVars
  <2>2. Distinct(shared', editors') /\ PanelsOwn'
    BY <1>1, <2>1, KnownSelf, SaveOwn
  <2>3. SessionsOwn'
    BY <1>1, <2>1, SaveSessions
  <2>4. QED
    BY <2>2, <2>3 DEF OwnInv
<1>7. ASSUME NEW p \in Projects, DeleteSession(p)
      PROVE  OwnInv'
  <2>1. editors' = editors /\ step' = "idle" /\ shared' = shared
    BY <1>7 DEF DeleteSession, MayAct, saveVars
  <2>2. SessionsOwn'
    BY <1>1, <1>7, <2>1 DEF DeleteSession, SessionsOwn, Readable
  <2>3. QED
    BY <1>1, <2>1, <2>2 DEF OwnInv, PanelsOwn
<1>8. QED
  BY <1>2, <1>3, <1>4, <1>5, <1>6, <1>7

LEMMA OwnSaving ==
  ASSUME TypeInv, OwnInv, WriteBuffer \/ SkipEditor \/ WriteSession \/ CleanupStaleBuffers
  PROVE  OwnInv'
<1>1. /\ TypeOK /\ editors \in Seq(Editors) /\ Distinct(shared, editors) /\ SessionsOwn /\ PanelsOwn
      /\ at \in Nat /\ DOMAIN editors \subseteq Nat /\ panels \in Seq(Names) /\ project \in Projects
  BY LenProperties DEF TypeInv, TypeOK, OwnInv
<1>2. CASE WriteBuffer
  <2> DEFINE n == editors[at].file
  <2>1. at \in DOMAIN editors /\ n \in Names
    BY <1>2, AtNamed DEF WriteBuffer
  <2>2. /\ step = "buffers" /\ step' = "buffers" /\ editors' = editors /\ at' = at + 1 /\ session' = session
        /\ shared' = shared
        /\ (panels' = panels \/ panels' = Append(panels, n))
    BY <1>2 DEF WriteBuffer
  <2> HIDE DEF n
  <2>3. /\ Injective(shared, panels)
        /\ \A k \in DOMAIN panels : \E i \in DOMAIN editors : i < at /\ editors[i].file = panels[k]
    BY <1>1, <2>2 DEF PanelsOwn
  <2>4. n \in shared \/ \A k \in DOMAIN panels : panels[k] # n
    <3>1. ASSUME NEW i \in DOMAIN editors, i < at, n \notin shared
          PROVE  editors[i].file # n
      <4>1. i # at
        BY <1>1, <3>1
      <4>2. QED
        BY <1>1, <2>1, <3>1, <4>1, NoneIsNoName DEF Distinct, n
    <3>2. QED
      BY <2>3, <3>1
  <2>5. Injective(shared, panels')
    BY <1>1, <2>1, <2>2, <2>3, <2>4, InjectiveAppend
  <2>6. ASSUME NEW k \in DOMAIN panels'
        PROVE  \E i \in DOMAIN editors : i < at + 1 /\ editors[i].file = panels'[k]
    <3>1. CASE k \in DOMAIN panels /\ panels'[k] = panels[k]
      <4>1. PICK i \in DOMAIN editors : i < at /\ editors[i].file = panels[k]
        BY <2>3, <3>1
      <4>2. i < at + 1
        BY <1>1, <4>1
      <4>3. QED
        BY <3>1, <4>1, <4>2
    <3>2. CASE panels'[k] = n
      <4>1. at < at + 1
        BY <1>1
      <4>2. QED
        BY <2>1, <3>2, <4>1 DEF n
    <3>3. (k \in DOMAIN panels /\ panels'[k] = panels[k]) \/ panels'[k] = n
      <4>1. CASE panels' = panels
        BY <2>6, <4>1
      <4>2. CASE panels' = Append(panels, n)
        <5>1. DOMAIN panels = 1..Len(panels) /\ Len(panels) \in Nat
          BY <1>1, LenProperties
        <5>2. DOMAIN panels' = 1..Len(panels) + 1
          BY <1>1, <2>1, <4>2
        <5>3. CASE k \in 1..Len(panels)
          BY <1>1, <4>2, <5>1, <5>3
        <5>4. CASE k = Len(panels) + 1
          BY <1>1, <4>2, <5>1, <5>4
        <5>5. QED
          BY <2>6, <5>1, <5>2, <5>3, <5>4
      <4>3. QED
        BY <2>2, <4>1, <4>2
    <3>4. QED
      BY <3>1, <3>2, <3>3
  <2>7. PanelsOwn'
    BY <2>2, <2>5, <2>6 DEF PanelsOwn
  <2>8. QED
    BY <1>1, <2>2, <2>7 DEF OwnInv, SessionsOwn, Readable
<1>3. CASE SkipEditor
  <2>1. /\ editors' = editors /\ session' = session /\ panels' = panels /\ step' = step /\ at' = at + 1
        /\ shared' = shared
    BY <1>3 DEF SkipEditor, diskVars, historyVars
  <2>2. \A i \in DOMAIN editors : i < at => i < at + 1
    BY <1>1
  <2>3. PanelsOwn'
    BY <1>1, <2>1, <2>2 DEF PanelsOwn
  <2>4. QED
    BY <1>1, <2>1, <2>3 DEF OwnInv, SessionsOwn, Readable
<1>4. CASE WriteSession
  <2>1. editors' = editors /\ step' # "buffers" /\ Injective(shared, panels) /\ shared' = shared
    BY <1>1, <1>4 DEF WriteSession, PanelsOwn
  <2>2. \/ session' = session \/ session' = [session EXCEPT ![project] = panels]
        \/ session' = [session EXCEPT ![project] = Torn]
    BY <1>4 DEF WriteSession
  <2>3. SessionsOwn'
    BY <1>1, <2>1, <2>2 DEF SessionsOwn, Readable, TypeOK
  <2>4. QED
    BY <1>1, <2>1, <2>3 DEF OwnInv, PanelsOwn
<1>5. CASE CleanupStaleBuffers
  BY <1>1, <1>5 DEF CleanupStaleBuffers, OwnInv, SessionsOwn, Readable, PanelsOwn, historyVars
<1>6. QED
  BY <1>2, <1>3, <1>4, <1>5

LEMMA OwnAfter ==
  ASSUME TypeInv, OwnInv,
         Resume \/ SwitchToSession \/ CreateNewSession \/ MoveSessionTo \/ Crash
  PROVE  OwnInv'
<1>1. /\ TypeOK /\ editors \in Seq(Editors) /\ Distinct(shared, editors) /\ SessionsOwn
      /\ project \in Projects /\ after \in Purposes
  BY DEF TypeInv, TypeOK, OwnInv
<1>2. CASE Resume
  <2>1. session' = session /\ shared' = shared /\ Idle /\ (editors' = editors \/ editors' = <<>>)
    BY <1>2, StopTyped DEF Resume, diskVars, historyVars
  <2>2. QED
    BY <1>1, <2>1, EmptyOwn, IdleOwn DEF OwnInv, SessionsOwn, Readable
<1>3. CASE SwitchToSession
  <2>1. project' \in Projects /\ session' = session /\ shared' = shared
    BY <1>1, <1>3, PurposeProject DEF SwitchToSession, historyVars
  <2>2. CASE Readable(project') /\ editors' \in Loads(project') /\ Idle
    <3>1. LoadOf(project', editors')
      BY <1>1, <2>1, <2>2, LoadsProperty
    <3>2. Distinct(shared', editors')
      BY <1>1, <2>1, <2>2, <3>1 DEF LoadOf, SessionsOwn
    <3>3. QED
      BY <1>1, <2>1, <2>2, <3>2, IdleOwn DEF OwnInv, SessionsOwn, Readable
  <2>3. CASE Stop
    BY <1>1, <2>1, <2>3, StopTyped, EmptyOwn, IdleOwn DEF OwnInv, SessionsOwn, Readable
  <2>4. QED
    BY <1>3, <2>2, <2>3 DEF SwitchToSession
<1>4. CASE CreateNewSession
  <2>1. session' = [session EXCEPT ![project'] = None]
    BY <1>4 DEF CreateNewSession
  <2>2. \A p \in Projects : session'[p] = None \/ session'[p] = session[p]
    BY <1>1, <2>1 DEF TypeOK
  <2>3. CASE Save(<<>>, Continue)
    <3>1. <<>> \in Seq(Editors)
      BY EmptySeq
    <3>2. Distinct(shared', editors') /\ PanelsOwn'
      BY <1>1, <2>3, <3>1, EmptyOwn, KnownSelf, SaveOwn
    <3>3. SessionsOwn'
      BY <1>1, <2>2, <2>3, SaveSessions
    <3>4. QED
      BY <3>2, <3>3 DEF OwnInv
  <2>4. CASE Stop /\ UNCHANGED shared
    <3>1. SessionsOwn'
      BY <1>1, <2>2, <2>4 DEF SessionsOwn, Readable
    <3>2. QED
      BY <2>4, <3>1, StopTyped, EmptyOwn, IdleOwn DEF OwnInv
  <2>5. QED
    BY <1>4, <2>3, <2>4 DEF CreateNewSession
<1>5. CASE MoveSessionTo
  <2>1. PICK s \in {session[project], session[project']} :
          session' = [q \in Projects |-> IF q \in {project} \cup NestedIn(project) THEN None
                                         ELSE IF q = project' THEN s ELSE session[q]]
    BY <1>5 DEF MoveSessionTo
  <2>2. project' \in Projects
    BY <1>1, <1>5, PurposeProject DEF MoveSessionTo
  <2>3. \A q \in Projects : session'[q] = None \/ \E x \in Projects : session'[q] = session[x]
    BY <1>1, <2>1, <2>2
  <2>4. CASE Save(editors, Continue)
    <3>1. Distinct(shared', editors') /\ PanelsOwn'
      BY <1>1, <2>4, KnownSelf, SaveOwn
    <3>2. SessionsOwn'
      BY <1>1, <2>3, <2>4, SaveSessions
    <3>3. QED
      BY <3>1, <3>2 DEF OwnInv
  <2>5. CASE Stop /\ UNCHANGED shared
    <3>1. SessionsOwn'
      BY <1>1, <2>3, <2>5 DEF SessionsOwn, Readable
    <3>2. QED
      BY <2>5, <3>1, StopTyped, EmptyOwn, IdleOwn DEF OwnInv
  <2>6. QED
    BY <1>5, <2>4, <2>5 DEF MoveSessionTo
<1>6. CASE Crash
  <2>1. Stop /\ shared' = shared /\ (session' = session \/ session' = [session EXCEPT ![project] = Torn])
    BY <1>6 DEF Crash, diskVars
  <2>2. SessionsOwn'
    BY <1>1, <2>1 DEF SessionsOwn, Readable, TypeOK
  <2>3. QED
    BY <2>1, <2>2, StopTyped, EmptyOwn, IdleOwn DEF OwnInv
<1>7. QED
  BY <1>2, <1>3, <1>4, <1>5, <1>6

LEMMA OwnNext ==
  ASSUME TypeInv, OwnInv, [Next]_vars
  PROVE  OwnInv'
<1>1. CASE \E p \in Projects : Start(p)
  BY <1>1, OwnStart
<1>2. CASE \/ NewEditor \/ (\E i \in DOMAIN editors : Edit(i) \/ SaveAs(i) \/ CloseEditor(i))
           \/ (\E purpose \in Purposes : SaveFor(purpose)) \/ (\E p \in Projects : DeleteSession(p))
  BY <1>2, OwnUser
<1>3. CASE WriteBuffer \/ SkipEditor \/ WriteSession \/ CleanupStaleBuffers
  BY <1>3, OwnSaving
<1>4. CASE Resume \/ SwitchToSession \/ CreateNewSession \/ MoveSessionTo \/ Crash
  BY <1>4, OwnAfter
<1>5. CASE UNCHANGED vars
  BY <1>5 DEF vars, saveVars, diskVars, historyVars, OwnInv, PanelsOwn, SessionsOwn, Readable
<1>6. QED
  BY <1>1, <1>2, <1>3, <1>4, <1>5 DEF Next

LEMMA OwnInit == Init => OwnInv
<1> SUFFICES ASSUME Init
             PROVE  OwnInv
  OBVIOUS
<1>1. Distinct(shared, editors)
  BY EmptyOwn DEF Init
<1>2. PanelsOwn /\ SessionsOwn
  BY DEF Init, PanelsOwn, SessionsOwn, Readable
<1>3. QED
  BY <1>1, <1>2 DEF OwnInv

(* The only documents that share the file of their unsaved text are those    *)
(* that one save named together (save_session names them in one loop, by the *)
(* time in milliseconds): a file of one document is never opened twice,      *)
(* however the session was saved, cut short, loaded, cleaned up or moved     *)
(* (App::load_session, restore_orphaned_buffers, move_session_to), and a     *)
(* name made later is never one in use.                                      *)
THEOREM OwnFileHolds == Spec => []OwnFile
<1>1. Init => TypeInv /\ OwnInv
  BY TypeInvInit, OwnInit
<1>2. TypeInv /\ OwnInv /\ [Next]_vars => TypeInv' /\ OwnInv'
  BY TypeInvNext, OwnNext
<1>3. OwnInv => OwnFile
  BY DEF OwnInv, Distinct, OwnFile
<1>4. QED
  BY <1>1, <1>2, <1>3, PTL DEF Spec

-----------------------------------------------------------------------------
(***************************************************************************)
(* What is kept.  That the files are on disk is not inductive: a save       *)
(* removes those it has not written, so that each must be in an editor, and *)
(* each editor the save has passed must be in what it writes, unless its    *)
(* file is one that another document may still spoil; and the               *)
(* sessions without unsaved text go with age, so that a file that is kept    *)
(* must have a session.  A directory removed with sessions inside it takes  *)
(* their files along: that is excluded.                                     *)
(***************************************************************************)
Holds(eds, n) == \E i \in DOMAIN eds : eds[i].file = n /\ Unsaved(eds[i])

OnDisk == \A p \in Projects : \A n \in kept[p] : buffers[p][n] = "text" /\ session[p] # None
InEditors == running => \A n \in kept[project] : Holds(editors, n)
InPanels ==
  step = "buffers" =>
    /\ \A i \in DOMAIN editors : i < at /\ Unsaved(editors[i]) /\ editors[i].file \in kept[project]
                                   => editors[i].file \in ToSet(panels)
    /\ \A n \in ToSet(panels) \ shared : buffers[project][n] = "text" /\ Holds(editors, n)
Spared == step = "clean" => kept[project] \subseteq ToSet(panels)
Purposeful ==
  /\ step # "idle" => running
  /\ after.kind = "move" => after.project # project /\ project \in Removable

KeptInv == OnDisk /\ InEditors /\ InPanels /\ Spared /\ Purposeful

NothingInside == \A p \in Removable : NestedIn(p) = {}

LEMMA NamedHolds ==
  ASSUME NEW eds \in Seq(Editors), NEW new, Named(eds, new), NEW n \in Names, Holds(eds, n)
  PROVE  Holds(new, n)
<1>1. PICK i \in DOMAIN eds : eds[i].file = n /\ Unsaved(eds[i])
  BY DEF Holds
<1>2. DOMAIN eds = 1..Len(eds) /\ DOMAIN new = 1..Len(eds)
  BY LenProperties DEF Named
<1>3. new[i] = eds[i]
  BY <1>1, <1>2, NoneIsNoName DEF Named
<1>4. QED
  BY <1>1, <1>2, <1>3 DEF Holds

LEMMA AppendHolds ==
  ASSUME NEW eds \in Seq(Editors), NEW n, Holds(eds, n)
  PROVE  Holds(Append(eds, Untitled), n)
<1>1. PICK i \in DOMAIN eds : eds[i].file = n /\ Unsaved(eds[i])
  BY DEF Holds
<1>2. i \in DOMAIN Append(eds, Untitled) /\ Append(eds, Untitled)[i] = eds[i]
  BY LenProperties
<1>3. QED
  BY <1>1, <1>2 DEF Holds

LEMMA RemoveHolds ==
  ASSUME NEW eds \in Seq(Editors), NEW i \in DOMAIN eds, NEW n, Holds(eds, n), eds[i].file # n
  PROVE  Holds(RemoveAt(eds, i), n)
<1> DEFINE new == RemoveAt(eds, i)
<1>1. Len(eds) \in Nat /\ DOMAIN eds = 1..Len(eds) /\ i \in 1..Len(eds)
  BY LenProperties
<1>2. /\ new \in Seq(Editors) /\ Len(new) = Len(eds) - 1
      /\ \A k \in 1..Len(eds) - 1 : new[k] = IF k < i THEN eds[k] ELSE eds[k + 1]
  BY <1>1, RemoveAtProperty
<1>3. DOMAIN new = 1..Len(eds) - 1
  BY <1>1, <1>2
<1> HIDE DEF new
<1>4. PICK j \in 1..Len(eds) : eds[j].file = n /\ Unsaved(eds[j])
  BY <1>1 DEF Holds
<1>5. CASE j < i
  <2>1. j \in DOMAIN new /\ new[j] = eds[j]
    BY <1>1, <1>2, <1>3, <1>5
  <2>2. QED
    BY <1>4, <2>1 DEF Holds, new
<1>6. CASE j > i
  <2>1. j - 1 \in 1..Len(eds) - 1 /\ ~(j - 1 < i) /\ j - 1 + 1 = j
    BY <1>1, <1>6
  <2>2. j - 1 \in DOMAIN new /\ new[j - 1] = eds[j]
    BY <1>2, <1>3, <2>1
  <2>3. QED
    BY <1>4, <2>2 DEF Holds, new
<1>7. j # i
  BY <1>4
<1>8. QED
  BY <1>1, <1>5, <1>6, <1>7

LEMMA EditHolds ==
  ASSUME NEW eds \in Seq(Editors), NEW i \in DOMAIN eds, NEW n, Holds(eds, n),
         eds[i].blank \/ eds[i].file # n
  PROVE  Holds(Edited(eds, i), n)
<1>1. PICK j \in DOMAIN eds : eds[j].file = n /\ Unsaved(eds[j])
  BY DEF Holds
<1>2. j # i
  BY <1>1 DEF Unsaved
<1>3. Edited(eds, i)[j] = eds[j] /\ DOMAIN Edited(eds, i) = DOMAIN eds
  BY <1>2, EditEffect
<1>4. QED
  BY <1>1, <1>3 DEF Holds

LEMMA LoadHolds ==
  ASSUME NEW p, NEW eds, LoadOf(p, eds), NEW n \in Saved(p)
  PROVE  Holds(eds, n)
<1>1. PICK i \in DOMAIN eds : eds[i] = Restored(n)
  BY DEF LoadOf
<1>2. Restored(n).file = n /\ Unsaved(Restored(n))
  BY DEF Restored, Unsaved
<1>3. QED
  BY <1>1, <1>2 DEF Holds

(* A save begins, or there is none. *)
LEMMA SaveKept ==
  ASSUME TypeOK, NEW eds \in Seq(Editors), NEW purpose, Save(eds, purpose), running',
         \A n \in kept'[project'] : n \in Names /\ Holds(eds, n),
         purpose.kind = "move" => purpose.project # project' /\ project' \in Removable
  PROVE  InEditors' /\ InPanels' /\ Spared' /\ Purposeful'
<1>1. Named(eds, editors') /\ step' = "buffers" /\ at' = 1 /\ panels' = <<>> /\ after' = purpose
  BY SaveEffect
<1>2. InEditors'
  BY <1>1, NamedHolds DEF InEditors
<1>3. InPanels'
  <2>1. DOMAIN editors' = 1..Len(editors') /\ ToSet(panels') = {}
    BY <1>1, LenProperties DEF Named, ToSet
  <2>2. \A i \in DOMAIN editors' : ~(i < at')
    BY <1>1, <2>1
  <2>3. QED
    BY <2>1, <2>2 DEF InPanels
<1>4. Spared' /\ Purposeful'
  BY <1>1 DEF Spared, Purposeful
<1>5. QED
  BY <1>2, <1>3, <1>4

LEMMA IdleKept ==
  ASSUME Idle
  PROVE  InPanels' /\ Spared' /\ Purposeful'
BY ContinueIsPurpose DEF Idle, InPanels, Spared, Purposeful

LEMMA StopKept ==
  ASSUME Stop
  PROVE  InEditors' /\ InPanels' /\ Spared' /\ Purposeful'
BY IdleKept, StopTyped DEF InEditors

LEMMA KeptSaved ==
  ASSUME TypeOK, OnDisk, NEW p \in Projects, NEW n \in kept[p]
  PROVE  n \in Names /\ n \in Saved(p) /\ buffers[p][n] = "text" /\ session[p] # None
BY DEF TypeOK, OnDisk, Saved

LEMMA KeptStart ==
  ASSUME TypeInv, KeptInv, NEW p \in Projects, Start(p)
  PROVE  KeptInv'
<1>1. PICK old \in SUBSET {q \in Projects \ {p} : MayGo(q)} :
        /\ session' = [q \in Projects |-> IF q \in Gone(old) THEN None ELSE session[q]]
        /\ buffers' = [q \in Projects |-> IF q \in Gone(old) THEN NoFiles
                                          ELSE IF q = p /\ Readable(p) THEN Swept(p)
                                          ELSE buffers[q]]
  BY DEF Start
<1>2. TypeOK /\ OnDisk /\ kept \in [Projects -> SUBSET Names]
  BY DEF TypeInv, TypeOK, KeptInv
<1>3. ASSUME NEW q \in Projects, NEW n \in kept[q]
      PROVE  q \notin Gone(old)
  <2>1. n \in Saved(q) /\ session[q] # None
    BY <1>2, KeptSaved
  <2>2. q \notin old
    BY <1>1, <2>1 DEF MayGo
  <2>3. QED
    BY <2>1, <2>2 DEF Gone
<1>4. \A q \in Projects : kept'[q] \subseteq kept[q]
  BY <1>2 DEF Start
<1>5. ASSUME NEW q \in Projects, NEW n \in kept[q]
      PROVE  buffers'[q][n] = "text" /\ session'[q] # None
  <2>1. n \in Names /\ n \in Saved(q) /\ buffers[q][n] = "text" /\ session[q] # None
    BY <1>2, KeptSaved
  <2>2. q \notin Gone(old)
    BY <1>3
  <2>3. Swept(q)[n] = "text"
    BY <2>1 DEF Swept
  <2>4. QED
    BY <1>1, <2>1, <2>2, <2>3
<1>6. OnDisk'
  BY <1>4, <1>5 DEF OnDisk
<1>7. InEditors'
  <2>1. CASE Readable(p)
    <3>1. LoadOf(p, editors') /\ project' = p /\ kept' = kept
      BY <1>2, <2>1, LoadsProperty DEF Start
    <3>2. \A n \in kept[p] : n \in Saved(p)
      BY <1>2, KeptSaved
    <3>3. QED
      BY <3>1, <3>2, LoadHolds DEF InEditors
  <2>2. CASE ~Readable(p)
    <3>1. project' = p /\ kept'[p] = {}
      BY <1>2, <2>2 DEF Start
    <3>2. QED
      BY <3>1 DEF InEditors
  <2>3. QED
    BY <2>1, <2>2
<1>8. InPanels' /\ Spared' /\ Purposeful'
  BY IdleKept DEF Start
<1>9. QED
  BY <1>6, <1>7, <1>8 DEF KeptInv

(* A document's file is given up, and kept no longer. *)
LEMMA ForgetKept ==
  ASSUME TypeOK, NEW n, Forget(n)
  PROVE  /\ kept'[project] = kept[project] \ {n}
         /\ \A q \in Projects : kept'[q] \subseteq kept[q]
BY DEF TypeOK, Forget

LEMMA KeptUser ==
  ASSUME TypeInv, KeptInv, NothingInside,
         NewEditor \/ (\E i \in DOMAIN editors : Edit(i) \/ SaveAs(i) \/ CloseEditor(i))
         \/ (\E purpose \in Purposes : SaveFor(purpose)) \/ (\E p \in Projects : DeleteSession(p))
  PROVE  KeptInv'
<1>1. /\ TypeOK /\ editors \in Seq(Editors) /\ OnDisk /\ project \in Projects
      /\ kept \in [Projects -> SUBSET Names]
  BY DEF TypeInv, TypeOK, KeptInv
<1>2. ASSUME running, NEW n \in kept[project]
      PROVE  n \in Names /\ Holds(editors, n)
  BY <1>1, <1>2 DEF KeptInv, InEditors
<1>3. CASE NewEditor
  <2>1. /\ Save(Append(editors, Untitled), Continue) /\ running' = running /\ running
        /\ project' = project /\ kept' = kept /\ session' = session /\ buffers' = buffers
    BY <1>3 DEF NewEditor, MayAct, diskVars
  <2>2. Append(editors, Untitled) \in Seq(Editors)
    BY <1>1 DEF Untitled, Editors
  <2>3. \A n \in kept'[project'] : n \in Names /\ Holds(Append(editors, Untitled), n)
    BY <1>1, <1>2, <2>1, AppendHolds
  <2>4. InEditors' /\ InPanels' /\ Spared' /\ Purposeful'
    BY <1>1, <2>1, <2>2, <2>3, SaveKept, ContinueIsPurpose
  <2>5. QED
    BY <1>1, <2>1, <2>4 DEF KeptInv, OnDisk
<1>4. ASSUME NEW i \in DOMAIN editors, Edit(i)
      PROVE  KeptInv'
  <2>1. /\ editors' = Edited(editors, i) /\ session' = session /\ buffers' = buffers
        /\ running /\ running' = running /\ project' = project /\ step' = "idle" /\ step = "idle"
        /\ after' = after
    BY <1>4 DEF Edit, Edited, MayAct, saveVars, diskVars
  <2>2. /\ \A q \in Projects : kept'[q] \subseteq kept[q]
        /\ \A n \in kept'[project] : n \in kept[project] /\ (editors[i].blank \/ editors[i].file # n)
    <3>1. CASE editors[i].blank
      BY <1>4, <3>1 DEF Edit
    <3>2. CASE ~editors[i].blank
      BY <1>1, <1>4, <3>2, ForgetKept DEF Edit
    <3>3. QED
      BY <3>1, <3>2
  <2>3. OnDisk'
    BY <1>1, <2>1, <2>2 DEF OnDisk
  <2>4. InEditors'
    BY <1>1, <1>2, <2>1, <2>2, EditHolds DEF InEditors
  <2>5. QED
    BY <2>1, <2>3, <2>4 DEF KeptInv, InPanels, Spared, Purposeful
<1>5. ASSUME NEW i \in DOMAIN editors, SaveAs(i)
      PROVE  KeptInv'
  <2>1. /\ editors' = RemoveAt(editors, i) /\ session' = session /\ buffers' = buffers
        /\ running /\ running' = running /\ project' = project /\ step' = "idle" /\ step = "idle"
        /\ after' = after /\ Forget(editors[i].file)
    BY <1>5 DEF SaveAs, MayAct, saveVars, diskVars
  <2>2. OnDisk'
    BY <1>1, <2>1, ForgetKept DEF OnDisk
  <2>3. InEditors'
    BY <1>1, <1>2, <2>1, ForgetKept, RemoveHolds DEF InEditors
  <2>4. QED
    BY <2>1, <2>2, <2>3 DEF KeptInv, InPanels, Spared, Purposeful
<1>6. ASSUME NEW i \in DOMAIN editors, CloseEditor(i)
      PROVE  KeptInv'
  <2> DEFINE f == editors[i].file
  <2>1. /\ Save(RemoveAt(editors, i), Continue) /\ session' = session /\ Forget(f)
        /\ running /\ running' = running /\ project' = project
        /\ buffers' = IF f = None THEN buffers ELSE [buffers EXCEPT ![project][f] = None]
    BY <1>6 DEF CloseEditor, MayAct
  <2>2. /\ kept'[project] = kept[project] \ {f}
        /\ \A q \in Projects : kept'[q] \subseteq kept[q]
    BY <1>1, <2>1, ForgetKept
  <2>3. OnDisk'
    <3>1. ASSUME NEW q \in Projects, NEW n \in kept'[q]
          PROVE  buffers'[q][n] = "text" /\ session'[q] # None
      <4>1. buffers[q][n] = "text" /\ session[q] # None /\ n \in Names
        BY <1>1, <2>2, KeptSaved
      <4>2. CASE f = None
        BY <2>1, <4>1, <4>2
      <4>3. CASE f # None
        <5>1. f \in Names
          BY <1>1, <4>3, ElementOfSeq, LenProperties, EditorFields
        <5>2. q # project \/ n # f
          BY <2>2
        <5>3. buffers'[q][n] = buffers[q][n]
          BY <1>1, <2>1, <4>1, <4>3, <5>1, <5>2, BufferTyped
        <5>4. QED
          BY <2>1, <4>1, <5>3
      <4>4. QED
        BY <4>2, <4>3
    <3>2. QED
      BY <3>1 DEF OnDisk
  <2>4. RemoveAt(editors, i) \in Seq(Editors)
    BY <1>1, RemoveAtProperty, LenProperties
  <2>5. \A n \in kept'[project'] : n \in Names /\ Holds(RemoveAt(editors, i), n)
    BY <1>1, <1>2, <2>1, <2>2, RemoveHolds
  <2>6. InEditors' /\ InPanels' /\ Spared' /\ Purposeful'
    BY <1>1, <2>1, <2>4, <2>5, SaveKept, ContinueIsPurpose
  <2>7. QED
    BY <2>3, <2>6 DEF KeptInv
<1>7. ASSUME NEW purpose \in Purposes, SaveFor(purpose)
      PROVE  KeptInv'
  <2>1. /\ Save(editors, purpose) /\ running /\ running' = running
        /\ project' = project /\ kept' = kept /\ session' = session /\ buffers' = buffers
        /\ purpose.kind = "move" => purpose.project # project /\ project \in Removable
    BY <1>7 DEF SaveFor, MayAct, diskVars
  <2>2. InEditors' /\ InPanels' /\ Spared' /\ Purposeful'
    BY <1>1, <1>2, <2>1, SaveKept
  <2>3. QED
    BY <1>1, <2>1, <2>2 DEF KeptInv, OnDisk
<1>8. ASSUME NEW p \in Projects, DeleteSession(p)
      PROVE  KeptInv'
  <2>1. /\ p # project /\ NestedIn(p) = {} /\ running /\ running' = running /\ step = "idle" /\ step' = "idle"
        /\ project' = project /\ editors' = editors /\ after' = after /\ kept' = [kept EXCEPT ![p] = {}]
    BY <1>8 DEF DeleteSession, MayAct, saveVars, NothingInside
  <2>2. /\ session' = [q \in Projects |-> IF q = p THEN None ELSE session[q]]
        /\ buffers' = [q \in Projects |-> IF q = p THEN NoFiles ELSE buffers[q]]
    BY <1>8, <2>1 DEF DeleteSession
  <2>3. OnDisk'
    BY <1>1, <2>1, <2>2 DEF OnDisk
  <2>4. InEditors'
    BY <1>1, <1>2, <2>1 DEF InEditors
  <2>5. QED
    BY <2>1, <2>3, <2>4 DEF KeptInv, InPanels, Spared, Purposeful
<1>9. QED
  BY <1>3, <1>4, <1>5, <1>6, <1>7, <1>8

LEMMA ToSetAppend ==
  ASSUME NEW s \in Seq(Names), NEW n \in Names
  PROVE  ToSet(Append(s, n)) = ToSet(s) \cup {n} /\ ToSet(s) \subseteq Names
<1> DEFINE t == Append(s, n)
<1>1. /\ Len(s) \in Nat /\ DOMAIN s = 1..Len(s) /\ DOMAIN t = 1..Len(s) + 1
      /\ \A k \in 1..Len(s) : t[k] = s[k] /\ s[k] \in Names
      /\ t[Len(s) + 1] = n
  BY LenProperties, ElementOfSeq
<1> HIDE DEF t
<1>2. ASSUME NEW x \in ToSet(t)
      PROVE  x \in ToSet(s) \cup {n}
  <2>1. PICK k \in 1..Len(s) + 1 : t[k] = x
    BY <1>1 DEF ToSet
  <2>2. CASE k \in 1..Len(s)
    BY <1>1, <2>1, <2>2 DEF ToSet
  <2>3. CASE k = Len(s) + 1
    BY <1>1, <2>1, <2>3
  <2>4. QED
    BY <1>1, <2>1, <2>2, <2>3
<1>3. ASSUME NEW x \in ToSet(s)
      PROVE  x \in ToSet(t) /\ x \in Names
  <2>1. PICK k \in 1..Len(s) : s[k] = x
    BY <1>1 DEF ToSet
  <2>2. k \in DOMAIN t /\ t[k] = x
    BY <1>1, <2>1
  <2>3. QED
    BY <1>1, <2>1, <2>2 DEF ToSet
<1>4. n \in ToSet(t)
  <2>1. Len(s) + 1 \in DOMAIN t
    BY <1>1
  <2>2. QED
    BY <1>1, <2>1 DEF ToSet
<1>5. QED
  BY <1>2, <1>3, <1>4 DEF t

LEMMA KeptWriteBuffer ==
  ASSUME TypeInv, OwnInv, KeptInv, WriteBuffer
  PROVE  KeptInv'
<1> DEFINE n == editors[at].file
<1>1. /\ TypeOK /\ editors \in Seq(Editors) /\ OnDisk /\ project \in Projects /\ panels \in Seq(Names)
      /\ kept \in [Projects -> SUBSET Names] /\ at \in Nat /\ DOMAIN editors \subseteq Nat
  BY LenProperties DEF TypeInv, TypeOK, KeptInv
<1>2. at \in DOMAIN editors /\ n \in Names /\ Unsaved(editors[at])
  BY AtNamed DEF WriteBuffer
<1>3. Holds(editors, n)
  BY <1>2 DEF Holds
<1>4. /\ step = "buffers" /\ step' = "buffers" /\ editors' = editors /\ at' = at + 1
      /\ running' = running /\ project' = project /\ after' = after /\ session' = session
      /\ shared' = shared
  BY DEF WriteBuffer
<1>5. \/ /\ buffers' = [buffers EXCEPT ![project][n] = "text"]
         /\ panels' = Append(panels, n)
         /\ kept' = IF Readable(project) /\ n \notin shared THEN [kept EXCEPT ![project] = @ \cup {n}] ELSE kept
      \/ /\ buffers' = buffers \/ buffers' = [buffers EXCEPT ![project][n] = "blank"]
         /\ kept' = [kept EXCEPT ![project] = @ \ {n}]
         /\ panels' = panels
  BY DEF WriteBuffer
<1>6. /\ running /\ \A m \in kept[project] : Holds(editors, m)
      /\ \A i \in DOMAIN editors : i < at /\ Unsaved(editors[i]) /\ editors[i].file \in kept[project]
                                     => editors[i].file \in ToSet(panels)
      /\ \A m \in ToSet(panels) \ shared : buffers[project][m] = "text" /\ Holds(editors, m)
  BY <1>4 DEF KeptInv, InEditors, InPanels, Purposeful
<1>7. n \in shared \/ n \notin ToSet(panels)
  <2>1. ASSUME NEW k \in DOMAIN panels, panels[k] = n, n \notin shared
        PROVE  FALSE
    <3>1. PICK i \in DOMAIN editors : i < at /\ editors[i].file = panels[k]
      BY <1>4 DEF OwnInv, PanelsOwn
    <3>2. i # at
      BY <1>1, <3>1
    <3>3. QED
      BY <1>2, <2>1, <3>1, <3>2, NoneIsNoName DEF OwnInv, Distinct
  <2>2. QED
    BY <2>1 DEF ToSet
<1>8. Spared' /\ Purposeful'
  BY <1>4, <1>6 DEF Spared, Purposeful, KeptInv
<1> HIDE DEF n
<1>9. ASSUME NEW i \in DOMAIN editors, i < at + 1
      PROVE  i < at \/ i = at
  BY <1>1, <1>9
<1>10. CASE /\ buffers' = [buffers EXCEPT ![project][n] = "text"]
            /\ panels' = Append(panels, n)
            /\ kept' = IF Readable(project) /\ n \notin shared THEN [kept EXCEPT ![project] = @ \cup {n}] ELSE kept
  <2>1. ToSet(panels') = ToSet(panels) \cup {n} /\ ToSet(panels) \subseteq Names
    BY <1>1, <1>2, <1>10, ToSetAppend
  <2>2. /\ \A q \in Projects : \A m \in kept'[q] : m \in kept[q] \/ (q = project /\ m = n /\ Readable(q))
        /\ kept'[project] \subseteq kept[project] \cup {n}
    BY <1>1, <1>10
  <2>3. ASSUME NEW q \in Projects, NEW m \in Names, buffers[q][m] = "text" \/ (q = project /\ m = n)
        PROVE  buffers'[q][m] = "text"
    BY <1>1, <1>2, <1>10, <2>3, BufferTyped
  <2>4. OnDisk'
    <3>1. ASSUME NEW q \in Projects, NEW m \in kept'[q]
          PROVE  buffers'[q][m] = "text" /\ session'[q] # None
      <4>1. CASE m \in kept[q]
        BY <1>1, <1>4, <2>3, <4>1, KeptSaved
      <4>2. CASE q = project /\ m = n /\ Readable(q)
        BY <1>2, <1>4, <2>3, <4>2 DEF Readable
      <4>3. QED
        BY <2>2, <4>1, <4>2
    <3>2. QED
      BY <3>1 DEF OnDisk
  <2>5. InEditors'
    BY <1>3, <1>4, <1>6, <2>2 DEF InEditors
  <2>6. InPanels'
    <3>1. ASSUME NEW i \in DOMAIN editors, i < at + 1, Unsaved(editors[i]), editors[i].file \in kept'[project]
          PROVE  editors[i].file \in ToSet(panels')
      <4>1. CASE editors[i].file = n
        BY <2>1, <4>1
      <4>2. CASE editors[i].file # n
        BY <1>6, <1>9, <2>1, <2>2, <3>1, <4>2 DEF n
      <4>3. QED
        BY <4>1, <4>2
    <3>2. ASSUME NEW m \in ToSet(panels') \ shared
          PROVE  buffers'[project][m] = "text" /\ Holds(editors, m)
      BY <1>1, <1>2, <1>3, <1>6, <2>1, <2>3
    <3>3. QED
      BY <1>4, <3>1, <3>2 DEF InPanels
  <2>7. QED
    BY <1>8, <2>4, <2>5, <2>6 DEF KeptInv
<1>11. CASE /\ buffers' = buffers \/ buffers' = [buffers EXCEPT ![project][n] = "blank"]
            /\ kept' = [kept EXCEPT ![project] = @ \ {n}]
            /\ panels' = panels
  <2>1. /\ \A q \in Projects : kept'[q] \subseteq kept[q]
        /\ n \notin kept'[project]
    BY <1>1, <1>11
  <2>2. ASSUME NEW q \in Projects, NEW m \in Names, buffers[q][m] = "text", q # project \/ m # n
        PROVE  buffers'[q][m] = "text"
    BY <1>1, <1>2, <1>11, <2>2, BufferTyped
  <2>3. OnDisk'
    <3>1. ASSUME NEW q \in Projects, NEW m \in kept'[q]
          PROVE  buffers'[q][m] = "text" /\ session'[q] # None
      <4>1. m \in kept[q] /\ m \in Names /\ buffers[q][m] = "text" /\ session[q] # None
        BY <1>1, <2>1, KeptSaved
      <4>2. QED
        BY <1>4, <2>1, <2>2, <4>1
    <3>2. QED
      BY <3>1 DEF OnDisk
  <2>4. InEditors'
    BY <1>1, <1>4, <1>6, <2>1 DEF InEditors
  <2>5. InPanels'
    <3>1. ASSUME NEW i \in DOMAIN editors, i < at + 1, Unsaved(editors[i]), editors[i].file \in kept'[project]
          PROVE  editors[i].file \in ToSet(panels')
      BY <1>1, <1>6, <1>9, <1>11, <2>1, <3>1 DEF n
    <3>2. ASSUME NEW m \in ToSet(panels') \ shared
          PROVE  buffers'[project][m] = "text" /\ Holds(editors, m)
      BY <1>1, <1>2, <1>6, <1>7, <1>11, <2>2, ToSetAppend
    <3>3. QED
      BY <1>4, <3>1, <3>2 DEF InPanels
  <2>6. QED
    BY <1>8, <2>3, <2>4, <2>5 DEF KeptInv
<1>12. QED
  BY <1>5, <1>10, <1>11 DEF n

LEMMA KeptSaving ==
  ASSUME TypeInv, KeptInv, SkipEditor \/ WriteSession \/ CleanupStaleBuffers
  PROVE  KeptInv'
<1>1. /\ TypeOK /\ editors \in Seq(Editors) /\ OnDisk /\ project \in Projects /\ panels \in Seq(Names)
      /\ kept \in [Projects -> SUBSET Names] /\ at \in Nat /\ DOMAIN editors \subseteq Nat
      /\ Len(editors) \in Nat /\ DOMAIN editors = 1..Len(editors) /\ ToSet(panels) \subseteq Names
  BY LenProperties, ElementOfSeq DEF TypeInv, TypeOK, KeptInv, ToSet
<1>2. running /\ editors' = editors /\ running' = running /\ project' = project /\ after' = after
      /\ panels' = panels /\ shared' = shared
  BY DEF historyVars, SkipEditor, WriteSession, CleanupStaleBuffers, KeptInv, Purposeful
<1>3. Purposeful'
  BY <1>2 DEF Purposeful, KeptInv
<1>4. \A n \in kept[project] : Holds(editors, n)
  BY <1>2 DEF KeptInv, InEditors
<1>5. CASE SkipEditor
  <2>1. /\ step = "buffers" /\ step' = "buffers" /\ at' = at + 1 /\ ~Unsaved(editors[at])
        /\ buffers' = buffers /\ session' = session /\ kept' = kept
    BY <1>5 DEF SkipEditor, diskVars, historyVars
  <2>2. \A i \in DOMAIN editors : i < at + 1 => i < at \/ i = at
    BY <1>1
  <2>3. InPanels'
    <3>1. ASSUME NEW i \in DOMAIN editors, i < at + 1, Unsaved(editors[i]), editors[i].file \in kept[project]
          PROVE  editors[i].file \in ToSet(panels)
      BY <2>1, <2>2, <3>1 DEF KeptInv, InPanels
    <3>2. \A m \in ToSet(panels) \ shared : buffers[project][m] = "text" /\ Holds(editors, m)
      BY <2>1 DEF KeptInv, InPanels
    <3>3. QED
      BY <1>2, <2>1, <3>1, <3>2 DEF InPanels
  <2>4. QED
    BY <1>1, <1>2, <1>3, <1>4, <2>1, <2>3 DEF KeptInv, OnDisk, InEditors, Spared
<1>6. CASE WriteSession
  <2>1. /\ step = "buffers" /\ at > Len(editors) /\ buffers' = buffers
        /\ \A n \in ToSet(panels) \ shared : buffers[project][n] = "text" /\ Holds(editors, n)
    BY <1>6 DEF WriteSession, KeptInv, InPanels
  <2>2. CASE /\ session' = [session EXCEPT ![project] = panels]
             /\ kept' = [kept EXCEPT ![project] = @ \cup (ToSet(panels) \ shared)]
             /\ step' = "clean"
    <3>1. panels # None
      BY <1>1, SessionAssumption
    <3>2. OnDisk'
      BY <1>1, <2>1, <2>2, <3>1 DEF OnDisk, TypeOK
    <3>3. InEditors'
      BY <1>1, <1>2, <1>4, <2>1, <2>2 DEF InEditors
    <3>4. kept[project] \subseteq ToSet(panels)
      <4>1. ASSUME NEW n \in kept[project]
            PROVE  n \in ToSet(panels)
        <5>1. PICK i \in DOMAIN editors : editors[i].file = n /\ Unsaved(editors[i])
          BY <1>4 DEF Holds
        <5>2. i < at
          BY <1>1, <2>1
        <5>3. QED
          BY <2>1, <5>1, <5>2 DEF KeptInv, InPanels
      <4>2. QED
        BY <4>1
    <3>5. Spared' /\ InPanels'
      BY <1>1, <1>2, <2>2, <3>4 DEF Spared, InPanels
    <3>6. QED
      BY <1>3, <3>2, <3>3, <3>5 DEF KeptInv
  <2>3. CASE /\ session' = session \/ session' = [session EXCEPT ![project] = Torn]
             /\ step' = "done" /\ kept' = kept
    <3>1. OnDisk'
      BY <1>1, <2>1, <2>3, SessionAssumption DEF OnDisk, TypeOK
    <3>2. QED
      BY <1>2, <1>3, <1>4, <2>3, <3>1 DEF KeptInv, InEditors, Spared, InPanels
  <2>4. QED
    BY <1>6, <2>2, <2>3 DEF WriteSession
<1>7. CASE CleanupStaleBuffers
  <2>1. /\ step = "clean" /\ step' = "done" /\ session' = session /\ kept' = kept
        /\ kept[project] \subseteq ToSet(panels)
        /\ buffers' = [buffers EXCEPT ![project] = [n \in Names |-> IF n \in ToSet(panels) THEN @[n] ELSE None]]
    BY <1>7 DEF CleanupStaleBuffers, KeptInv, Spared, historyVars
  <2>2. ASSUME NEW q \in Projects, NEW n \in kept[q]
        PROVE  buffers'[q][n] = "text"
    <3>1. n \in Names /\ buffers[q][n] = "text"
      BY <1>1, KeptSaved
    <3>2. QED
      BY <1>1, <2>1, <3>1 DEF TypeOK
  <2>3. OnDisk'
    BY <1>1, <2>1, <2>2 DEF OnDisk
  <2>4. QED
    BY <1>2, <1>3, <1>4, <2>1, <2>3 DEF KeptInv, InEditors, Spared, InPanels
<1>8. QED
  BY <1>5, <1>6, <1>7

LEMMA KeptAfter ==
  ASSUME TypeInv, KeptInv, Resume \/ SwitchToSession \/ CreateNewSession \/ Crash
  PROVE  KeptInv'
<1>1. /\ TypeOK /\ editors \in Seq(Editors) /\ OnDisk /\ project \in Projects /\ after \in Purposes
      /\ kept \in [Projects -> SUBSET Names]
  BY DEF TypeInv, TypeOK, KeptInv
<1>2. CASE Resume
  <2>1. session' = session /\ buffers' = buffers /\ kept' = kept /\ project' = project
        /\ (Stop \/ (Idle /\ running' = running /\ editors' = editors))
    BY <1>2 DEF Resume, diskVars, historyVars
  <2>2. OnDisk'
    BY <1>1, <2>1 DEF OnDisk
  <2>3. InEditors' /\ InPanels' /\ Spared' /\ Purposeful'
    <3>1. CASE Stop
      BY <3>1, StopKept
    <3>2. CASE Idle /\ running' = running /\ editors' = editors
      BY <2>1, <3>2, IdleKept DEF KeptInv, InEditors
    <3>3. QED
      BY <2>1, <3>1, <3>2
  <2>4. QED
    BY <2>2, <2>3 DEF KeptInv
<1>3. CASE SwitchToSession
  <2>1. project' \in Projects /\ session' = session /\ kept' = kept
    BY <1>1, <1>3, PurposeProject DEF SwitchToSession, historyVars
  <2>2. CASE /\ Readable(project') /\ editors' \in Loads(project') /\ Idle
             /\ buffers' = [buffers EXCEPT ![project'] = Swept(project')]
    <3>1. OnDisk'
      <4>1. ASSUME NEW q \in Projects, NEW n \in kept[q]
            PROVE  buffers'[q][n] = "text"
        <5>1. n \in Names /\ n \in Saved(q) /\ buffers[q][n] = "text"
          BY <1>1, KeptSaved
        <5>2. Swept(q)[n] = "text"
          BY <5>1 DEF Swept
        <5>3. QED
          BY <1>1, <2>1, <2>2, <5>1, <5>2 DEF TypeOK
      <4>2. QED
        BY <1>1, <2>1, <4>1 DEF OnDisk
    <3>2. LoadOf(project', editors')
      BY <1>1, <2>1, <2>2, LoadsProperty
    <3>3. \A n \in kept[project'] : n \in Saved(project')
      BY <1>1, <2>1, KeptSaved
    <3>4. InEditors'
      BY <2>1, <3>2, <3>3, LoadHolds DEF InEditors
    <3>5. QED
      BY <2>2, <3>1, <3>4, IdleKept DEF KeptInv
  <2>3. CASE Stop /\ UNCHANGED buffers
    <3>1. OnDisk'
      BY <1>1, <2>1, <2>3 DEF OnDisk
    <3>2. QED
      BY <2>3, <3>1, StopKept DEF KeptInv
  <2>4. QED
    BY <1>3, <2>2, <2>3 DEF SwitchToSession
<1>4. CASE CreateNewSession
  <2>1. /\ project' \in Projects /\ buffers' = buffers
        /\ session' = [session EXCEPT ![project'] = None] /\ kept' = [kept EXCEPT ![project'] = {}]
    BY <1>1, <1>4, PurposeProject DEF CreateNewSession
  <2>2. OnDisk'
    BY <1>1, <2>1 DEF OnDisk, TypeOK
  <2>3. CASE Save(<<>>, Continue) /\ UNCHANGED running
    <3>1. <<>> \in Seq(Editors) /\ running'
      <4>1. running
        BY <1>4 DEF CreateNewSession, KeptInv, Purposeful
      <4>2. QED
        BY <2>3, <4>1, EmptySeq
    <3>2. kept'[project'] = {}
      BY <1>1, <2>1
    <3>3. InEditors' /\ InPanels' /\ Spared' /\ Purposeful'
      BY <1>1, <2>3, <3>1, <3>2, SaveKept, ContinueIsPurpose
    <3>4. QED
      BY <2>2, <3>3 DEF KeptInv
  <2>4. CASE Stop
    BY <2>2, <2>4, StopKept DEF KeptInv
  <2>5. QED
    BY <1>4, <2>3, <2>4 DEF CreateNewSession
<1>5. CASE Crash
  <2>1. Stop
    BY <1>5 DEF Crash
  <2>2. ASSUME UNCHANGED <<diskVars, kept>>
        PROVE  OnDisk'
    BY <1>1, <2>2 DEF OnDisk, diskVars
  <2>3. ASSUME step = "buffers", at <= Len(editors), Unsaved(editors[at]), session' = session,
               buffers' = [buffers EXCEPT ![project][editors[at].file] = "blank"],
               Forget(editors[at].file)
        PROVE  OnDisk'
    <3> DEFINE f == editors[at].file
    <3>1. f \in Names
      BY <2>3, AtNamed
    <3>2. /\ kept'[project] = kept[project] \ {f}
          /\ \A q \in Projects : kept'[q] \subseteq kept[q]
      BY <1>1, <2>3, ForgetKept
    <3> HIDE DEF f
    <3>3. ASSUME NEW q \in Projects, NEW n \in kept'[q]
          PROVE  buffers'[q][n] = "text" /\ session'[q] # None
      <4>1. buffers[q][n] = "text" /\ session[q] # None /\ n \in Names
        BY <1>1, <3>2, KeptSaved
      <4>2. q # project \/ n # f
        BY <3>2
      <4>3. buffers'[q][n] = buffers[q][n]
        BY <1>1, <2>3, <3>1, <4>1, <4>2, BufferTyped DEF f
      <4>4. QED
        BY <2>3, <4>1, <4>3
    <3>4. QED
      BY <3>3 DEF OnDisk
  <2>4. ASSUME session' = [session EXCEPT ![project] = Torn], UNCHANGED <<buffers, kept>>
        PROVE  OnDisk'
    BY <1>1, <2>4, SessionAssumption DEF OnDisk, TypeOK
  <2>5. OnDisk'
    BY <1>5, <2>2, <2>3, <2>4 DEF Crash
  <2>6. QED
    BY <2>1, <2>5, StopKept DEF KeptInv
<1>6. QED
  BY <1>2, <1>3, <1>4, <1>5

LEMMA KeptMove ==
  ASSUME TypeInv, KeptInv, NothingInside, MoveSessionTo
  PROVE  KeptInv'
<1>1. /\ TypeOK /\ editors \in Seq(Editors) /\ OnDisk /\ project \in Projects /\ after \in Purposes
      /\ kept \in [Projects -> SUBSET Names]
  BY DEF TypeInv, TypeOK, KeptInv
<1>2. /\ project' \in Projects /\ project' # project /\ NestedIn(project) = {} /\ running
  BY <1>1, PurposeProject DEF MoveSessionTo, KeptInv, Purposeful, NothingInside
<1>3. PICK copied \in SUBSET Names :
        LET gone == {project} \cup NestedIn(project)
        IN  /\ session' \in {[q \in Projects |-> IF q \in gone THEN None
                                                 ELSE IF q = project' THEN s ELSE session[q]]
                               : s \in {session[project], session[project']}}
            /\ buffers' = [q \in Projects |-> [n \in Names |->
                             IF q \in gone THEN None
                             ELSE IF q = project' /\ n \in copied THEN buffers[project][n]
                             ELSE buffers[q][n]]]
            /\ kept' = [kept EXCEPT ![project] = {},
                         ![project'] = IF session'[project'] \in {None, Torn} THEN {}
                                       ELSE kept[project] \cap copied]
  BY DEF MoveSessionTo
<1>4. /\ \A q \in Projects : q # project /\ q # project' => session'[q] = session[q] /\ kept'[q] = kept[q]
      /\ kept'[project] = {} /\ kept'[project'] \subseteq kept[project] \cap copied
      /\ kept'[project'] # {} => session'[project'] # None
  BY <1>1, <1>2, <1>3
<1>5. \A q \in Projects, n \in Names :
        /\ q # project /\ q # project' => buffers'[q][n] = buffers[q][n]
        /\ n \in copied => buffers'[project'][n] = buffers[project][n]
  BY <1>1, <1>2, <1>3
<1>6. OnDisk'
  <2>1. ASSUME NEW q \in Projects, NEW n \in kept'[q]
        PROVE  buffers'[q][n] = "text" /\ session'[q] # None
    <3>1. CASE q = project'
      <4>1. n \in kept[project] /\ n \in copied /\ session'[q] # None
        BY <1>4, <2>1, <3>1
      <4>2. buffers[project][n] = "text" /\ n \in Names
        BY <1>1, <4>1, KeptSaved
      <4>3. QED
        BY <1>2, <1>5, <3>1, <4>1, <4>2
    <3>2. CASE q # project /\ q # project'
      <4>1. n \in kept[q] /\ session'[q] = session[q]
        BY <1>4, <2>1, <3>2
      <4>2. buffers[q][n] = "text" /\ n \in Names /\ session[q] # None
        BY <1>1, <4>1, KeptSaved
      <4>3. QED
        BY <1>5, <3>2, <4>1, <4>2
    <3>3. QED
      BY <1>4, <2>1, <3>1, <3>2
  <2>2. QED
    BY <2>1 DEF OnDisk
<1>7. CASE Save(editors, Continue) /\ UNCHANGED running
  <2>1. \A n \in kept'[project'] : n \in Names /\ Holds(editors, n)
    BY <1>1, <1>2, <1>4 DEF KeptInv, InEditors
  <2>2. InEditors' /\ InPanels' /\ Spared' /\ Purposeful'
    BY <1>1, <1>2, <1>7, <2>1, SaveKept, ContinueIsPurpose
  <2>3. QED
    BY <1>6, <2>2 DEF KeptInv
<1>8. CASE Stop
  BY <1>6, <1>8, StopKept DEF KeptInv
<1>9. QED
  BY <1>7, <1>8 DEF MoveSessionTo

LEMMA KeptNext ==
  ASSUME TypeInv, OwnInv, KeptInv, NothingInside, [Next]_vars
  PROVE  KeptInv'
<1>1. CASE \E p \in Projects : Start(p)
  BY <1>1, KeptStart
<1>2. CASE \/ NewEditor \/ (\E i \in DOMAIN editors : Edit(i) \/ SaveAs(i) \/ CloseEditor(i))
           \/ (\E purpose \in Purposes : SaveFor(purpose)) \/ (\E p \in Projects : DeleteSession(p))
  BY <1>2, KeptUser
<1>3. CASE WriteBuffer
  BY <1>3, KeptWriteBuffer
<1>4. CASE SkipEditor \/ WriteSession \/ CleanupStaleBuffers
  BY <1>4, KeptSaving
<1>5. CASE Resume \/ SwitchToSession \/ CreateNewSession \/ Crash
  BY <1>5, KeptAfter
<1>6. CASE MoveSessionTo
  BY <1>6, KeptMove
<1>7. CASE UNCHANGED vars
  BY <1>7 DEF vars, saveVars, diskVars, historyVars, KeptInv, OnDisk, InEditors, InPanels, Spared, Purposeful
<1>8. QED
  BY <1>1, <1>2, <1>3, <1>4, <1>5, <1>6, <1>7 DEF Next

LEMMA KeptInit == Init => KeptInv
<1> SUFFICES ASSUME Init
             PROVE  KeptInv
  OBVIOUS
<1>1. OnDisk /\ InEditors
  BY DEF Init, OnDisk, InEditors
<1>2. InPanels /\ Spared /\ Purposeful
  BY ContinueIsPurpose DEF Init, InPanels, Spared, Purposeful
<1>3. QED
  BY <1>1, <1>2 DEF KeptInv

(* Unsaved text, once it has been saved, stays on disk and comes back       *)
(* whenever its project is opened, whichever writes were cut short and       *)
(* whichever sessions were cleaned up, deleted, moved or switched between;  *)
(* for any projects and documents, if no directory that is removed has      *)
(* sessions inside (App::save_session, App::load_session,                   *)
(* Session::cleanup_old_sessions, move_session_to).  The text of documents  *)
(* that one save named together is not among what kept promises.             *)
THEOREM SavedSurvivesHolds ==
  ASSUME NothingInside
  PROVE  Spec => []SavedSurvives
<1>1. Init => TypeInv /\ OwnInv /\ KeptInv
  BY TypeInvInit, OwnInit, KeptInit
<1>2. TypeInv /\ OwnInv /\ KeptInv /\ [Next]_vars => TypeInv' /\ OwnInv' /\ KeptInv'
  BY TypeInvNext, OwnNext, KeptNext
<1>3. KeptInv => SavedSurvives
  BY DEF KeptInv, OnDisk, InEditors, Holds, SavedSurvives
<1>4. QED
  BY <1>1, <1>2, <1>3, PTL DEF Spec
=============================================================================
