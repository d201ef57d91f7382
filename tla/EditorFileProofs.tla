-------------------------- MODULE EditorFileProofs --------------------------
(***************************************************************************)
(* Theorems about a document and its file, for every set of texts and      *)
(* files, every length of the history and every number of writes.          *)
(***************************************************************************)
EXTENDS EditorFile, SequenceTheorems, TLAPS

(***************************************************************************)
(* Type correctness.                                                       *)
(***************************************************************************)
DocumentOK == versions \in Seq(Texts) /\ at \in DOMAIN versions

LEMMA TextTyped ==
  ASSUME DocumentOK
  PROVE  text \in Texts /\ at \in 1..Len(versions) /\ Len(versions) \in Nat
BY LenProperties, ElementOfSeq DEF DocumentOK, text, Document!Document

LEMMA EditTyped ==
  ASSUME DocumentOK, NEW t \in Texts, Document!Edit(t)
  PROVE  DocumentOK' /\ text' = t
<1>1. MaxVersions \in Nat
  BY EditorFileAssumption
<1>2. PICK keep \in {at - 1, at} \ {0} :
        LET line == Append(SubSeq(versions, 1, keep), t)
        IN  versions' = IF Len(line) > MaxVersions THEN Tail(line) ELSE line
  BY DEF Document!Edit
<1> DEFINE kept == SubSeq(versions, 1, keep)
           line == Append(kept, t)
<1>3. keep \in 1..Len(versions) /\ keep \in Nat
  BY TextTyped
<1>4. \A i \in 1..keep : versions[i] \in Texts
  BY <1>3, ElementOfSeq, LenProperties DEF DocumentOK
<1>5. kept \in Seq(Texts) /\ Len(kept) = keep
  BY <1>3, <1>4, SubSeqProperties
<1> HIDE DEF kept
<1>6. line \in Seq(Texts) /\ line # <<>> /\ Len(line) = keep + 1 /\ line[keep + 1] = t
  BY <1>5, AppendProperties
<1>7. versions' = IF Len(line) > MaxVersions THEN Tail(line) ELSE line
  BY <1>2 DEF kept
<1> HIDE DEF line
<1>8. Tail(line) \in Seq(Texts) /\ Len(Tail(line)) = keep /\ Tail(line)[keep] = t
  BY <1>3, <1>6, HeadTailProperties
<1>9. versions' \in Seq(Texts) /\ Len(versions') \in 1..keep + 1 /\ versions'[Len(versions')] = t
  BY <1>1, <1>3, <1>6, <1>7, <1>8
<1>10. at' = Len(versions')
  BY DEF Document!Edit
<1>11. QED
  BY <1>3, <1>9, <1>10, LenProperties DEF DocumentOK, text, Document!Document

LEMMA LoadTyped ==
  ASSUME NEW t \in Texts, Document!Load(t)
  PROVE  DocumentOK' /\ text' = t
BY DEF Document!Load, DocumentOK, text, Document!Document

LEMMA MoveTyped ==
  ASSUME DocumentOK, Document!Undo \/ Document!Redo
  PROVE  DocumentOK' /\ text' \in Texts /\ UNCHANGED versions /\ Len(versions) > 1
<1>1. UNCHANGED versions /\ at' \in 1..Len(versions) /\ Len(versions) > 1
  BY TextTyped DEF Document!Undo, Document!Redo
<1>2. DocumentOK'
  BY <1>1, LenProperties DEF DocumentOK
<1>3. QED
  BY <1>1, <1>2, ElementOfSeq DEF DocumentOK, text, Document!Document

LEMMA RawTyped ==
  ASSUME NEW t \in Texts, NEW ending \in {"LF", "CRLF"},
         NEW author \in {"editor", "failed", "other"}, NEW time \in 1..MaxTime
  PROVE  /\ Raw(t, ending, author, time) \in RawType
         /\ Raw(t, ending, author, time).text = t
         /\ Raw(t, ending, author, time).author = author
         /\ Raw(t, ending, author, time).time = time
         /\ Raw(t, ending, author, time) # Absent
BY AbsentAssumption DEF Raw, RawType

(* What a write leaves on the disk. *)
Wrote(f, t, author) ==
  /\ clock' = clock + 1 /\ clock' \in 1..MaxTime /\ event' = TRUE
  /\ disk' \in [Files -> RawType \cup {Absent}]
  /\ disk'[f].text = t /\ disk'[f].author = author /\ disk'[f].time = clock'
  /\ disk'[f] # Absent
  /\ \A g \in Files : g # f => disk'[g] = disk[g]
  /\ \A g \in Files : disk'[g] # Absent => disk'[g].time <= clock'

LEMMA WriteTyped ==
  ASSUME TypeOK, NEW f \in Files, NEW t \in Texts, NEW ending \in {"LF", "CRLF"},
         NEW author \in {"editor", "failed", "other"}, Write(f, t, ending, author)
  PROVE  Wrote(f, t, author)
<1>1. clock \in 1..MaxTime /\ MaxTime \in Nat /\ disk \in [Files -> RawType \cup {Absent}]
  BY EditorFileAssumption DEF TypeOK
<1>2. /\ clock' = clock + 1 /\ clock' \in 1..MaxTime /\ event' = TRUE
      /\ disk' = [disk EXCEPT ![f] = Raw(t, ending, author, clock')]
  BY <1>1 DEF Write
<1>3. /\ Raw(t, ending, author, clock') \in RawType
      /\ Raw(t, ending, author, clock').text = t
      /\ Raw(t, ending, author, clock').author = author
      /\ Raw(t, ending, author, clock').time = clock'
      /\ Raw(t, ending, author, clock') # Absent
  BY <1>2, RawTyped
<1>4. disk'[f] = Raw(t, ending, author, clock') /\ \A g \in Files : g # f => disk'[g] = disk[g]
  BY <1>1, <1>2
<1>5. \A g \in Files : g # f /\ disk'[g] # Absent => disk'[g].time <= clock'
  <2>1. \A g \in Files : disk[g] # Absent => disk[g] \in RawType /\ disk[g].time <= clock
    BY <1>1 DEF TypeOK, Exists
  <2>2. \A g \in Files : disk[g] # Absent => disk[g].time \in Nat
    BY <2>1, <1>1 DEF RawType
  <2>3. QED
    BY <1>1, <1>2, <1>4, <2>1, <2>2
<1>6. disk' \in [Files -> RawType \cup {Absent}]
  BY <1>1, <1>2, <1>3
<1>7. QED
  BY <1>1, <1>2, <1>3, <1>4, <1>5, <1>6 DEF Wrote

LEMMA FileTyped ==
  ASSUME TypeOK, NEW f, Exists(f)
  PROVE  /\ f \in Files /\ disk[f] \in RawType /\ disk[f].text \in Texts
         /\ disk[f].ending \in {"LF", "CRLF"} /\ disk[f].time \in 1..clock
<1>1. f \in Files /\ disk[f] \in RawType /\ disk[f].time <= clock
  BY DEF TypeOK, Exists
<1>2. disk[f].text \in Texts /\ disk[f].ending \in {"LF", "CRLF"} /\ disk[f].time \in 1..MaxTime
  BY <1>1 DEF RawType
<1>3. QED
  BY <1>1, <1>2, EditorFileAssumption DEF TypeOK

(* The parts of TypeOK that a step can disturb together.                    *)
DiskOK ==
  /\ clock \in 1..MaxTime
  /\ disk \in [Files -> RawType \cup {Absent}]
  /\ \A f \in Files : disk[f] # Absent => disk[f].time <= clock
  /\ event \in BOOLEAN

Typed ==
  /\ DocumentOK /\ DiskOK
  /\ modified \in BOOLEAN /\ external_change_detected \in BOOLEAN
  /\ line_ending \in {"LF", "CRLF"}
  /\ file_path \in Files \cup {NoFile} /\ mtime \in 0..clock
  /\ step \in {"idle", "stat"} /\ synced \in Texts

LEMMA TypeParts == TypeOK <=> Typed
BY DEF TypeOK, Typed, DocumentOK, DiskOK, Exists

LEMMA WriteKeepsDisk ==
  ASSUME TypeOK, NEW f \in Files, NEW t \in Texts, NEW ending \in {"LF", "CRLF"},
         NEW author \in {"editor", "failed", "other"}, Write(f, t, ending, author)
  PROVE  DiskOK' /\ (\A m \in 0..clock : m \in 0..clock')
<1>1. clock \in 1..MaxTime /\ MaxTime \in Nat
  BY EditorFileAssumption DEF TypeOK
<1>2. Wrote(f, t, author)
  BY WriteTyped
<1>3. \A m \in 0..clock : m \in 0..clock'
  BY <1>1, <1>2 DEF Wrote
<1>4. QED
  BY <1>2, <1>3 DEF DiskOK, Wrote

(* What Saved and NotSaved leave behind.                                    *)
LEMMA SavedTyped ==
  ASSUME TypeOK, NEW f \in Files, Saved(f) \/ NotSaved(f)
  PROVE  /\ DiskOK' /\ modified' \in BOOLEAN /\ file_path' \in Files \cup {NoFile}
         /\ synced' \in Texts /\ mtime \in 0..clock'
<1>1. text \in Texts /\ Torn \in Texts /\ line_ending \in {"LF", "CRLF"}
  BY TextTyped, TypeParts, EditorFileAssumption DEF Typed
<1>2. mtime \in 0..clock /\ DiskOK /\ modified \in BOOLEAN /\ synced \in Texts
      /\ file_path \in Files \cup {NoFile}
  BY TypeParts DEF Typed
<1>3. CASE Saved(f)
  <2>1. Write(f, text, line_ending, "editor")
    BY <1>3 DEF Saved
  <2>2. DiskOK' /\ mtime \in 0..clock'
    BY <1>1, <1>2, <2>1, WriteKeepsDisk
  <2>3. QED
    BY <1>1, <1>3, <2>2 DEF Saved
<1>4. CASE NotSaved(f)
  <2>1. CASE UNCHANGED diskVars
    BY <1>2, <1>4, <2>1 DEF NotSaved, diskVars, DiskOK
  <2>2. CASE Write(f, Torn, line_ending, "failed")
    <3>1. DiskOK' /\ mtime \in 0..clock'
      BY <1>1, <1>2, <2>2, WriteKeepsDisk
    <3>2. QED
      BY <1>2, <1>4, <3>1 DEF NotSaved
  <2>3. QED
    BY <1>4, <2>1, <2>2 DEF NotSaved
<1>5. QED
  BY <1>3, <1>4

LEMMA RecheckTyped ==
  ASSUME TypeOK, Recheck
  PROVE  modified' \in BOOLEAN /\ synced' \in Texts
BY FileTyped, TypeParts DEF Recheck, Typed

LEMMA TypeInit == Init => TypeOK
<1> SUFFICES ASSUME Init PROVE TypeOK
  OBVIOUS
<1>1. PICK t \in Texts, ending \in LineEndings :
        /\ versions = <<t>> /\ at = 1 /\ synced = t
        /\ line_ending \in {"LF", Raw(t, ending, "other", 1).ending}
        /\ disk = [f \in Files |-> IF f = Opened THEN Raw(t, ending, "other", 1) ELSE Absent]
  BY DEF Init
<1>2. ending \in {"LF", "CRLF"} /\ 1 \in 1..MaxTime
  BY EditorFileAssumption
<1>3. Raw(t, ending, "other", 1) \in RawType /\ Raw(t, ending, "other", 1).time = 1
  BY <1>2, RawTyped
<1>4. Raw(t, ending, "other", 1).ending \in {"LF", "CRLF"}
  BY <1>2 DEF Raw
<1>5. DiskOK
  <2> DEFINE first == Raw(t, ending, "other", 1)
  <2>1. disk = [f \in Files |-> IF f = Opened THEN first ELSE Absent]
        /\ first \in RawType /\ first.time = 1
    BY <1>1, <1>3
  <2> HIDE DEF first
  <2>2. disk \in [Files -> RawType \cup {Absent}]
    BY <2>1
  <2>3. \A f \in Files : disk[f] # Absent => disk[f].time <= 1
    BY <2>1
  <2>4. QED
    BY <1>2, <2>2, <2>3 DEF DiskOK, Init
<1>6. DocumentOK
  BY <1>1 DEF DocumentOK
<1>7. file_path \in Files \cup {NoFile} /\ mtime \in 0..clock
  BY EditorFileAssumption DEF Init
<1>8. QED
  BY <1>1, <1>4, <1>5, <1>6, <1>7, TypeParts DEF Init, Typed

LEMMA TypeStep == Typed /\ [Next]_vars => Typed'
<1> SUFFICES ASSUME Typed, [Next]_vars PROVE Typed'
  OBVIOUS
<1>0. TypeOK
  BY TypeParts
<1> USE <1>0 DEF Typed
<1>1. CASE \E t \in Texts : Edit(t)
  BY <1>1, EditTyped DEF Edit, diskVars, DiskOK
<1>2. CASE UndoRedo
  BY <1>2, MoveTyped, RecheckTyped DEF UndoRedo, diskVars, DiskOK
<1>3. CASE Save \/ ForceSave
  <2>1. SaveOver(FALSE) /\ file_path \in Files
    BY <1>3 DEF Save, ForceSave, SaveOver
  <2>2. Saved(file_path) \/ NotSaved(file_path)
    BY <2>1 DEF SaveOver
  <2>3. /\ DiskOK' /\ modified' \in BOOLEAN /\ file_path' \in Files \cup {NoFile}
        /\ synced' \in Texts /\ mtime \in 0..clock'
    BY <2>1, <2>2, SavedTyped
  <2>4. external_change_detected' \in BOOLEAN /\ step' \in {"idle", "stat"}
    BY <2>1 DEF SaveOver
  <2>5. DocumentOK' /\ line_ending' = line_ending /\ mtime' = mtime
    BY <2>1 DEF SaveOver, documentVars, DocumentOK
  <2>6. QED
    BY <2>3, <2>4, <2>5
<1>4. CASE \E f \in SaveAsTo : SaveAs(f)
  <2>1. PICK f \in SaveAsTo : SaveAs(f)
    BY <1>4
  <2>2. f \in Files
    BY EditorFileAssumption
  <2>3. /\ DiskOK' /\ modified' \in BOOLEAN /\ file_path' \in Files \cup {NoFile}
        /\ synced' \in Texts /\ mtime \in 0..clock'
    BY <2>1, <2>2, SavedTyped DEF SaveAs
  <2>4. QED
    BY <2>1, <2>3 DEF SaveAs, documentVars, DocumentOK
<1>5. CASE Reload
  <2>1. disk[file_path].text \in Texts /\ disk[file_path].ending \in {"LF", "CRLF"}
    BY <1>5, FileTyped DEF Reload
  <2>2. DocumentOK'
    BY <1>5, <2>1, LoadTyped DEF Reload
  <2>3. QED
    BY <1>5, <2>1, <2>2 DEF Reload, diskVars, DiskOK
<1>6. CASE Stat
  <2>1. mtime' \in 0..clock
    BY <1>6, FileTyped DEF Stat, TypeOK
  <2>2. QED
    BY <1>6, <2>1 DEF Stat, diskVars, documentVars, DiskOK, DocumentOK
<1>7. CASE Notice
  BY <1>7 DEF Notice, documentVars, DiskOK, DocumentOK
<1>8. CASE \E f \in Files : ExternalWrite(f)
  <2>1. PICK f \in Files, t \in Texts, ending \in LineEndings : Write(f, t, ending, "other")
    BY <1>8 DEF ExternalWrite
  <2>2. ending \in {"LF", "CRLF"}
    BY EditorFileAssumption
  <2>3. DiskOK' /\ mtime \in 0..clock'
    BY <2>1, <2>2, WriteKeepsDisk
  <2>4. QED
    BY <1>8, <2>3 DEF ExternalWrite, documentVars, editorVars, DocumentOK
<1>9. CASE \E f \in Files : ExternalDelete(f)
  BY <1>9 DEF ExternalDelete, documentVars, editorVars, DocumentOK, DiskOK
<1>10. CASE UNCHANGED vars
  BY <1>10 DEF vars, documentVars, editorVars, diskVars, DocumentOK, DiskOK
<1>11. QED
  BY <1>1, <1>2, <1>3, <1>4, <1>5, <1>6, <1>7, <1>8, <1>9, <1>10 DEF Next

(* Every reachable state is well typed, whatever is edited, saved, torn,    *)
(* reloaded, and written or deleted by other programs.                      *)
THEOREM TypeOKHolds == Spec => []TypeOK
BY TypeInit, TypeStep, TypeParts, PTL DEF Spec

(***************************************************************************)
(* The modified mark.  Undo keeps the mark when it cannot read the file:    *)
(* so it matters that only a deleted file is missing, and that an untitled  *)
(* document with a history is marked.                                       *)
(***************************************************************************)
UnsavedInv ==
  /\ file_path \in Files => Exists(file_path) \/ file_path \in Deletes
  /\ UnsavedIsModified
  /\ file_path = NoFile => modified \/ versions = <<synced>>

LEMMA WriteExists ==
  ASSUME TypeOK, NEW f \in Files, NEW t \in Texts, NEW ending \in {"LF", "CRLF"},
         NEW author \in {"editor", "failed", "other"}, Write(f, t, ending, author)
  PROVE  \A g \in Files : Exists(g) \/ g = f => Exists(g)'
<1>1. Wrote(f, t, author)
  BY WriteTyped
<1>2. QED
  BY <1>1 DEF Exists, Wrote

LEMMA UnsavedInit == Init => UnsavedInv
<1> SUFFICES ASSUME Init PROVE UnsavedInv
  OBVIOUS
<1>1. PICK t \in Texts, ending \in LineEndings :
        /\ versions = <<t>> /\ at = 1 /\ synced = t
        /\ disk = [f \in Files |-> IF f = Opened THEN Raw(t, ending, "other", 1) ELSE Absent]
  BY DEF Init
<1>2. text = synced /\ versions = <<synced>>
  BY <1>1 DEF text, Document!Document
<1>3. ending \in {"LF", "CRLF"} /\ 1 \in 1..MaxTime
  BY EditorFileAssumption
<1>4. Raw(t, ending, "other", 1) # Absent
  BY <1>3, RawTyped
<1>5. Opened \in Files => Exists(Opened)
  BY <1>1, <1>4 DEF Exists
<1>6. QED
  BY <1>2, <1>5 DEF Init, UnsavedInv, UnsavedIsModified

LEMMA UnsavedStep == TypeOK /\ UnsavedInv /\ [Next]_vars => UnsavedInv'
<1> SUFFICES ASSUME TypeOK, UnsavedInv, [Next]_vars PROVE UnsavedInv'
  OBVIOUS
<1> USE DEF UnsavedInv, UnsavedIsModified
<1>0. Typed /\ DocumentOK
  BY TypeParts DEF Typed
<1>1. ASSUME UNCHANGED documentVars
      PROVE  text' = text /\ versions' = versions
  BY <1>1 DEF documentVars, text, Document!Document
<1>2. CASE \E t \in Texts : Edit(t)
  BY <1>2 DEF Edit, diskVars, Exists
<1>3. CASE UndoRedo
  <2>1. UNCHANGED versions /\ Len(versions) > 1 /\ text' \in Texts
    BY <1>0, <1>3, MoveTyped DEF UndoRedo
  <2>2. UNCHANGED <<file_path, disk>>
    BY <1>3 DEF UndoRedo, diskVars
  <2>3. CASE Exists(file_path)
    <3>1. modified' = (disk[file_path].text # text' \/ disk[file_path].ending # "LF")
          /\ synced' = disk[file_path].text
      BY <1>3, <2>3 DEF UndoRedo, Recheck
    <3>2. file_path \in Files /\ file_path # NoFile
      BY <2>3, EditorFileAssumption DEF Exists
    <3>3. QED
      BY <2>2, <2>3, <3>1, <3>2 DEF Exists
  <2>4. CASE ~Exists(file_path)
    <3>1. UNCHANGED <<modified, synced>>
      BY <1>3, <2>4 DEF UndoRedo, Recheck
    <3>2. file_path \in Deletes \/ (file_path = NoFile /\ modified)
      <4>2. versions # <<synced>>
        <5> SUFFICES ASSUME versions = <<synced>> PROVE FALSE
          OBVIOUS
        <5>1. Len(versions) > 1
          BY <2>1
        <5>2. Len(versions) = 1
          OBVIOUS
        <5>3. QED
          BY <5>1, <5>2
      <4>3. QED
        BY <1>0, <2>1, <2>4, <4>2 DEF Typed
    <3>3. QED
      BY <2>1, <2>2, <2>4, <3>1, <3>2, EditorFileAssumption DEF Exists
  <2>5. QED
    BY <2>3, <2>4
<1>4. ASSUME NEW f \in Files, Saved(f), UNCHANGED documentVars
      PROVE  UnsavedInv'
  <2>1. text \in Texts /\ line_ending \in {"LF", "CRLF"}
    BY <1>0, TextTyped DEF Typed
  <2>2. Write(f, text, line_ending, "editor") /\ file_path' = f /\ synced' = text
    BY <1>4 DEF Saved
  <2>3. Exists(f)'
    BY <2>1, <2>2, WriteExists
  <2>4. f # NoFile
    BY EditorFileAssumption
  <2>5. QED
    BY <1>1, <1>4, <2>2, <2>3, <2>4 DEF Exists
<1>5. ASSUME UNCHANGED <<documentVars, modified, file_path, synced>>,
             \A g \in Files \ Deletes : Exists(g) => Exists(g)'
      PROVE  UnsavedInv'
  BY <1>1, <1>5 DEF Exists
<1>6. ASSUME NEW f \in Files, NEW t \in Texts, NEW author \in {"editor", "failed", "other"},
             NEW ending \in {"LF", "CRLF"}, Write(f, t, ending, author)
      PROVE  \A g \in Files \ Deletes : Exists(g) => Exists(g)'
  BY <1>6, WriteExists
<1>7. ASSUME UNCHANGED disk
      PROVE  \A g \in Files \ Deletes : Exists(g) => Exists(g)'
  BY <1>7 DEF Exists
<1>8. ASSUME NEW f \in Files, NotSaved(f), UNCHANGED documentVars
      PROVE  UnsavedInv'
  <2>1. Torn \in Texts /\ line_ending \in {"LF", "CRLF"}
    BY <1>0, EditorFileAssumption DEF Typed
  <2>2. \A g \in Files \ Deletes : Exists(g) => Exists(g)'
    BY <1>6, <1>7, <1>8, <2>1 DEF NotSaved, diskVars
  <2>3. QED
    BY <1>5, <1>8, <2>2 DEF NotSaved
<1>9. CASE Save \/ ForceSave
  <2>1. file_path \in Files /\ UNCHANGED documentVars /\ (Saved(file_path) \/ NotSaved(file_path))
    BY <1>0, <1>9 DEF Save, ForceSave, SaveOver, Typed
  <2>2. QED
    BY <1>4, <1>8, <2>1
<1>10. CASE \E f \in SaveAsTo : SaveAs(f)
  <2>1. PICK f \in SaveAsTo : UNCHANGED documentVars /\ (Saved(f) \/ NotSaved(f))
    BY <1>10 DEF SaveAs
  <2>2. QED
    BY <1>4, <1>8, <2>1, EditorFileAssumption
<1>11. CASE Reload
  <2>1. disk[file_path].text \in Texts /\ Exists(file_path) /\ file_path # NoFile
    BY <1>11, FileTyped, EditorFileAssumption DEF Reload, Exists
  <2>2. text' = synced'
    BY <1>11, <2>1, LoadTyped DEF Reload
  <2>3. QED
    BY <1>11, <2>1, <2>2 DEF Reload, diskVars, Exists
<1>12. CASE Stat
  BY <1>5, <1>7, <1>12 DEF Stat, diskVars
<1>13. CASE Notice
  BY <1>5, <1>7, <1>13 DEF Notice
<1>14. CASE \E f \in Files : ExternalWrite(f)
  <2>1. PICK f \in Files, t \in Texts, ending \in LineEndings : Write(f, t, ending, "other")
    BY <1>14 DEF ExternalWrite
  <2>2. \A g \in Files \ Deletes : Exists(g) => Exists(g)'
    BY <1>6, <2>1, EditorFileAssumption
  <2>3. QED
    BY <1>5, <1>14, <2>2 DEF ExternalWrite, editorVars
<1>15. CASE \E f \in Files : ExternalDelete(f)
  <2>1. PICK f \in Deletes : disk' = [disk EXCEPT ![f] = Absent]
    BY <1>15 DEF ExternalDelete
  <2>2. disk \in [Files -> RawType \cup {Absent}]
    BY DEF TypeOK
  <2>3. \A g \in Files \ Deletes : Exists(g) => Exists(g)'
    BY <2>1, <2>2 DEF Exists
  <2>4. QED
    BY <1>5, <1>15, <2>3 DEF ExternalDelete, editorVars
<1>16. CASE UNCHANGED vars
  BY <1>5, <1>7, <1>16 DEF vars, editorVars, diskVars
<1>17. QED
  BY <1>2, <1>3, <1>9, <1>10, <1>11, <1>12, <1>13, <1>14, <1>15, <1>16 DEF Next

(* A text that is not the one last read or saved is marked as modified,     *)
(* after any edits, undos, redos, saves that fail and saves under other     *)
(* names, unless the file was deleted.                                      *)
THEOREM UnsavedIsModifiedHolds == Spec => []UnsavedIsModified
<1>1. UnsavedInv => UnsavedIsModified
  BY DEF UnsavedInv
<1>2. QED
  BY <1>1, UnsavedInit, UnsavedStep, TypeOKHolds, PTL DEF Spec

(***************************************************************************)
(* The flag of an external change.  Save As does not read the time of the  *)
(* file it writes, so a file that can be saved under its own name by Save   *)
(* As is excluded: there the editor does take its own write for another's.  *)
(***************************************************************************)
OwnWrite == file_path = Opened /\ Exists(Opened) /\ disk[Opened].author = "editor"
FlagInv == OwnWrite => step = "stat" \/ (mtime = disk[Opened].time /\ ~external_change_detected)

(* A write that is not the editor's own saving to the file that is open.    *)
LEMMA OtherWrite ==
  ASSUME TypeOK, FlagInv, NEW f \in Files, NEW t \in Texts, NEW ending \in {"LF", "CRLF"},
         NEW author \in {"editor", "failed", "other"}, Write(f, t, ending, author),
         author # "editor" \/ f # Opened,
         file_path' \in {file_path, f}, mtime' = mtime, step' = step,
         external_change_detected' \in {FALSE, external_change_detected}
  PROVE  FlagInv'
<1>1. Wrote(f, t, author)
  BY WriteTyped
<1>2. CASE f = Opened
  <2>1. disk'[Opened].author # "editor"
    BY <1>1, <1>2 DEF Wrote
  <2>2. QED
    BY <2>1 DEF FlagInv, OwnWrite
<1>3. CASE f # Opened
  <2>1. Opened \in Files => disk'[Opened] = disk[Opened]
    BY <1>1, <1>3 DEF Wrote
  <2>2. file_path' = Opened => file_path = Opened
    BY <1>3
  <2>3. external_change_detected' => external_change_detected
    BY DEF TypeOK
  <2>4. QED
    BY <2>1, <2>2, <2>3 DEF FlagInv, OwnWrite, Exists
<1>4. QED
  BY <1>2, <1>3

LEMMA FlagInit == Init => FlagInv
<1> SUFFICES ASSUME Init, Opened \in Files PROVE disk[Opened].author = "other"
  BY DEF FlagInv, OwnWrite, Exists
<1>1. PICK t \in Texts, ending \in LineEndings :
        disk = [f \in Files |-> IF f = Opened THEN Raw(t, ending, "other", 1) ELSE Absent]
  BY DEF Init
<1>2. ending \in {"LF", "CRLF"} /\ 1 \in 1..MaxTime
  BY EditorFileAssumption
<1>3. Raw(t, ending, "other", 1).author = "other"
  BY <1>2, RawTyped
<1>4. QED
  BY <1>1, <1>3

LEMMA FlagStep ==
  ASSUME Opened \notin SaveAsTo, TypeOK, FlagInv, [Next]_vars
  PROVE  FlagInv'
<1>0. /\ text \in Texts /\ Torn \in Texts /\ line_ending \in {"LF", "CRLF"}
      /\ file_path \in Files \cup {NoFile}
  BY TextTyped, TypeParts, EditorFileAssumption DEF Typed
<1>1. ASSUME UNCHANGED <<file_path, disk, mtime, step>>,
             external_change_detected' \in {FALSE, external_change_detected}
      PROVE  FlagInv'
  BY <1>1 DEF FlagInv, OwnWrite, Exists, TypeOK
<1>2. CASE \E t \in Texts : Edit(t)
  BY <1>1, <1>2 DEF Edit, diskVars
<1>3. CASE UndoRedo
  BY <1>1, <1>3 DEF UndoRedo, diskVars
<1>4. ASSUME NEW f \in Files, NotSaved(f), UNCHANGED <<mtime, step>>,
             external_change_detected' \in {FALSE, external_change_detected}
      PROVE  FlagInv'
  <2>1. CASE UNCHANGED diskVars
    BY <1>1, <1>4, <2>1 DEF NotSaved, diskVars
  <2>2. CASE Write(f, Torn, line_ending, "failed")
    <3>1. file_path' \in {file_path, f} /\ mtime' = mtime /\ step' = step
      BY <1>4 DEF NotSaved
    <3>2. QED
      BY <1>0, <1>4, <2>2, <3>1, OtherWrite
  <2>3. QED
    BY <1>4, <2>1, <2>2 DEF NotSaved
<1>5. CASE Save \/ ForceSave
  <2>1. SaveOver(FALSE) /\ file_path \in Files
    BY <1>0, <1>5 DEF Save, ForceSave, SaveOver
  <2>2. CASE step' = "stat"
    BY <2>2 DEF FlagInv
  <2>3. CASE NotSaved(file_path) /\ external_change_detected' = FALSE /\ UNCHANGED step
    BY <1>4, <2>1, <2>3 DEF SaveOver
  <2>4. QED
    BY <2>1, <2>2, <2>3 DEF SaveOver
<1>6. CASE \E f \in SaveAsTo : SaveAs(f)
  <2>1. PICK f \in SaveAsTo : SaveAs(f)
    BY <1>6
  <2>2. f \in Files /\ f # Opened
    BY EditorFileAssumption
  <2>3. UNCHANGED <<mtime, external_change_detected, step>>
    BY <2>1 DEF SaveAs
  <2>4. CASE Saved(f)
    <3>1. file_path' = f /\ f # Opened
      BY <2>2, <2>4 DEF Saved
    <3>2. QED
      BY <3>1 DEF FlagInv, OwnWrite
  <2>5. CASE NotSaved(f)
    BY <1>4, <2>2, <2>3, <2>5
  <2>6. QED
    BY <2>1, <2>4, <2>5 DEF SaveAs
<1>7. CASE Reload
  BY <1>7 DEF Reload, FlagInv
<1>8. CASE Stat
  <2>1. ~external_change_detected' /\ UNCHANGED <<file_path, disk>>
    BY <1>8 DEF Stat, diskVars
  <2>2. Exists(file_path) => mtime' = disk[file_path].time
    BY <1>8 DEF Stat
  <2>3. QED
    BY <2>1, <2>2 DEF FlagInv, OwnWrite, Exists
<1>9. CASE Notice
  <2>1. UNCHANGED <<file_path, disk, mtime, step>> /\ step = "idle"
    BY <1>9 DEF Notice
  <2>2. external_change_detected' =
          (external_change_detected \/ (Exists(file_path) /\ mtime # 0 /\ disk[file_path].time > mtime))
    BY <1>9 DEF Notice
  <2>3. CASE OwnWrite
    <3>1. mtime = disk[file_path].time /\ ~external_change_detected /\ mtime \in Int
      BY <2>1, <2>3 DEF FlagInv, OwnWrite, TypeOK
    <3>2. ~(disk[file_path].time > mtime)
      BY <3>1
    <3>3. external_change_detected' = FALSE
      BY <2>2, <3>1, <3>2
    <3>4. QED
      BY <1>1, <2>1, <3>3
  <2>4. CASE ~OwnWrite
    BY <2>1, <2>4 DEF FlagInv, OwnWrite, Exists
  <2>5. QED
    BY <2>3, <2>4
<1>10. CASE \E f \in Files : ExternalWrite(f)
  <2>1. PICK f \in Files, t \in Texts, ending \in LineEndings : Write(f, t, ending, "other")
    BY <1>10 DEF ExternalWrite
  <2>2. ending \in {"LF", "CRLF"}
    BY EditorFileAssumption
  <2>3. UNCHANGED <<file_path, mtime, step, external_change_detected>>
    BY <1>10 DEF ExternalWrite, editorVars
  <2>4. file_path' \in {file_path, f} /\ external_change_detected' \in {FALSE, external_change_detected}
    BY <2>3
  <2>5. QED
    BY <2>1, <2>2, <2>3, <2>4, OtherWrite
<1>11. CASE \E f \in Files : ExternalDelete(f)
  <2>1. PICK f \in Files : disk' = [disk EXCEPT ![f] = Absent]
    BY <1>11 DEF ExternalDelete
  <2>2. disk \in [Files -> RawType \cup {Absent}]
    BY DEF TypeOK
  <2>3. UNCHANGED <<file_path, mtime, step, external_change_detected>>
    BY <1>11 DEF ExternalDelete, editorVars
  <2>4. Exists(Opened)' => Exists(Opened) /\ disk'[Opened] = disk[Opened]
    BY <2>1, <2>2 DEF Exists
  <2>5. QED
    BY <2>3, <2>4 DEF FlagInv, OwnWrite
<1>12. CASE UNCHANGED vars
  BY <1>1, <1>12 DEF vars, editorVars, diskVars
<1>13. QED
  BY <1>2, <1>3, <1>5, <1>6, <1>7, <1>8, <1>9, <1>10, <1>11, <1>12 DEF Next

(* What the editor saved under the name it opened it never takes for        *)
(* another program's change, if the user does not choose that name for      *)
(* Save As.                                                                 *)
THEOREM FlagMeansOtherHolds ==
  ASSUME Opened \notin SaveAsTo
  PROVE  Spec => []FlagMeansOther
<1>1. FlagInv /\ TypeOK => FlagMeansOther
  <2> SUFFICES ASSUME FlagInv, TypeOK, step = "idle", external_change_detected,
                      file_path = Opened, Exists(file_path)
               PROVE  disk[file_path].author # "editor"
    BY DEF FlagMeansOther
  <2>1. QED
    BY DEF FlagInv, OwnWrite
<1>2. TypeOK /\ FlagInv /\ [Next]_vars => FlagInv'
  BY FlagStep
<1>3. QED
  BY <1>1, <1>2, FlagInit, TypeOKHolds, PTL DEF Spec

(***************************************************************************)
(* Closing without a question.  A write the editor has not seen is later    *)
(* than the time it remembers (NoticedOrPending), and a file that is not    *)
(* later holds the text the mark was set by (SeenIsSynced).                 *)
(***************************************************************************)
StatInv == step = "stat" => Exists(file_path) /\ disk[file_path].text = text /\ text = synced

NoticedOrPending ==
  step = "idle" /\ ~event /\ ~external_change_detected /\ Exists(file_path)
    => disk[file_path].time <= mtime

SeenIsSynced ==
  step = "idle" /\ Exists(file_path) /\ disk[file_path].time <= mtime
    => disk[file_path].text = synced /\ (text # synced => modified)

CloseInv ==
  /\ file_path \in Files \ ReadOnly /\ mtime # 0
  /\ StatInv /\ NoticedOrPending /\ SeenIsSynced

(* A write while nothing is saved or loaded, whoever makes it.              *)
LEMMA IdleWrite ==
  ASSUME TypeOK, CloseInv, step = "idle", NEW f \in Files, NEW t \in Texts,
         NEW ending \in {"LF", "CRLF"}, NEW author \in {"editor", "failed", "other"},
         Write(f, t, ending, author),
         file_path' = f \/ UNCHANGED <<file_path, versions, at, modified, synced>>,
         file_path' \in Files \ ReadOnly, UNCHANGED <<mtime, step>>
  PROVE  CloseInv'
<1>1. Wrote(f, t, author)
  BY WriteTyped
<1>2. event' = TRUE /\ step' = "idle" /\ mtime' = mtime /\ mtime \in 0..clock /\ clock \in Nat
  BY <1>1, EditorFileAssumption DEF Wrote, TypeOK
<1>3. disk'[f].time > mtime'
  BY <1>1, <1>2 DEF Wrote
<1>4. CASE file_path' = f
  <2>1. ~(disk'[f].time <= mtime')
    BY <1>1, <1>2 DEF Wrote
  <2>2. SeenIsSynced'
    BY <1>4, <2>1 DEF SeenIsSynced
  <2>3. QED
    BY <1>2, <2>2 DEF CloseInv, StatInv, NoticedOrPending
<1>5. CASE file_path' # f
  <2>1. UNCHANGED <<file_path, versions, at, modified, synced>>
    BY <1>5
  <2>2. text' = text
    BY <2>1 DEF text, Document!Document
  <2>3. disk'[file_path] = disk[file_path] /\ (Exists(file_path)' <=> Exists(file_path))
    BY <1>1, <1>5, <2>1 DEF Wrote, Exists, CloseInv
  <2>4. SeenIsSynced'
    BY <1>2, <2>1, <2>2, <2>3 DEF SeenIsSynced, CloseInv
  <2>5. QED
    BY <1>2, <2>4 DEF CloseInv, StatInv, NoticedOrPending
<1>6. QED
  BY <1>4, <1>5

LEMMA CloseInit ==
  ASSUME Opened \in Files \ ReadOnly, Init
  PROVE  CloseInv
<1>1. PICK t \in Texts, ending \in LineEndings :
        /\ versions = <<t>> /\ at = 1 /\ synced = t
        /\ disk = [f \in Files |-> IF f = Opened THEN Raw(t, ending, "other", 1) ELSE Absent]
  BY DEF Init
<1>2. ending \in {"LF", "CRLF"} /\ 1 \in 1..MaxTime /\ Opened # NoFile
  BY EditorFileAssumption
<1>3. Raw(t, ending, "other", 1).text = t /\ Raw(t, ending, "other", 1).time = 1
  BY <1>2, RawTyped
<1>4. disk[Opened].text = t /\ disk[Opened].time = 1
  BY <1>1, <1>3
<1>5. file_path = Opened /\ mtime = 1 /\ step = "idle"
  BY <1>2 DEF Init
<1>6. text = t
  BY <1>1 DEF text, Document!Document
<1>7. QED
  BY <1>1, <1>4, <1>5, <1>6 DEF CloseInv, StatInv, NoticedOrPending, SeenIsSynced

LEMMA CloseStep ==
  ASSUME Interrupts = FALSE, TypeOK, CloseInv, [Next]_vars
  PROVE  CloseInv'
<1>0. /\ Typed /\ DocumentOK /\ text \in Texts /\ Torn \in Texts /\ line_ending \in {"LF", "CRLF"}
      /\ mtime \in 0..clock /\ file_path \in Files \ ReadOnly
  BY TextTyped, TypeParts, EditorFileAssumption DEF Typed, CloseInv
<1>1. ASSUME UNCHANGED documentVars
      PROVE  text' = text
  BY <1>1 DEF documentVars, text, Document!Document
<1>2. CASE \E t \in Texts : Edit(t)
  <2>1. modified' = TRUE /\ UNCHANGED <<file_path, disk, mtime, step, external_change_detected, event, synced>>
        /\ step = "idle"
    BY <1>2 DEF Edit, diskVars
  <2>2. QED
    BY <2>1 DEF CloseInv, StatInv, NoticedOrPending, SeenIsSynced, Exists
<1>3. CASE UndoRedo
  <2>1. UNCHANGED <<file_path, disk, mtime, step, external_change_detected, event>> /\ step = "idle"
    BY <1>3 DEF UndoRedo, diskVars
  <2>2. Exists(file_path) =>
          /\ modified' = (disk[file_path].text # text' \/ disk[file_path].ending # "LF")
          /\ synced' = disk[file_path].text
    BY <1>3 DEF UndoRedo, Recheck
  <2>3. QED
    BY <2>1, <2>2 DEF CloseInv, StatInv, NoticedOrPending, SeenIsSynced, Exists
<1>4. CASE Save \/ ForceSave
  <2>1. SaveOver(FALSE) /\ step = "idle" /\ file_path \in Files /\ file_path \notin ReadOnly
    BY <1>0, <1>4 DEF Save, ForceSave, SaveOver
  <2>2. text' = text
    BY <1>1, <2>1 DEF SaveOver
  <2>3. CASE Saved(file_path) /\ step' = "stat"
    <3>1. Write(file_path, text, line_ending, "editor") /\ file_path' = file_path /\ synced' = text
      BY <2>3 DEF Saved
    <3>2. Wrote(file_path, text, "editor")
      BY <1>0, <2>1, <3>1, WriteTyped
    <3>3. StatInv'
      BY <2>1, <2>2, <3>1, <3>2 DEF Wrote, StatInv, Exists
    <3>4. QED
      BY <1>0, <2>1, <2>3, <3>1, <3>3 DEF SaveOver, CloseInv, NoticedOrPending, SeenIsSynced
  <2>4. CASE NotSaved(file_path) /\ UNCHANGED step
    <3>1. Write(file_path, Torn, line_ending, "failed")
      BY <2>1, <2>4 DEF NotSaved
    <3>2. file_path' = file_path /\ mtime' = mtime
      BY <2>1, <2>4 DEF NotSaved, SaveOver
    <3>3. QED
      BY <1>0, <2>1, <2>4, <3>1, <3>2, IdleWrite
  <2>5. QED
    BY <2>1, <2>3, <2>4 DEF SaveOver
<1>5. CASE \E f \in SaveAsTo : SaveAs(f)
  <2>1. PICK f \in SaveAsTo : SaveAs(f)
    BY <1>5
  <2>2. f \in Files /\ step = "idle" /\ UNCHANGED <<mtime, step, versions, at>>
    BY <2>1, EditorFileAssumption DEF SaveAs, documentVars
  <2>3. CASE Saved(f)
    <3>1. Write(f, text, line_ending, "editor") /\ file_path' = f /\ f \notin ReadOnly
      BY <2>3 DEF Saved
    <3>2. QED
      BY <1>0, <2>2, <3>1, IdleWrite
  <2>4. CASE NotSaved(f)
    <3>1. UNCHANGED <<file_path, versions, at, modified, synced>>
      BY <2>2, <2>4 DEF NotSaved
    <3>2. CASE Write(f, Torn, line_ending, "failed")
      BY <1>0, <2>2, <3>1, <3>2, IdleWrite
    <3>3. CASE UNCHANGED diskVars
      <4>1. UNCHANGED external_change_detected
        BY <2>1 DEF SaveAs
      <4>2. text' = text
        BY <3>1 DEF text, Document!Document
      <4>3. QED
        BY <2>2, <3>1, <3>3, <4>1, <4>2
           DEF diskVars, CloseInv, StatInv, NoticedOrPending, SeenIsSynced, Exists
    <3>4. QED
      BY <2>4, <3>2, <3>3 DEF NotSaved
  <2>5. QED
    BY <2>1, <2>3, <2>4 DEF SaveAs
<1>6. CASE Reload
  <2>1. Exists(file_path) /\ disk[file_path].text \in Texts
    BY <1>6, FileTyped DEF Reload
  <2>2. text' = disk[file_path].text /\ synced' = disk[file_path].text
    BY <1>6, <2>1, LoadTyped DEF Reload
  <2>3. step' = "stat" /\ UNCHANGED <<file_path, mtime, disk>>
    BY <1>6 DEF Reload, diskVars
  <2>4. QED
    BY <2>1, <2>2, <2>3 DEF CloseInv, StatInv, NoticedOrPending, SeenIsSynced, Exists
<1>7. CASE Stat
  <2>1. Exists(file_path) /\ disk[file_path].text = text /\ text = synced
    BY <1>7 DEF Stat, CloseInv, StatInv
  <2>2. disk[file_path].time \in 1..clock /\ clock \in Nat
    BY <2>1, FileTyped, EditorFileAssumption DEF TypeOK
  <2>3. mtime' = disk[file_path].time /\ step' = "idle" /\ UNCHANGED <<file_path, disk, synced, modified>>
    BY <1>7, <2>1 DEF Stat, diskVars
  <2>4. text' = text
    BY <1>1, <1>7 DEF Stat
  <2>5. mtime' # 0 /\ disk'[file_path'].time <= mtime'
    BY <2>2, <2>3
  <2>6. QED
    BY <2>1, <2>3, <2>4, <2>5 DEF CloseInv, StatInv, NoticedOrPending, SeenIsSynced, Exists
<1>8. CASE Notice
  <2>1. UNCHANGED <<file_path, disk, mtime, step, synced, modified>> /\ text' = text /\ step = "idle"
    BY <1>1, <1>8 DEF Notice
  <2>2. external_change_detected' =
          (external_change_detected \/ (Exists(file_path) /\ mtime # 0 /\ disk[file_path].time > mtime))
    BY <1>8 DEF Notice
  <2>3. Exists(file_path) => disk[file_path].time \in Nat /\ mtime \in Nat
    BY <1>0, FileTyped
  <2>4. Exists(file_path) /\ ~external_change_detected' => disk[file_path].time <= mtime
    <3> SUFFICES ASSUME Exists(file_path), ~external_change_detected'
                 PROVE  disk[file_path].time <= mtime
      OBVIOUS
    <3>1. mtime # 0
      BY DEF CloseInv
    <3>2. ~(disk[file_path].time > mtime)
      BY <2>2, <3>1
    <3>3. QED
      BY <2>3, <3>2
  <2>5. QED
    BY <2>1, <2>4 DEF CloseInv, StatInv, NoticedOrPending, SeenIsSynced, Exists
<1>9. CASE \E f \in Files : ExternalWrite(f)
  <2>1. PICK f \in Files, t \in Texts, ending \in LineEndings : Write(f, t, ending, "other")
    BY <1>9 DEF ExternalWrite
  <2>2. ending \in {"LF", "CRLF"} /\ step = "idle"
    BY <1>9, EditorFileAssumption DEF ExternalWrite
  <2>3. UNCHANGED <<file_path, versions, at, modified, synced>> /\ UNCHANGED <<mtime, step>>
    BY <1>9 DEF ExternalWrite, editorVars, documentVars
  <2>4. file_path' \in Files \ ReadOnly
    BY <1>0, <2>3
  <2>5. QED
    BY <2>1, <2>2, <2>3, <2>4, IdleWrite
<1>10. CASE \E f \in Files : ExternalDelete(f)
  <2>1. PICK f \in Files : disk' = [disk EXCEPT ![f] = Absent]
    BY <1>10 DEF ExternalDelete
  <2>2. disk \in [Files -> RawType \cup {Absent}]
    BY DEF TypeOK
  <2>3. UNCHANGED <<file_path, mtime, step, synced, modified>> /\ text' = text
        /\ step = "idle" /\ event' = TRUE
    BY <1>1, <1>10 DEF ExternalDelete, editorVars
  <2>4. Exists(file_path)' => Exists(file_path) /\ disk'[file_path] = disk[file_path]
    BY <2>1, <2>2, <2>3 DEF Exists
  <2>5. QED
    BY <2>3, <2>4 DEF CloseInv, StatInv, NoticedOrPending, SeenIsSynced
<1>11. CASE UNCHANGED vars
  <2>1. text' = text
    BY <1>1, <1>11 DEF vars
  <2>2. QED
    BY <1>11, <2>1 DEF vars, editorVars, diskVars, CloseInv, StatInv, NoticedOrPending, SeenIsSynced, Exists
<1>12. QED
  BY <1>2, <1>3, <1>4, <1>5, <1>6, <1>7, <1>8, <1>9, <1>10, <1>11 DEF Next

(* Once the watcher's event is handled, a document that is closed without a *)
(* question is in its file, if there is one: for every file that could be   *)
(* written when it was opened, and if no other program writes between the   *)
(* editor's access to the file and the reading of its time.                 *)
THEOREM SafeToCloseHolds ==
  ASSUME Interrupts = FALSE, Opened \in Files \ ReadOnly
  PROVE  Spec => []SafeToClose
<1>1. CloseInv => SafeToClose
  BY DEF CloseInv, SafeToClose, AsksOnClose, NoticedOrPending, SeenIsSynced
<1>2. Init => CloseInv
  BY CloseInit
<1>3. TypeOK /\ CloseInv /\ [Next]_vars => CloseInv'
  BY CloseStep
<1>4. QED
  BY <1>1, <1>2, <1>3, TypeOKHolds, PTL DEF Spec
=============================================================================
