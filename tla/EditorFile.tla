----------------------------- MODULE EditorFile -----------------------------
(***************************************************************************)
(* A document and its local file: when the editor believes that they       *)
(* agree (TextBuffer::modified, FileState), what it writes and what it      *)
(* notices while other programs change the file.                           *)
(*                                                                         *)
(* The document is the UndoTimeline that TextBuffer implements.  Remote     *)
(* files, which are saved by an upload, and the configuration file, which   *)
(* is validated first, are left out.                                       *)
(***************************************************************************)
EXTENDS Integers, Sequences

CONSTANTS
  Texts,         \* what a document may contain
  Multiline,     \* those with a line ending
  Torn,          \* what a failed write leaves behind
  MaxVersions,   \* see UndoTimeline
  Files,
  NoFile,        \* the path of an untitled document
  Absent,        \* the state of a deleted file
  LineEndings,   \* those of the files, \subseteq {"LF", "CRLF"}
  MaxTime        \* bound: writes to the disk

(* The environment of a run. *)
CONSTANTS
  Opened,        \* the file first opened, or NoFile
  SaveAsTo,      \* the files the user may choose for Save As
  ReadOnly,      \* the files the editor may not write
  TornWrites,    \* a write may fail half-way
  Deletes,       \* the files other programs delete
  Interrupts     \* other programs write between the editor's access and its stat

ASSUME EditorFileAssumption ==
  /\ Multiline \subseteq Texts /\ Torn \in Texts
  /\ NoFile \notin Files /\ Opened \in Files \cup {NoFile} /\ SaveAsTo \subseteq Files
  /\ LineEndings # {} /\ LineEndings \subseteq {"LF", "CRLF"}
  /\ ReadOnly \subseteq Files /\ TornWrites \in BOOLEAN
  /\ Deletes \subseteq Files /\ Interrupts \in BOOLEAN
  /\ MaxVersions \in Nat \ {0, 1}
  /\ MaxTime \in Nat \ {0}

VARIABLES versions, at     \* the document and its history
VARIABLES
  modified,                  \* TextBuffer::modified
  line_ending,               \* TextBuffer::line_ending
  file_path,                 \* TextBuffer::file_path
  mtime,                     \* FileState::mtime, 0 for None
  external_change_detected,  \* FileState::external_change_detected
  step                       \* "idle", or "stat": the file was accessed, its time not yet read
VARIABLES
  disk,     \* the files
  clock,    \* the time of the last write
  event     \* the watcher has an event the editor has not handled
VARIABLE
  synced    \* the text last read from the file or written to it (for the properties)

documentVars == <<versions, at>>
editorVars == <<modified, line_ending, file_path, mtime, external_change_detected, step, synced>>
diskVars == <<disk, clock, event>>
vars == <<documentVars, editorVars, diskVars>>

Document == INSTANCE UndoTimeline
text == Document!Document

(* A file's bytes: a text and the ending of its lines, if it has any; who   *)
(* wrote them (for the properties), and when.                              *)
Raw(t, ending, author, time) ==
  [text |-> t, ending |-> IF t \in Multiline THEN ending ELSE "LF", author |-> author, time |-> time]
RawType ==
  [text : Texts, ending : {"LF", "CRLF"}, author : {"editor", "failed", "other"}, time : 1..MaxTime]

ASSUME AbsentAssumption == Absent \notin RawType

Init ==
  /\ \E t \in Texts, ending \in LineEndings :
       LET first == Raw(t, ending, "other", 1)
       IN  /\ versions = <<t>> /\ at = 1
           /\ line_ending = IF Opened = NoFile THEN "LF" ELSE first.ending
           /\ disk = [f \in Files |-> IF f = Opened THEN first ELSE Absent]
           /\ synced = t
  /\ modified = FALSE
  /\ file_path = Opened
  /\ mtime = IF Opened = NoFile THEN 0 ELSE 1
  /\ external_change_detected = FALSE
  /\ step = "idle"
  /\ clock = 1
  /\ event = FALSE

-----------------------------------------------------------------------------
(* The disk. *)

Exists(f) == f \in Files /\ disk[f] # Absent

(* fs::write: a new content at a new time. *)
Write(f, t, ending, author) ==
  /\ clock < MaxTime
  /\ clock' = clock + 1
  /\ disk' = [disk EXCEPT ![f] = Raw(t, ending, author, clock')]
  /\ event' = TRUE

(* Another program writes a file of its own accord. *)
ExternalWrite(f) ==
  /\ step = "idle" \/ Interrupts
  /\ \E t \in Texts, ending \in LineEndings : Write(f, t, ending, "other")
  /\ UNCHANGED <<documentVars, editorVars>>

ExternalDelete(f) ==
  /\ f \in Deletes /\ Exists(f)
  /\ step = "idle" \/ Interrupts
  /\ disk' = [disk EXCEPT ![f] = Absent]
  /\ event' = TRUE
  /\ UNCHANGED <<documentVars, editorVars, clock>>

-----------------------------------------------------------------------------
(* The document. *)

Edit(t) ==
  /\ step = "idle"
  /\ t # text
  /\ Document!Edit(t)
  /\ modified' = TRUE
  /\ UNCHANGED <<line_ending, file_path, mtime, external_change_detected, step, synced, diskVars>>

(* Mutation: the flag is cleared by undo. *)
Recheck_AlwaysClean ==
  /\ modified' = FALSE
  /\ UNCHANGED synced

(* Mutation: undo leaves the flag as it is. *)
Recheck_Never ==
  UNCHANGED <<modified, synced>>

(* is_content_modified: the text, whose lines end in LF, is compared with   *)
(* the bytes of the file; the flag is kept if they cannot be read.          *)
Recheck ==
  \/ /\ Exists(file_path)
     /\ modified' = (disk[file_path].text # text' \/ disk[file_path].ending # "LF")
     /\ synced' = disk[file_path].text
  \/ /\ ~Exists(file_path)
     /\ UNCHANGED <<modified, synced>>

(* TextBuffer::undo, redo. *)
UndoRedo ==
  /\ step = "idle"
  /\ Document!Undo \/ Document!Redo
  /\ Recheck
  /\ UNCHANGED <<line_ending, file_path, mtime, external_change_detected, step, diskVars>>

-----------------------------------------------------------------------------
(* Saving and loading. *)

Saved(f) ==
  /\ f \notin ReadOnly
  /\ Write(f, text, line_ending, "editor")
  /\ modified' = FALSE
  /\ file_path' = f
  /\ synced' = text

(* save_to fails before it writes or in the middle of it: the error is      *)
(* shown, and that is all.                                                  *)
NotSaved(f) ==
  /\ \/ f \in ReadOnly /\ UNCHANGED diskVars
     \/ f \notin ReadOnly /\ TornWrites /\ Write(f, Torn, line_ending, "failed")
  /\ UNCHANGED <<modified, file_path, synced>>

(* save: refused while an external change is known, force_save: not.        *)
SaveOver(seen) ==
  /\ step = "idle"
  /\ file_path # NoFile
  /\ \/ Saved(file_path) /\ step' = "stat" /\ UNCHANGED external_change_detected
     \/ NotSaved(file_path) /\ external_change_detected' = seen /\ UNCHANGED step
  /\ UNCHANGED <<documentVars, line_ending, mtime>>

Save == ~external_change_detected /\ SaveOver(FALSE)

(* force_save clears the flag and then saves. *)
ForceSave == external_change_detected /\ SaveOver(FALSE)

(* save_file_as takes over the path and nothing else of the file's state. *)
SaveAs(f) ==
  /\ step = "idle"
  /\ Saved(f) \/ NotSaved(f)
  /\ UNCHANGED <<documentVars, line_ending, mtime, external_change_detected, step>>

(* reload_from_disk: a new buffer; nothing happens if there is no file.     *)
Reload ==
  /\ step = "idle"
  /\ Exists(file_path)
  /\ Document!Load(disk[file_path].text)
  /\ line_ending' = disk[file_path].ending
  /\ modified' = FALSE
  /\ synced' = disk[file_path].text
  /\ step' = "stat"
  /\ UNCHANGED <<file_path, mtime, external_change_detected, diskVars>>

(* Mutation: the time is not read anew. *)
Stat_KeepsTime ==
  /\ step = "stat"
  /\ external_change_detected' = FALSE
  /\ step' = "idle"
  /\ UNCHANGED <<documentVars, modified, line_ending, file_path, mtime, synced, diskVars>>

(* Mutation: the time of day instead of the file's. *)
Stat_Now ==
  /\ step = "stat"
  /\ mtime' = clock + 1
  /\ external_change_detected' = FALSE
  /\ step' = "idle"
  /\ UNCHANGED <<documentVars, modified, line_ending, file_path, synced, diskVars>>

(* The end of save and of reload_from_disk: the file's time is read. *)
Stat ==
  /\ step = "stat"
  /\ mtime' = IF Exists(file_path) THEN disk[file_path].time ELSE 0
  /\ external_change_detected' = FALSE
  /\ step' = "idle"
  /\ UNCHANGED <<documentVars, modified, line_ending, file_path, synced, diskVars>>

(* OnFsUpdate, RefreshIfStale: check_external_modification, on an event     *)
(* about the file's directory, whoever caused it.                           *)
Notice ==
  /\ step = "idle"
  /\ event
  /\ event' = FALSE
  /\ external_change_detected' =
       (external_change_detected \/ (Exists(file_path) /\ mtime # 0 /\ disk[file_path].time > mtime))
  /\ UNCHANGED <<documentVars, modified, line_ending, file_path, mtime, step, synced, disk, clock>>

Next ==
  \/ \E t \in Texts : Edit(t)
  \/ UndoRedo
  \/ Save \/ ForceSave \/ Reload \/ Stat \/ Notice
  \/ \E f \in SaveAsTo : SaveAs(f)
  \/ \E f \in Files : ExternalWrite(f) \/ ExternalDelete(f)

Spec == Init /\ [][Next]_vars

-----------------------------------------------------------------------------
TypeOK ==
  /\ versions \in Seq(Texts) /\ at \in DOMAIN versions
  /\ modified \in BOOLEAN /\ external_change_detected \in BOOLEAN /\ event \in BOOLEAN
  /\ line_ending \in {"LF", "CRLF"}
  /\ file_path \in Files \cup {NoFile}
  /\ clock \in 1..MaxTime /\ mtime \in 0..clock
  /\ step \in {"idle", "stat"}
  /\ disk \in [Files -> RawType \cup {Absent}]
  /\ \A f \in Files : Exists(f) => disk[f].time <= clock
  /\ synced \in Texts

(* needs_close_confirmation *)
AsksOnClose == modified \/ external_change_detected

(* Once the watcher's event is handled, a document that is closed without a *)
(* question is in its file, if there is one: edits, undo, failed saves and  *)
(* other programs' writes never leave the editor with the only copy         *)
(* unawares.                                                                *)
SafeToClose ==
  step = "idle" /\ ~event /\ ~AsksOnClose /\ Exists(file_path)
    => disk[file_path].text = text

(* A text that is not the one last read or saved is marked as modified,     *)
(* also after undo and redo across a save, as long as nobody deletes the    *)
(* file (undo keeps the flag when it cannot read it).                       *)
UnsavedIsModified == text # synced /\ file_path \notin Deletes => modified

(* What the editor saved itself under the name it opened it does not take   *)
(* for a change by another program.                                         *)
FlagMeansOther ==
  step = "idle" /\ external_change_detected /\ file_path = Opened /\ Exists(file_path)
    => disk[file_path].author # "editor"
=============================================================================
