---------------------------- MODULE SessionStore ----------------------------
(***************************************************************************)
(* The session of a project on disk: session.toml, which lists its panels, *)
(* and a file for each untitled document with unsaved text.  A save writes  *)
(* the documents, then session.toml, then removes the files it does not     *)
(* list; a start reads them back, whatever a crash left in between.         *)
(*                                                                         *)
(* Only untitled documents are modelled: of the other panels session.toml   *)
(* keeps a description and no text.  One process.                            *)
(***************************************************************************)
EXTENDS Integers, Sequences, FiniteSets, SequencesExt

CONSTANTS
  Projects,
  Inside,           \* <<p, q>>: the directory of p is inside that of q
  Names,            \* names of files; bound: those in use at a time
  MaxEditors,       \* bound: documents when another one is opened
  MaxShared,        \* bound: files that several documents have
  Cut,              \* what a crash or a full disk may cut short, \subseteq {"buffer", "session"}
  Removable,        \* projects whose directory of sessions the user may have removed
  None, Torn        \* no file; a session.toml that cannot be parsed

ASSUME SessionAssumption ==
  /\ Inside \subseteq Projects \X Projects
  /\ IsFiniteSet(Names) /\ MaxEditors \in Nat \ {0} /\ MaxShared \in Nat
  /\ Cut \subseteq {"buffer", "session"}
  /\ Removable \subseteq Projects /\ None # Torn
  /\ None \notin Names /\ None \notin Seq(Names) /\ Torn \notin Seq(Names)

VARIABLES
  running,   \* the process lives
  project,   \* App::project_root
  editors,   \* the untitled documents
  step,      \* where save_session is: "idle", "buffers", "clean", "done"
  at,        \* the document to_session is at
  panels,    \* the files the Session it builds names
  after      \* what the save is for
VARIABLES
  session,   \* session.toml of each project
  buffers    \* the files of each project: None, "blank" or "text"
VARIABLES    \* history
  kept,      \* files saved, of one document, not given up by the user since and not out of reach
  shared     \* files that were given to several documents by one save

saveVars == <<step, at, panels, after>>
diskVars == <<session, buffers>>
historyVars == <<kept, shared>>
vars == <<running, project, editors, saveVars, diskVars, historyVars>>

NoFiles == [n \in Names |-> None]

(* An editor without a path: buffer_is_modified(), whether its text is only *)
(* blanks, and unsaved_buffer_file.                                         *)
Untitled == [modified |-> FALSE, blank |-> TRUE, file |-> None]
Restored(n) == [modified |-> TRUE, blank |-> FALSE, file |-> n]
Editors == [modified : BOOLEAN, blank : BOOLEAN, file : Names \cup {None}]

For(kind, p) == [kind |-> kind, project |-> p]
Continue == For("continue", None)
Purposes == {Continue, For("quit", None)} \cup {For(k, p) : k \in {"switch", "new", "move"}, p \in Projects}

Init ==
  /\ running = FALSE /\ project \in Projects /\ editors = <<>>
  /\ step = "idle" /\ at = 1 /\ panels = <<>> /\ after = Continue
  /\ session = [p \in Projects |-> None]
  /\ buffers = [p \in Projects |-> NoFiles]
  /\ kept = [p \in Projects |-> {}] /\ shared = {}

Readable(p) == session[p] \notin {None, Torn}
Saved(p) == {n \in Names : buffers[p][n] = "text"}
NestedIn(p) == {q \in Projects : <<q, p>> \in Inside}

-----------------------------------------------------------------------------
(* Saving. *)

(* generate_unsaved_filename: a time that has not been, and so a name that  *)
(* is nowhere.                                                              *)
Fresh == {n \in Names : /\ \A i \in DOMAIN editors : editors[i].file # n
                        /\ \A p \in Projects : /\ buffers[p][n] = None
                                               /\ Readable(p) => n \notin ToSet(session[p])}

Nameless(eds) == {i \in DOMAIN eds : eds[i].modified /\ eds[i].file = None}

(* A name is a time in milliseconds, so that documents named one after the  *)
(* other may get the same.                                                  *)
Namings(eds) ==
  {names \in [Nameless(eds) -> Fresh] :
     \A i, j, k \in Nameless(eds) : i < j /\ j < k /\ names[i] = names[k] => names[j] = names[i]}

(* save_session.  All documents that need a name get it in one loop; the    *)
(* rest is done step by step.                                               *)
Save(eds, purpose) ==
  /\ \E names \in Namings(eds) :
       /\ editors' = [i \in DOMAIN eds |-> IF i \in Nameless(eds) THEN [eds[i] EXCEPT !.file = names[i]]
                                           ELSE eds[i]]
       /\ shared' = (shared \ Fresh)
                       \cup {names[i] : i \in {j \in Nameless(eds) : \E k \in Nameless(eds) :
                                                                       k # j /\ names[k] = names[j]}}
       /\ Cardinality(shared') <= MaxShared
  /\ step' = "buffers" /\ at' = 1 /\ panels' = <<>> /\ after' = purpose

Unsaved(e) == e.modified /\ ~e.blank

(* Editor::to_session writes the text of a document.  A write that fails is *)
(* logged, and the document left out.                                       *)
WriteBuffer ==
  /\ step = "buffers" /\ at <= Len(editors) /\ Unsaved(editors[at])
  /\ at' = at + 1
  /\ LET n == editors[at].file
     IN  \/ /\ buffers' = [buffers EXCEPT ![project][n] = "text"]
            /\ panels' = Append(panels, n)
            /\ kept' = IF Readable(project) /\ n \notin shared THEN [kept EXCEPT ![project] = @ \cup {n}] ELSE kept
         \/ /\ \/ UNCHANGED buffers
               \/ "buffer" \in Cut /\ buffers' = [buffers EXCEPT ![project][n] = "blank"]
            /\ kept' = [kept EXCEPT ![project] = @ \ {n}]
            /\ UNCHANGED panels
  /\ UNCHANGED <<running, project, editors, step, after, session, shared>>

(* A document without unsaved text is left out. *)
SkipEditor ==
  /\ step = "buffers" /\ at <= Len(editors) /\ ~Unsaved(editors[at])
  /\ at' = at + 1
  /\ UNCHANGED <<running, project, editors, step, panels, after, diskVars, historyVars>>

(* Session::save.  An error ends the save before anything is removed. *)
WriteSession ==
  /\ step = "buffers" /\ at > Len(editors)
  /\ \/ /\ session' = [session EXCEPT ![project] = panels]
        /\ kept' = [kept EXCEPT ![project] = @ \cup (ToSet(panels) \ shared)]
        /\ step' = "clean"
     \/ /\ \/ UNCHANGED session
           \/ "session" \in Cut /\ session' = [session EXCEPT ![project] = Torn]
        /\ step' = "done"
        /\ UNCHANGED kept
  /\ UNCHANGED <<running, project, editors, at, panels, after, buffers, shared>>

(* cleanup_stale_buffers *)
CleanupStaleBuffers ==
  /\ step = "clean"
  /\ buffers' = [buffers EXCEPT ![project] = [n \in Names |-> IF n \in ToSet(panels) THEN @[n] ELSE None]]
  /\ step' = "done"
  /\ UNCHANGED <<running, project, editors, at, panels, after, session, historyVars>>

Idle == step' = "idle" /\ at' = 1 /\ panels' = <<>> /\ after' = Continue

Stop == running' = FALSE /\ editors' = <<>> /\ Idle

-----------------------------------------------------------------------------
(* Loading. *)

(* restore_orphaned_buffers: the files with a text that session.toml does   *)
(* not name.                                                                *)
Orphans_None(p) == {}
Orphans_All(p) == Saved(p)
Orphans(p) == Saved(p) \ ToSet(session[p])

(* The sequences that list a set once. *)
Enumerations(S) == Bijection(1..Cardinality(S), S)

(* App::load_session of a project whose session.toml can be read: the       *)
(* documents it lists that have a text, and then the orphans in any order.  *)
Loads(p) ==
  LET listed == {i \in DOMAIN session[p] : session[p][i] \in Saved(p)}
      inOrder == {e \in Enumerations(listed) : \A j, k \in DOMAIN e : j < k => e[j] < e[k]}
  IN  {[i \in DOMAIN e |-> Restored(session[p][e[i]])] \o [i \in DOMAIN o |-> Restored(o[i])] :
         e \in inOrder, o \in Enumerations(Orphans(p))}

(* What the load leaves on disk: blank files are removed. *)
Swept(p) == [n \in Names |-> IF n \in Saved(p) THEN "text" ELSE None]

(* cleanup_old_sessions: the sessions of an age that have no unsaved text. *)
MayGo(q) == session[q] # None /\ Saved(q) = {}

(* One with sessions inside loses its own files, another its directory. *)
Gone(old) ==
  old \cup {q \in Projects : \E p \in old : /\ q \in NestedIn(p)
                                           /\ \A x \in NestedIn(p) \ old : session[x] = None}

(* The program is started, without files to edit, on a project.  One whose  *)
(* session.toml cannot be read opens with the default panels.               *)
Start(p) ==
  /\ ~running /\ running' = TRUE /\ project' = p
  /\ \E old \in SUBSET {q \in Projects \ {p} : MayGo(q)} :
       /\ session' = [q \in Projects |-> IF q \in Gone(old) THEN None ELSE session[q]]
       /\ buffers' = [q \in Projects |-> IF q \in Gone(old) THEN NoFiles
                                         ELSE IF q = p /\ Readable(p) THEN Swept(p)
                                         ELSE buffers[q]]
  /\ IF Readable(p) THEN editors' \in Loads(p) /\ UNCHANGED kept
     ELSE editors' = <<>> /\ kept' = [kept EXCEPT ![p] = {}]
  /\ Idle /\ UNCHANGED shared

-----------------------------------------------------------------------------
(* The user. *)

MayAct == running /\ step = "idle"

Forget(n) == kept' = [kept EXCEPT ![project] = @ \ {n}]

(* handle_new_editor *)
NewEditor ==
  /\ MayAct /\ Len(editors) < MaxEditors
  /\ Save(Append(editors, Untitled), Continue)
  /\ UNCHANGED <<running, project, diskVars, kept>>

(* The document gets a text, or loses the one it has. *)
Edit(i) ==
  /\ MayAct
  /\ editors' = [editors EXCEPT ![i].modified = TRUE, ![i].blank = ~@]
  /\ IF editors[i].blank THEN UNCHANGED kept ELSE Forget(editors[i].file)
  /\ UNCHANGED <<running, project, saveVars, diskVars, shared>>

(* Save As: the document has a path from now on.  Its file goes when the    *)
(* session is next saved.                                                   *)
SaveAs(i) ==
  /\ MayAct
  /\ editors' = RemoveAt(editors, i)
  /\ Forget(editors[i].file)
  /\ UNCHANGED <<running, project, saveVars, diskVars, shared>>

(* close_panel_at_index *)
CloseEditor(i) ==
  /\ MayAct
  /\ buffers' = IF editors[i].file = None THEN buffers
                ELSE [buffers EXCEPT ![project][editors[i].file] = None]
  /\ Forget(editors[i].file)
  /\ Save(RemoveAt(editors, i), Continue)
  /\ UNCHANGED <<running, project, session>>

(* The session is saved for any of many reasons, before the program ends,   *)
(* and before the sessions dialog's choice is carried out.                  *)
SaveFor(purpose) ==
  /\ MayAct
  /\ purpose.kind = "switch" => purpose.project # project /\ session[purpose.project] # None
  /\ purpose.kind = "move" => purpose.project # project /\ project \in Removable
  /\ Save(editors, purpose)
  /\ UNCHANGED <<running, project, diskVars, kept>>

(* Session::delete_session of another project, with all that is inside. *)
DeleteSession(p) ==
  /\ MayAct /\ p \in Removable \ {project} /\ session[p] # None
  /\ LET gone == {p} \cup NestedIn(p)
     IN  /\ session' = [q \in Projects |-> IF q \in gone THEN None ELSE session[q]]
         /\ buffers' = [q \in Projects |-> IF q \in gone THEN NoFiles ELSE buffers[q]]
  /\ kept' = [kept EXCEPT ![p] = {}]
  /\ UNCHANGED <<running, project, editors, saveVars, shared>>

-----------------------------------------------------------------------------
(* What the save was for. *)

Resume ==
  /\ step = "done" /\ after.kind \in {"continue", "quit"}
  /\ IF after.kind = "quit" THEN Stop ELSE Idle /\ UNCHANGED <<running, editors>>
  /\ UNCHANGED <<project, diskVars, historyVars>>

(* switch_to_session.  Any error of it ends App::run. *)
SwitchToSession ==
  /\ step = "done" /\ after.kind = "switch"
  /\ project' = after.project
  /\ \/ /\ Readable(project') /\ editors' \in Loads(project')
        /\ buffers' = [buffers EXCEPT ![project'] = Swept(project')]
        /\ Idle /\ UNCHANGED running
     \/ Stop /\ UNCHANGED buffers
  /\ UNCHANGED <<session, historyVars>>

(* create_new_session: the project's session.toml is removed and a new one  *)
(* saved.                                                                   *)
CreateNewSession ==
  /\ step = "done" /\ after.kind = "new"
  /\ project' = after.project
  /\ session' = [session EXCEPT ![project'] = None]
  /\ kept' = [kept EXCEPT ![project'] = {}]
  /\ \/ Save(<<>>, Continue) /\ UNCHANGED running
     \/ Stop /\ UNCHANGED shared
  /\ UNCHANGED buffers

(* move_session_to: the files are copied, a failure being logged, and the   *)
(* old directory is removed.                                                *)
MoveSessionTo ==
  /\ step = "done" /\ after.kind = "move"
  /\ project' = after.project
  /\ \E copied \in SUBSET {n \in Names : buffers[project][n] # None} :
       LET gone == {project} \cup NestedIn(project)
       IN  /\ session' \in {[q \in Projects |-> IF q \in gone THEN None
                                                ELSE IF q = project' THEN s ELSE session[q]]
                              : s \in {session[project], session[project']}}
           /\ buffers' = [q \in Projects |-> [n \in Names |->
                            IF q \in gone THEN None
                            ELSE IF q = project' /\ n \in copied THEN buffers[project][n]
                            ELSE buffers[q][n]]]
           /\ kept' = [kept EXCEPT ![project] = {},
                        ![project'] = IF session'[project'] \in {None, Torn} THEN {}
                                      ELSE kept[project] \cap copied]
  /\ \/ Save(editors, Continue) /\ UNCHANGED running
     \/ Stop /\ UNCHANGED shared

(* The process is killed, perhaps in the middle of a write. *)
Crash ==
  /\ running /\ Stop
  /\ \/ UNCHANGED <<diskVars, kept>>
     \/ /\ "buffer" \in Cut /\ step = "buffers" /\ at <= Len(editors) /\ Unsaved(editors[at])
        /\ buffers' = [buffers EXCEPT ![project][editors[at].file] = "blank"]
        /\ Forget(editors[at].file)
        /\ UNCHANGED session
     \/ /\ "session" \in Cut /\ step = "buffers" /\ at > Len(editors)
        /\ session' = [session EXCEPT ![project] = Torn]
        /\ UNCHANGED <<buffers, kept>>
  /\ UNCHANGED <<project, shared>>

Next ==
  \/ \E p \in Projects : Start(p) \/ DeleteSession(p)
  \/ NewEditor
  \/ \E i \in DOMAIN editors : Edit(i) \/ SaveAs(i) \/ CloseEditor(i)
  \/ \E purpose \in Purposes : SaveFor(purpose)
  \/ WriteBuffer \/ SkipEditor \/ WriteSession \/ CleanupStaleBuffers
  \/ Resume \/ SwitchToSession \/ CreateNewSession \/ MoveSessionTo
  \/ Crash

Spec == Init /\ [][Next]_vars

-----------------------------------------------------------------------------
(* Types. *)
TypeOK ==
  /\ running \in BOOLEAN /\ project \in Projects /\ editors \in Seq(Editors)
  /\ step \in {"idle", "buffers", "clean", "done"} /\ at \in Nat \ {0}
  /\ panels \in Seq(Names) /\ after \in Purposes
  /\ session \in [Projects -> {None, Torn} \cup Seq(Names)]
  /\ buffers \in [Projects -> [Names -> {None, "blank", "text"}]]
  /\ kept \in [Projects -> SUBSET Names] /\ shared \subseteq Names

(* The unsaved text of an untitled document, once it has been saved, stays  *)
(* on disk until the user gives it up, and is in an editor whenever its     *)
(* project is open: whatever a crash or a full disk left behind, whatever   *)
(* was written when, and whichever sessions were cleaned up, deleted, moved *)
(* or switched between.  The exceptions are named by kept: a write cut       *)
(* short, a session.toml that cannot be read, and a file that several        *)
(* documents share.                                                          *)
SavedSurvives ==
  \A p \in Projects : \A n \in kept[p] :
    /\ buffers[p][n] = "text"
    /\ running /\ project = p => \E i \in DOMAIN editors : editors[i].file = n

(* No two documents share a file, where the one written last would be the    *)
(* only one left, unless one save gave it to both: neither what a crash left, *)
(* nor the orphans opened beside what session.toml names, nor a session      *)
(* moved, opens a file twice.                                                *)
OwnFile ==
  \A i, j \in DOMAIN editors :
    i # j /\ editors[i].file = editors[j].file => editors[i].file \in shared \cup {None}
=============================================================================
