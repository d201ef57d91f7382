---------------------------- MODULE LocalWorker ----------------------------
(***************************************************************************)
(* The worker threads of local operations (worker/local.rs): what a copy,  *)
(* a move or a delete does to the file system, call by call, while the     *)
(* user pauses and cancels it and calls fail.                              *)
(*                                                                         *)
(* A root is an item of a panel: a file, or a directory of files (deeper   *)
(* trees repeat what one level shows).  What a file contains is named by   *)
(* the path it had at first.  How a question reaches the user, and that    *)
(* nothing else takes its answer, is OperationManager's subject: here the  *)
(* answer is there at once.  Symbolic links are files.                     *)
(***************************************************************************)
EXTENDS Integers, Sequences, FiniteSets, Functions

CONSTANTS
  Roots,       \* names of items, in the sources' directory and in the destination
  Entries,     \* names of files in a directory
  Self,        \* the only "entry" of a plain file
  Absent,      \* no such file
  Fragment,    \* a file that is being written

  Requests,    \* [kind, sources, dest, cross]: see RequestType
  Layouts,     \* [dirs, files]: file systems the worker may find
  RenameTo     \* [Roots -> names the user may type for an item]

Paths == Roots \X (Entries \cup {Self})

(* kind; the sources in order; the root each goes to; those on another device. *)
RequestType ==
  [kind : {"copy", "move", "delete"}, sources : Seq(Roots), dest : [Roots -> Roots], cross : SUBSET Roots]
LayoutType == [dirs : SUBSET Roots, files : SUBSET Paths]

ASSUME LocalWorkerAssumption ==
  /\ Self \notin Entries /\ Absent \notin Paths /\ Fragment \notin Paths /\ Absent # Fragment
  /\ IsFiniteSet(Entries)
  /\ Requests \subseteq RequestType /\ Layouts \subseteq LayoutType
  /\ RenameTo \in [Roots -> SUBSET Roots]

(* The sources of a request are different items, and no name that one of   *)
(* them may go to is that of a source, or one that another may go to.      *)
Goals(q, s) == {q.dest[s]} \cup RenameTo[s]
Apart(requests) ==
  \A q \in requests :
    /\ \A i, j \in DOMAIN q.sources : q.sources[i] = q.sources[j] => i = j
    /\ \A s \in Range(q.sources) : Goals(q, s) \cap Range(q.sources) = {}
    /\ \A s, t \in Range(q.sources) : s # t => Goals(q, s) \cap Goals(q, t) = {}

(* The names the user types are not those of files that are there. *)
NamesFree == \A r \in Roots, l \in Layouts : \A p \in l.files : p[1] \notin RenameTo[r]

VARIABLES
  request, layout,   \* fixed
  disk,              \* [Paths -> what the file contains]
  dirs,              \* the roots that are directories
  control,           \* OperationControl
  step,              \* where the thread is
  left,              \* the sources not yet taken up, the current one first
  todo,              \* the entries of the current source still to be copied or deleted
  target,            \* the path being written
  mode,              \* ConflictContext::conflict_mode
  placed,            \* final_dest of every source taken up, its own root if it was skipped
  copied,            \* copied_sources
  counts,            \* files_copied, skipped_files, total_files
  result

fsVars == <<disk, dirs>>
threadVars == <<step, left, todo, target, mode, placed, copied, counts, result>>
vars == <<request, layout, fsVars, control, threadVars>>

FilesOf(r) == {e \in Entries \cup {Self} : disk[<<r, e>>] # Absent}
Exists(r) == r \in dirs \/ FilesOf(r) # {}

Source == Head(left)
IsMove == request.kind = "move"
Dest(r) == request.dest[r]

Init ==
  /\ request \in Requests /\ layout \in Layouts
  /\ dirs = layout.dirs
  /\ disk = [p \in Paths |-> IF p \in layout.files THEN p ELSE Absent]
  /\ control = [cancelled |-> FALSE, paused |-> FALSE]
  /\ step = "scan"
  /\ left = request.sources
  /\ todo = {} /\ target = Absent
  /\ mode = "Ask"
  /\ placed = [r \in Roots |-> r]
  /\ copied = <<>>
  /\ counts = [files |-> 0, skipped |-> 0, total |-> 0]
  /\ result = "none"

-----------------------------------------------------------------------------
(* The user. *)

Pause == ~control.paused /\ control' = [control EXCEPT !.paused = TRUE]
Resume == control.paused /\ control' = [control EXCEPT !.paused = FALSE]
Cancel == ~control.cancelled /\ control' = [control EXCEPT !.cancelled = TRUE]

User ==
  /\ result = "none"
  /\ Pause \/ Resume \/ Cancel
  /\ UNCHANGED <<request, layout, fsVars, threadVars>>

-----------------------------------------------------------------------------
(* The end of the thread, and its early returns. *)

Return(outcome) ==
  /\ step' = "done"
  /\ result' = outcome
  /\ left' = <<>> /\ todo' = {} /\ target' = Absent
  /\ UNCHANGED <<mode, placed, copied, counts>>

(* check_cancelled and wait_if_paused *)
Cancelled == control.cancelled /\ Return("Cancelled")
Running == ~control.cancelled /\ ~control.paused

Goto(s) == step' = s /\ UNCHANGED result

Unlink(path) == disk' = [disk EXCEPT ![path] = Absent]

(* Mutation: there is no guard. *)
DropPartial_Kept(path) == UNCHANGED disk

(* PartialFile::drop, on every way out of copy_file but keep(). *)
DropPartial(path) == Unlink(path)

-----------------------------------------------------------------------------
(* Scanning: the totals.  A move counts its sources, a delete also directories. *)

FileCount(r) ==
  Cardinality(FilesOf(r)) + (IF request.kind = "delete" /\ r \in dirs THEN 1 ELSE 0)
Total ==
  LET sum[i \in 0 .. Len(request.sources)] == IF i = 0 THEN 0 ELSE sum[i - 1] + FileCount(request.sources[i])
  IN  sum[Len(request.sources)]

Scan ==
  /\ step = "scan"
  /\ \/ /\ ~IsMove /\ Cancelled
     \/ /\ IsMove \/ ~control.cancelled
        /\ counts' = [counts EXCEPT !.total = IF IsMove THEN Len(request.sources) ELSE Total]
        /\ Goto("top")
        /\ UNCHANGED <<left, todo, target, mode, placed, copied>>
  /\ UNCHANGED fsVars

-----------------------------------------------------------------------------
(* One source: what to do if its destination is taken. *)

(* ConflictContext::check_conflict: [act, to, mode]. *)
Action(act, to, next) == [act |-> act, to |-> to, mode |-> next]

(* Mutation: the first number will do. *)
Unique_Unchecked(r) == Roots \ (Range(request.sources) \cup {r})

(* generate_unique_path *)
Unique(r) == {n \in Roots \ Range(request.sources) : ~Exists(n)}

Answers(r, d) ==
  {Action("Proceed", d, m) : m \in {"Ask", "OverwriteAll"}} \cup
  {Action("Skip", d, m) : m \in {"Ask", "SkipAll"}} \cup
  {Action("Proceed", n, "Ask") : n \in RenameTo[r]} \cup
  {Action("Proceed", n, "RenameAll") : n \in Unique(d)} \cup
  {Action("Cancel", d, "Ask")}

CheckConflict(r, d) ==
  IF ~Exists(d) THEN {Action("Proceed", d, mode)}
  ELSE CASE mode = "Ask" -> Answers(r, d)
         [] mode = "OverwriteAll" -> {Action("Proceed", d, mode)}
         [] mode = "SkipAll" -> {Action("Skip", d, mode)}
         [] mode = "RenameAll" -> {Action("Proceed", n, mode) : n \in Unique(d)}

(* The head of the loop over the sources. *)
TakeUp ==
  /\ step = "top" /\ left # <<>> /\ request.kind # "delete"
  /\ \/ Cancelled
     \/ /\ ~control.cancelled
        /\ ~Exists(Source) /\ Return("Failed")
     \/ /\ ~control.cancelled
        /\ Exists(Source)
        /\ \E a \in CheckConflict(Source, Dest(Source)) :
             \/ a.act = "Cancel" /\ Return("Cancelled")
             \/ /\ a.act = "Skip"
                /\ left' = Tail(left)
                /\ counts' = [counts EXCEPT !.skipped = @ + 1]
                /\ mode' = a.mode
                /\ UNCHANGED <<step, todo, target, placed, copied, result>>
             \/ /\ a.act = "Proceed"
                /\ placed' = [placed EXCEPT ![Source] = a.to]
                /\ mode' = a.mode
                /\ Goto(IF IsMove THEN "rename" ELSE "copy")
                /\ UNCHANGED <<left, todo, target, copied, counts>>
  /\ UNCHANGED fsVars

-----------------------------------------------------------------------------
(* fs::rename *)

(* A directory only replaces an empty one, a file no directory. *)
MayReplace(r, to) ==
  IF r \in dirs THEN to = r \/ ~Exists(to) \/ (to \in dirs /\ FilesOf(to) = {})
  ELSE to \notin dirs

Moved(r, to) ==
  /\ disk' = [p \in Paths |-> IF p[1] = to THEN disk[<<r, p[2]>>]
                              ELSE IF p[1] = r THEN Absent ELSE disk[p]]
  /\ dirs' = IF r \in dirs THEN (dirs \ {r}) \cup {to} ELSE dirs

(* Mutation: the fallback copies without a rename, but the source counts as moved. *)
Rename_ForgetsFallback ==
  /\ step = "rename"
  /\ left' = Tail(left)
  /\ Goto("top")
  /\ counts' = [counts EXCEPT !.files = @ + 1]
  /\ UNCHANGED <<todo, target, mode, placed, copied>>
  /\ IF Source \in request.cross THEN UNCHANGED fsVars ELSE Moved(Source, placed[Source])

(* The source is renamed, or scanned to be copied from another device, or it fails. *)
Rename ==
  /\ step = "rename"
  /\ \/ /\ Source \notin request.cross /\ MayReplace(Source, placed[Source])
        /\ Moved(Source, placed[Source])
        /\ left' = Tail(left)
        /\ counts' = [counts EXCEPT !.files = @ + 1]
        /\ Goto("top")
        /\ UNCHANGED <<todo, target, mode, placed, copied>>
     \/ /\ Source \in request.cross
        /\ \/ Source \in dirs /\ Cancelled
           \/ /\ Source \in dirs => ~control.cancelled
              /\ counts' = [counts EXCEPT !.total = @ - 1 + FileCount(Source)]
              /\ Goto("copy")
              /\ UNCHANGED <<left, todo, target, mode, placed, copied>>
        /\ UNCHANGED fsVars
     \/ Return("Failed") /\ UNCHANGED fsVars

-----------------------------------------------------------------------------
(* copy_directory and copy_file *)

(* The destination directory, and the list of what is to go into it. *)
BeginCopy ==
  /\ step = "copy"
  /\ \/ Cancelled /\ UNCHANGED fsVars
     \/ /\ Running
        /\ Source \in dirs => Self \notin FilesOf(placed[Source])
        /\ todo' = FilesOf(Source)
        /\ dirs' = IF Source \in dirs THEN dirs \cup {placed[Source]} ELSE dirs
        /\ Goto("open")
        /\ UNCHANGED <<left, target, mode, placed, copied, counts, disk>>
     \/ Running /\ Source \in dirs /\ Return("Failed") /\ UNCHANGED fsVars

Into(e) == <<placed[Source], e>>
From(e) == <<Source, e>>

(* A file is opened, and its destination emptied.  If that cannot be done   *)
(* the guard, armed before, still removes what is there (unless it is a     *)
(* directory).                                                              *)
OpenFile(e) ==
  /\ step = "open"
  /\ \/ Cancelled /\ UNCHANGED fsVars
     \/ /\ Running
        /\ Into(e)[1] \in dirs => e # Self
        /\ disk' = [disk EXCEPT ![Into(e)] = Fragment]
        /\ todo' = todo \ {e}
        /\ target' = Into(e)
        /\ Goto("write")
        /\ UNCHANGED <<left, mode, placed, copied, counts, dirs>>
     \/ Running /\ Return("Failed") /\ UNCHANGED fsVars        \* File::open
     \/ Running /\ Return("Failed") /\ DropPartial(Into(e)) /\ UNCHANGED dirs   \* File::create

(* The bytes are copied, and counted against the size the file had before: *)
(* a source that has been emptied meanwhile, being the target, is short.    *)
WriteFile ==
  LET e == target[2] IN
  /\ step = "write"
  /\ \/ Cancelled /\ DropPartial(target) /\ UNCHANGED dirs
     \/ /\ Running
        /\ disk[From(e)] # Fragment
        /\ disk' = [disk EXCEPT ![target] = disk[From(e)]]
        /\ counts' = [counts EXCEPT !.files = @ + 1]
        /\ target' = Absent
        /\ Goto("open")
        /\ UNCHANGED <<left, todo, mode, placed, copied, dirs>>
     \/ Running /\ Return("Failed") /\ DropPartial(target) /\ UNCHANGED dirs

(* Mutation: a source is taken for copied before its last file is. *)
SourceCopied_Early ==
  /\ step = "open"
  /\ Cardinality(todo) <= 1
  /\ copied' = Append(copied, Source)
  /\ left' = Tail(left)
  /\ todo' = {}
  /\ Goto("top")
  /\ UNCHANGED <<target, mode, placed, counts, fsVars>>

SourceCopied ==
  /\ step = "open"
  /\ todo = {}
  /\ copied' = Append(copied, Source)
  /\ left' = Tail(left)
  /\ Goto("top")
  /\ UNCHANGED <<todo, target, mode, placed, counts, fsVars>>

-----------------------------------------------------------------------------
(* The sources that were copied for a move, and the end. *)

EndOfSources ==
  /\ step = "top" /\ left = <<>>
  /\ \/ /\ IsMove /\ copied # <<>>
        /\ Goto("clean")
        /\ UNCHANGED <<left, todo, target, mode, placed, copied, counts>>
     \/ /\ ~(IsMove /\ copied # <<>>)
        /\ Return(IF counts.skipped > 0 THEN "PartialSuccess" ELSE "Success")
  /\ UNCHANGED fsVars

(* remove_dir_all gets through some of the files before it fails. *)
Removed(r) ==
  /\ disk' = [p \in Paths |-> IF p[1] = r THEN Absent ELSE disk[p]]
  /\ dirs' = dirs \ {r}
PartlyRemoved(r) ==
  /\ \E gone \in SUBSET FilesOf(r) :
       disk' = [p \in Paths |-> IF p[1] = r /\ p[2] \in gone THEN Absent ELSE disk[p]]
  /\ UNCHANGED dirs

CleanUp ==
  /\ step = "clean"
  /\ \/ copied # <<>> /\ Cancelled /\ UNCHANGED fsVars
     \/ /\ ~control.cancelled
        /\ copied # <<>>
        /\ Removed(Head(copied))
        /\ copied' = Tail(copied)
        /\ UNCHANGED <<step, left, todo, target, mode, placed, counts, result>>
     \/ ~control.cancelled /\ copied # <<>> /\ PartlyRemoved(Head(copied)) /\ Return("Failed")
     \/ /\ copied = <<>>
        /\ Return(IF counts.skipped > 0 THEN "PartialSuccess" ELSE "Success")
        /\ UNCHANGED fsVars

-----------------------------------------------------------------------------
(* LocalDeleteWorker: a pause holds it up only before a directory. *)

BeginDelete ==
  /\ step = "top" /\ left # <<>> /\ request.kind = "delete"
  /\ \/ Cancelled
     \/ /\ IF Source \in dirs THEN Running ELSE ~control.cancelled
        /\ todo' = FilesOf(Source)
        /\ Goto("delete")
        /\ UNCHANGED <<left, target, mode, placed, copied, counts>>
  /\ UNCHANGED fsVars

DeleteFile(e) ==
  /\ step = "delete"
  /\ \/ Source \in dirs /\ Cancelled /\ UNCHANGED fsVars
     \/ /\ Source \in dirs => ~control.cancelled
        /\ Unlink(From(e))
        /\ todo' = todo \ {e}
        /\ counts' = [counts EXCEPT !.files = @ + 1]
        /\ UNCHANGED <<dirs, step, left, target, mode, placed, copied, result>>
     \/ Return("Failed") /\ UNCHANGED fsVars

(* The directory itself; a plain file is gone. *)
DeleteEnds ==
  /\ step = "delete"
  /\ todo = {}
  /\ \/ /\ dirs' = dirs \ {Source}
        /\ left' = Tail(left)
        /\ counts' = [counts EXCEPT !.files = @ + (IF Source \in dirs THEN 1 ELSE 0)]
        /\ Goto("top")
        /\ UNCHANGED <<disk, todo, target, mode, placed, copied>>
     \/ Source \in dirs /\ Return("Failed") /\ UNCHANGED fsVars

Worker ==
  \/ Scan \/ TakeUp \/ Rename \/ BeginCopy \/ WriteFile \/ SourceCopied \/ EndOfSources \/ CleanUp
  \/ \E e \in todo : OpenFile(e) \/ DeleteFile(e)
  \/ BeginDelete \/ DeleteEnds

Next == User \/ (Worker /\ UNCHANGED <<request, layout, control>>)

Spec == Init /\ [][Next]_vars

-----------------------------------------------------------------------------
(* Type correctness of every variable. *)
TypeOK ==
  /\ request \in Requests /\ layout \in Layouts
  /\ disk \in [Paths -> Paths \cup {Absent, Fragment}] /\ dirs \subseteq Roots
  /\ control \in [cancelled : BOOLEAN, paused : BOOLEAN]
  /\ step \in {"scan", "top", "rename", "copy", "open", "write", "clean", "delete", "done"}
  /\ left \in Seq(Roots) /\ copied \in Seq(Roots)
  /\ todo \subseteq Entries \cup {Self} /\ target \in Paths \cup {Absent}
  /\ mode \in {"Ask", "OverwriteAll", "SkipAll", "RenameAll"}
  /\ placed \in [Roots -> Roots]
  /\ counts \in [files : Nat, skipped : Nat, total : Int]
  /\ result \in {"none", "Success", "PartialSuccess", "Failed", "Cancelled"}

Ours == Range(request.sources)

(* Whatever fails or is cancelled at whatever call: what was in the sources *)
(* is still in a file, of the source or of the destination.                *)
NothingLost ==
  request.kind # "delete" =>
    \A p \in layout.files : p[1] \in Ours => \E q \in Paths : disk[q] = p

(* No half-written file is left behind, and only one is ever there. *)
OneFragment == \A p \in Paths : disk[p] = Fragment => p = target

(* A success means what it says: each source is at the place chosen for it, *)
(* and gone if it was to be moved, or untouched if it was skipped; every    *)
(* path to be deleted is gone; and the totals of the progress bar add up.   *)
DoneMeansDone ==
  result \in {"Success", "PartialSuccess"} =>
    /\ \A s \in Ours :
         /\ (IsMove /\ placed[s] # s) \/ request.kind = "delete" => ~Exists(s)
         /\ request.kind # "delete" =>
              \A p \in layout.files : p[1] = s => disk[<<placed[s], p[2]>>] = p
    /\ result = "Success" => counts.files = counts.total

(* What was at the destination is replaced only by the item that goes there *)
(* under its own name (which the user was asked about): one that is renamed *)
(* replaces nothing, a skipped one neither, and a delete touches nothing    *)
(* but what it was given.                                                   *)
BystandersKept ==
  \A p \in layout.files :
    p[1] \notin Ours \cup {Dest(s) : s \in {q \in Ours : placed[q] = Dest(q)}} => disk[p] = p

(* A copy leaves its sources as they are. *)
SourcesKept ==
  request.kind = "copy" => \A p \in layout.files : p[1] \in Ours => disk[p] = p
=============================================================================
