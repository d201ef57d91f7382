--------------------------- MODULE LocalWorkerProofs ---------------------------
(***************************************************************************)
(* What a copy, a move or a delete leaves behind at whatever call it ends, *)
(* for any items, file systems and choices of the user.                    *)
(***************************************************************************)
EXTENDS LocalWorker, FiniteSetTheorems, SequenceTheorems, WellFoundedInduction, TLAPS

(* The entries of an item, and where the thread works at the source in hand. *)
Names == Entries \cup {Self}
Busy == step \in {"rename", "copy", "open", "write"}
Steps == {"scan", "top", "rename", "copy", "open", "write", "clean", "delete", "done"}
Modes == {"Ask", "OverwriteAll", "SkipAll", "RenameAll"}
Number == Len(request.sources)

(* What is left is the end of the list of sources, and each step has what it *)
(* works with.                                                               *)
LeftInv ==
  /\ Len(left) <= Number
  /\ \A i \in 1..Len(left) : left[i] = request.sources[Number - Len(left) + i]
StepInv ==
  /\ step \in {"rename", "copy", "open", "write", "delete"} => left # <<>>
  /\ step # "write" => target = Absent
  /\ step = "write" => target \in Paths /\ target[1] = placed[Source]
  /\ step = "done" <=> result # "none"
  /\ step = "scan" => left = request.sources
  /\ step = "clean" => left = <<>> /\ IsMove
  /\ Busy => request.kind # "delete"
  /\ step = "rename" => IsMove
  /\ step = "delete" => request.kind = "delete"

TypeInv == TypeOK /\ LeftInv /\ StepInv

LEMMA RequestTyped ==
  ASSUME request \in Requests, layout \in Layouts
  PROVE  /\ request.kind \in {"copy", "move", "delete"}
         /\ request.sources \in Seq(Roots) /\ Number \in Nat
         /\ request.dest \in [Roots -> Roots] /\ request.cross \subseteq Roots
         /\ layout.dirs \subseteq Roots /\ layout.files \subseteq Paths
         /\ Ours \subseteq Roots
<1>1. request \in RequestType /\ layout \in LayoutType
  BY LocalWorkerAssumption
<1>2. request.sources \in Seq(Roots)
  BY <1>1 DEF RequestType
<1>3. \A i \in 1..Len(request.sources) : request.sources[i] \in Roots
  BY <1>2, ElementOfSeq
<1>4. Ours \subseteq Roots /\ Number \in Nat
  BY <1>2, <1>3, LenProperties DEF Ours, Range, Number
<1>5. QED
  BY <1>1, <1>2, <1>4 DEF RequestType, LayoutType

LEMMA PathsTyped ==
  /\ \A r \in Roots, e \in Names : <<r, e>> \in Paths
  /\ \A p \in Paths : p[1] \in Roots /\ p[2] \in Names /\ p = <<p[1], p[2]>>
  /\ Absent \notin Paths /\ Fragment \notin Paths /\ Absent # Fragment
BY LocalWorkerAssumption DEF Paths, Names

LEMMA FilesTyped ==
  ASSUME NEW r
  PROVE  /\ FilesOf(r) \subseteq Names /\ IsFiniteSet(FilesOf(r)) /\ Cardinality(FilesOf(r)) \in Nat
         /\ FileCount(r) \in Nat
<1>1. IsFiniteSet(Names)
  BY LocalWorkerAssumption, FS_AddElement DEF Names
<1>2. FilesOf(r) \subseteq Names
  BY DEF FilesOf, Names
<1>3. IsFiniteSet(FilesOf(r)) /\ Cardinality(FilesOf(r)) \in Nat
  BY <1>1, <1>2, FS_Subset, FS_CardinalityType
<1>4. QED
  BY <1>2, <1>3 DEF FileCount

(* The source in hand, and what is left behind it. *)
LEMMA Heads ==
  ASSUME NEW s \in Seq(Roots), s # <<>>
  PROVE  /\ Head(s) = s[1] /\ Head(s) \in Roots
         /\ Len(s) \in Nat \ {0} /\ Tail(s) \in Seq(Roots) /\ Len(Tail(s)) = Len(s) - 1
         /\ \A i \in 1..Len(Tail(s)) : Tail(s)[i] = s[i + 1]
         /\ Range(s) = {Head(s)} \cup Range(Tail(s)) /\ Range(s) \subseteq Roots
<1>1. Len(s) \in Nat \ {0} /\ Head(s) = s[1]
  BY EmptySeq, LenProperties
<1>2. /\ Tail(s) \in Seq(Roots) /\ Len(Tail(s)) = Len(s) - 1
      /\ \A i \in 1..Len(Tail(s)) : Tail(s)[i] = s[i + 1]
  BY HeadTailProperties
<1>3. \A i \in 1..Len(s) : s[i] \in Roots
  BY ElementOfSeq
<1>4. DOMAIN s = 1..Len(s) /\ DOMAIN Tail(s) = 1..Len(Tail(s))
  BY <1>2, LenProperties
<1>5. Range(s) = {s[1]} \cup Range(Tail(s))
  <2>1. \A i \in 1..Len(s) : i = 1 \/ (i - 1 \in 1..Len(Tail(s)) /\ Tail(s)[i - 1] = s[i])
    <3>1. SUFFICES ASSUME NEW i \in 1..Len(s), i # 1
                   PROVE  i - 1 \in 1..Len(Tail(s)) /\ Tail(s)[i - 1] = s[i]
      OBVIOUS
    <3>2. i - 1 \in 1..Len(Tail(s)) /\ (i - 1) + 1 = i
      BY <1>1, <1>2, <3>1
    <3>3. QED
      BY <1>2, <3>2
  <2>2. \A i \in 1..Len(Tail(s)) : i + 1 \in 1..Len(s)
    BY <1>1, <1>2
  <2>3. 1 \in 1..Len(s)
    BY <1>1
  <2>4. Range(s) = {s[i] : i \in 1..Len(s)} /\ Range(Tail(s)) = {Tail(s)[i] : i \in 1..Len(Tail(s))}
    BY <1>4 DEF Range
  <2>5. Range(s) \subseteq {s[1]} \cup Range(Tail(s))
    BY <2>1, <2>4
  <2>6. {s[1]} \cup Range(Tail(s)) \subseteq Range(s)
    BY <1>2, <2>2, <2>3, <2>4
  <2>7. QED
    BY <2>5, <2>6
<1>6. QED
  BY <1>1, <1>2, <1>3, <1>4, <1>5 DEF Range

LEMMA EmptyRange == Range(<<>>) = {}
BY DEF Range

(* The sources were all given by the request. *)
LEMMA LeftTyped ==
  ASSUME TypeInv
  PROVE  /\ Range(left) \subseteq Ours /\ Len(left) \in Nat
         /\ left # <<>> => /\ Source \in Ours /\ Source \in Range(left)
                           /\ request.sources[Number - Len(left) + 1] = Source
                           /\ Number - Len(left) + 1 \in 1..Number
<1>1. /\ request.sources \in Seq(Roots) /\ Number \in Nat /\ left \in Seq(Roots) /\ Len(left) \in Nat
      /\ Len(left) <= Number
      /\ \A i \in 1..Len(left) : left[i] = request.sources[Number - Len(left) + i]
  BY RequestTyped, LenProperties DEF TypeInv, TypeOK, LeftInv
<1>2. DOMAIN left = 1..Len(left) /\ DOMAIN request.sources = 1..Number
  BY <1>1, LenProperties DEF Number
<1>3. \A i \in 1..Len(left) : Number - Len(left) + i \in 1..Number
  BY <1>1
<1>4. Range(left) \subseteq Ours
  BY <1>1, <1>2, <1>3 DEF Range, Ours
<1>5. ASSUME left # <<>>
      PROVE  /\ Source = left[1] /\ 1 \in 1..Len(left)
  BY <1>1, <1>5, Heads DEF Source
<1>6. QED
  BY <1>1, <1>2, <1>3, <1>4, <1>5 DEF Range

-----------------------------------------------------------------------------
(***************************************************************************)
(* The steps of the thread, one by one: those that go on, the end of a     *)
(* success, and the early returns (Stops), which leave of the disk what    *)
(* was there but for the file being written or the one being removed.      *)
(***************************************************************************)
Scans ==
  /\ step = "scan" /\ step' = "top"
  /\ counts' = [counts EXCEPT !.total = IF IsMove THEN Number ELSE Total]
  /\ UNCHANGED <<left, todo, target, mode, placed, copied, result, disk, dirs>>

Skips ==
  /\ step = "top" /\ left # <<>> /\ request.kind # "delete"
  /\ left' = Tail(left)
  /\ counts' = [counts EXCEPT !.skipped = @ + 1]
  /\ mode' \in Modes /\ (mode = "RenameAll" <=> mode' = "RenameAll")
  /\ UNCHANGED <<step, todo, target, placed, copied, result, disk, dirs>>

Chosen(to) ==
  \/ to \in {Dest(Source)} \cup RenameTo[Source] /\ mode # "RenameAll" /\ mode' # "RenameAll"
  \/ to \notin Ours /\ ~Exists(to) /\ mode' = "RenameAll"
  \/ to = Dest(Source) /\ ~Exists(to) /\ mode' = mode

Takes(to) ==
  /\ step = "top" /\ left # <<>> /\ request.kind # "delete"
  /\ step' = IF IsMove THEN "rename" ELSE "copy"
  /\ to \in Roots /\ Exists(Source) /\ Chosen(to)
  /\ placed' = [placed EXCEPT ![Source] = to]
  /\ mode' \in Modes
  /\ UNCHANGED <<left, todo, target, copied, counts, result, disk, dirs>>

Renames ==
  /\ step = "rename" /\ step' = "top"
  /\ Moved(Source, placed[Source])
  /\ left' = Tail(left)
  /\ counts' = [counts EXCEPT !.files = @ + 1]
  /\ UNCHANGED <<todo, target, mode, placed, copied, result>>

FallsBack ==
  /\ step = "rename" /\ step' = "copy"
  /\ counts' = [counts EXCEPT !.total = @ - 1 + FileCount(Source)]
  /\ UNCHANGED <<left, todo, target, mode, placed, copied, result, disk, dirs>>

Begins ==
  /\ step = "copy" /\ step' = "open"
  /\ todo' = FilesOf(Source)
  /\ dirs' = IF Source \in dirs THEN dirs \cup {placed[Source]} ELSE dirs
  /\ UNCHANGED <<left, target, mode, placed, copied, counts, result, disk>>

Opens(e) ==
  /\ step = "open" /\ step' = "write"
  /\ disk' = [disk EXCEPT ![Into(e)] = Fragment]
  /\ e \in todo /\ todo' = todo \ {e}
  /\ target' = Into(e)
  /\ UNCHANGED <<left, mode, placed, copied, counts, result, dirs>>

Writes ==
  /\ step = "write" /\ step' = "open"
  /\ disk[From(target[2])] # Fragment
  /\ disk' = [disk EXCEPT ![target] = disk[From(target[2])]]
  /\ counts' = [counts EXCEPT !.files = @ + 1]
  /\ target' = Absent
  /\ UNCHANGED <<left, todo, mode, placed, copied, result, dirs>>

EndsCopy ==
  /\ step = "open" /\ step' = "top"
  /\ todo = {}
  /\ copied' = Append(copied, Source)
  /\ left' = Tail(left)
  /\ UNCHANGED <<todo, target, mode, placed, counts, result, disk, dirs>>

TurnsToClean ==
  /\ step = "top" /\ step' = "clean"
  /\ left = <<>> /\ IsMove
  /\ UNCHANGED <<left, todo, target, mode, placed, copied, counts, result, disk, dirs>>

Cleans ==
  /\ step = "clean" /\ step' = "clean"
  /\ copied # <<>>
  /\ Removed(Head(copied))
  /\ copied' = Tail(copied)
  /\ UNCHANGED <<left, todo, target, mode, placed, counts, result>>

BeginsDelete ==
  /\ step = "top" /\ left # <<>> /\ request.kind = "delete" /\ step' = "delete"
  /\ todo' = FilesOf(Source)
  /\ UNCHANGED <<left, target, mode, placed, copied, counts, result, disk, dirs>>

Deletes(e) ==
  /\ step = "delete" /\ step' = "delete"
  /\ e \in todo /\ todo' = todo \ {e}
  /\ Unlink(From(e))
  /\ counts' = [counts EXCEPT !.files = @ + 1]
  /\ UNCHANGED <<left, target, mode, placed, copied, result, dirs>>

EndsDelete ==
  /\ step = "delete" /\ step' = "top"
  /\ todo = {}
  /\ dirs' = dirs \ {Source}
  /\ left' = Tail(left)
  /\ counts' = [counts EXCEPT !.files = @ + (IF Source \in dirs THEN 1 ELSE 0)]
  /\ UNCHANGED <<todo, target, mode, placed, copied, result, disk>>

Succeeds ==
  /\ step \in {"top", "clean"} /\ left = <<>> /\ (IsMove => copied = <<>>)
  /\ Return(IF counts.skipped > 0 THEN "PartialSuccess" ELSE "Success")
  /\ UNCHANGED <<disk, dirs>>

Stops ==
  /\ step # "done"
  /\ Return("Failed") \/ Return("Cancelled")
  /\ UNCHANGED dirs
  /\ \/ UNCHANGED disk /\ step # "write"
     \/ step = "open" /\ \E e \in todo : DropPartial(Into(e))
     \/ step = "write" /\ DropPartial(target)
     \/ step = "clean" /\ copied # <<>> /\ PartlyRemoved(Head(copied))

Shape ==
  \/ Scans \/ Skips \/ (\E to : Takes(to)) \/ Renames \/ FallsBack
  \/ Begins \/ (\E e : Opens(e)) \/ Writes \/ EndsCopy \/ TurnsToClean \/ Cleans
  \/ BeginsDelete \/ (\E e : Deletes(e)) \/ EndsDelete
  \/ Succeeds \/ Stops

LEMMA ModesTyped ==
  ASSUME TypeOK
  PROVE  mode \in Modes
BY DEF TypeOK, Modes

(* What ConflictContext::check_conflict can decide. *)
LEMMA ConflictDecided ==
  ASSUME TypeInv, left # <<>>, NEW a \in CheckConflict(Source, Dest(Source))
  PROVE  /\ a.act \in {"Proceed", "Skip", "Cancel"} /\ a.mode \in Modes
         /\ a.act = "Skip" => (mode = "RenameAll" <=> a.mode = "RenameAll")
         /\ a.act = "Proceed" =>
              /\ a.to \in Roots
              /\ \/ a.to \in {Dest(Source)} \cup RenameTo[Source] /\ mode # "RenameAll" /\ a.mode # "RenameAll"
                 \/ a.to \notin Ours /\ ~Exists(a.to) /\ a.mode = "RenameAll"
                 \/ a.to = Dest(Source) /\ ~Exists(a.to) /\ a.mode = mode
<1>1. /\ Source \in Roots /\ Dest(Source) \in Roots /\ RenameTo[Source] \subseteq Roots
      /\ mode \in Modes
  BY LeftTyped, RequestTyped, LocalWorkerAssumption, ModesTyped DEF TypeInv, TypeOK, Dest
<1>2. \A n \in Unique(Dest(Source)) : n \in Roots /\ n \notin Ours /\ ~Exists(n)
  BY DEF Unique, Ours
<1>3. CASE ~Exists(Dest(Source))
  <2>1. a = [act |-> "Proceed", to |-> Dest(Source), mode |-> mode]
    BY <1>3 DEF CheckConflict, Action
  <2>2. QED
    BY <1>1, <1>3, <2>1
<1>4. CASE Exists(Dest(Source)) /\ mode = "Ask"
  <2>1. a \in Answers(Source, Dest(Source))
    BY <1>4 DEF CheckConflict
  <2>2. \/ \E m \in {"Ask", "OverwriteAll"} : a = [act |-> "Proceed", to |-> Dest(Source), mode |-> m]
        \/ \E m \in {"Ask", "SkipAll"} : a = [act |-> "Skip", to |-> Dest(Source), mode |-> m]
        \/ \E n \in RenameTo[Source] : a = [act |-> "Proceed", to |-> n, mode |-> "Ask"]
        \/ \E n \in Unique(Dest(Source)) : a = [act |-> "Proceed", to |-> n, mode |-> "RenameAll"]
        \/ a = [act |-> "Cancel", to |-> Dest(Source), mode |-> "Ask"]
    BY <2>1 DEF Answers, Action
  <2>3. QED
    BY <1>1, <1>2, <1>4, <2>2 DEF Modes
<1>5. CASE Exists(Dest(Source)) /\ mode # "Ask"
  <2>1. \/ mode = "OverwriteAll" /\ a = [act |-> "Proceed", to |-> Dest(Source), mode |-> mode]
        \/ mode = "SkipAll" /\ a = [act |-> "Skip", to |-> Dest(Source), mode |-> mode]
        \/ mode = "RenameAll" /\ \E n \in Unique(Dest(Source)) : a = [act |-> "Proceed", to |-> n, mode |-> mode]
    BY <1>1, <1>5 DEF CheckConflict, Action, Modes
  <2>2. QED
    BY <1>1, <1>2, <2>1 DEF Modes
<1>6. QED
  BY <1>3, <1>4, <1>5

LEMMA Shapes ==
  ASSUME TypeInv, Worker
  PROVE  Shape
<1> USE DEF TypeInv
<1>0. (step = "done" <=> result # "none") /\ (step # "write" => target = Absent)
      /\ \A s : Goto(s) <=> step' = s /\ result' = result
  BY DEF StepInv, Goto
<1>1. CASE Scan
  <2>1. CASE ~IsMove /\ Cancelled
    BY <1>1, <2>1 DEF Scan, Cancelled, Shape, Stops, fsVars
  <2>2. CASE Goto("top")
    BY <1>0, <1>1, <2>2 DEF Scan, Cancelled, Return, Shape, Scans, fsVars, Number
  <2>3. QED
    BY <1>1, <2>1, <2>2 DEF Scan
<1>2. CASE TakeUp
  <2>1. step = "top" /\ left # <<>> /\ request.kind # "delete" /\ UNCHANGED <<disk, dirs>>
    BY <1>2 DEF TakeUp, fsVars
  <2>2. CASE Return("Failed") \/ Return("Cancelled")
    BY <2>1, <2>2 DEF Shape, Stops
  <2>3. ASSUME NEW a \in CheckConflict(Source, Dest(Source)), a.act = "Skip",
               left' = Tail(left), counts' = [counts EXCEPT !.skipped = @ + 1], mode' = a.mode,
               UNCHANGED <<step, todo, target, placed, copied, result>>
        PROVE  Shape
    BY <2>1, <2>3, ConflictDecided DEF Shape, Skips
  <2>4. ASSUME NEW a \in CheckConflict(Source, Dest(Source)), a.act = "Proceed", Exists(Source),
               placed' = [placed EXCEPT ![Source] = a.to], mode' = a.mode,
               Goto(IF IsMove THEN "rename" ELSE "copy"),
               UNCHANGED <<left, todo, target, copied, counts>>
        PROVE  Shape
    <3>1. Takes(a.to)
      BY <1>0, <2>1, <2>4, ConflictDecided DEF Takes, Chosen
    <3>2. QED
      BY <3>1 DEF Shape
  <2>5. QED
    BY <1>2, <2>2, <2>3, <2>4 DEF TakeUp, Cancelled
<1>3. CASE Rename
  <2>1. CASE Return("Failed") /\ UNCHANGED fsVars
    BY <1>3, <2>1 DEF Rename, Shape, Stops, fsVars
  <2>2. CASE Cancelled /\ UNCHANGED fsVars
    BY <1>3, <2>2 DEF Rename, Cancelled, Shape, Stops, fsVars
  <2>3. CASE Goto("top") /\ Moved(Source, placed[Source]) /\ left' = Tail(left)
             /\ counts' = [counts EXCEPT !.files = @ + 1] /\ UNCHANGED <<todo, target, mode, placed, copied>>
    BY <1>0, <1>3, <2>3 DEF Rename, Shape, Renames
  <2>4. CASE Goto("copy") /\ UNCHANGED fsVars /\ counts' = [counts EXCEPT !.total = @ - 1 + FileCount(Source)]
             /\ UNCHANGED <<left, todo, target, mode, placed, copied>>
    BY <1>0, <1>3, <2>4 DEF Rename, Shape, FallsBack, fsVars
  <2>5. QED
    BY <1>3, <2>1, <2>2, <2>3, <2>4 DEF Rename
<1>4. CASE BeginCopy
  <2>1. CASE (Return("Failed") \/ Cancelled) /\ UNCHANGED fsVars
    BY <1>4, <2>1 DEF BeginCopy, Cancelled, Shape, Stops, fsVars
  <2>2. CASE Goto("open")
    BY <1>0, <1>4, <2>2 DEF BeginCopy, Cancelled, Return, Shape, Begins, fsVars
  <2>3. QED
    BY <1>4, <2>1, <2>2 DEF BeginCopy
<1>5. ASSUME NEW e \in todo, OpenFile(e)
      PROVE  Shape
  <2>1. CASE (Return("Failed") \/ Cancelled) /\ UNCHANGED fsVars
    BY <1>5, <2>1 DEF OpenFile, Cancelled, Shape, Stops, fsVars
  <2>2. CASE Return("Failed") /\ DropPartial(Into(e)) /\ UNCHANGED dirs
    BY <1>5, <2>2 DEF OpenFile, Shape, Stops
  <2>3. CASE Goto("write")
    <3>1. Opens(e)
      BY <1>0, <1>5, <2>3 DEF OpenFile, Cancelled, Return, Opens, fsVars
    <3>2. QED
      BY <3>1 DEF Shape
  <2>4. QED
    BY <1>5, <2>1, <2>2, <2>3 DEF OpenFile
<1>6. CASE WriteFile
  <2>1. CASE (Return("Failed") \/ Cancelled) /\ DropPartial(target) /\ UNCHANGED dirs
    BY <1>6, <2>1 DEF WriteFile, Cancelled, Shape, Stops
  <2>2. CASE Goto("open")
    BY <1>0, <1>6, <2>2 DEF WriteFile, Cancelled, Return, Shape, Writes, fsVars
  <2>3. QED
    BY <1>6, <2>1, <2>2 DEF WriteFile
<1>7. CASE SourceCopied
  BY <1>0, <1>7 DEF SourceCopied, Shape, EndsCopy, fsVars
<1>8. CASE EndOfSources
  <2>1. CASE Goto("clean")
    BY <1>0, <1>8, <2>1 DEF EndOfSources, Return, Shape, TurnsToClean, fsVars
  <2>2. CASE ~(IsMove /\ copied # <<>>)
    BY <1>8, <2>2 DEF EndOfSources, Shape, Succeeds, fsVars
  <2>3. QED
    BY <1>8, <2>1, <2>2 DEF EndOfSources
<1>9. CASE CleanUp
  <2>1. step = "clean" /\ left = <<>>
    BY <1>9 DEF CleanUp, StepInv
  <2>2. CASE Cancelled /\ UNCHANGED fsVars
    BY <2>1, <2>2 DEF Cancelled, Shape, Stops, fsVars
  <2>3. CASE copied # <<>> /\ Removed(Head(copied)) /\ copied' = Tail(copied)
             /\ UNCHANGED <<step, left, todo, target, mode, placed, counts, result>>
    BY <2>1, <2>3 DEF Shape, Cleans
  <2>4. CASE copied # <<>> /\ PartlyRemoved(Head(copied)) /\ Return("Failed")
    BY <2>1, <2>4 DEF Shape, Stops, PartlyRemoved
  <2>5. CASE copied = <<>>
    BY <1>9, <2>1, <2>5 DEF CleanUp, Shape, Succeeds, fsVars
  <2>6. QED
    BY <1>9, <2>2, <2>3, <2>4, <2>5 DEF CleanUp
<1>10. CASE BeginDelete
  <2>1. CASE Cancelled
    BY <1>10, <2>1 DEF BeginDelete, Cancelled, Shape, Stops, fsVars
  <2>2. CASE Goto("delete")
    BY <1>0, <1>10, <2>2 DEF BeginDelete, Cancelled, Return, Shape, BeginsDelete, fsVars
  <2>3. QED
    BY <1>10, <2>1, <2>2 DEF BeginDelete
<1>11. ASSUME NEW e \in todo, DeleteFile(e)
       PROVE  Shape
  <2>1. CASE (Return("Failed") \/ Cancelled) /\ UNCHANGED fsVars
    BY <1>11, <2>1 DEF DeleteFile, Cancelled, Shape, Stops, fsVars
  <2>2. CASE step' = step /\ UNCHANGED result /\ Unlink(From(e)) /\ todo' = todo \ {e}
             /\ counts' = [counts EXCEPT !.files = @ + 1]
             /\ UNCHANGED <<dirs, left, target, mode, placed, copied>>
    <3>1. Deletes(e)
      BY <1>11, <2>2 DEF DeleteFile, Deletes
    <3>2. QED
      BY <3>1 DEF Shape
  <2>3. QED
    BY <1>11, <2>1, <2>2 DEF DeleteFile
<1>12. CASE DeleteEnds
  <2>1. CASE Return("Failed") /\ UNCHANGED fsVars
    BY <1>12, <2>1 DEF DeleteEnds, Shape, Stops, fsVars
  <2>2. CASE Goto("top")
    BY <1>0, <1>12, <2>2 DEF DeleteEnds, Return, Shape, EndsDelete, fsVars
  <2>3. QED
    BY <1>12, <2>1, <2>2 DEF DeleteEnds
<1>13. QED
  BY <1>1, <1>2, <1>3, <1>4, <1>5, <1>6, <1>7, <1>8, <1>9, <1>10, <1>11, <1>12 DEF Worker

-----------------------------------------------------------------------------
(***************************************************************************)
(* Sums of a list of sizes.  A set of naturals that is not empty has a     *)
(* least element: that is what induction rests on here.                    *)
(***************************************************************************)
IsSum(g, f, n) == g = [i \in 0..n |-> IF i = 0 THEN 0 ELSE g[i - 1] + f[i]]

LEMMA Least ==
  ASSUME NEW T \in SUBSET Nat, T # {}
  PROVE  \E x \in T : \A y \in T : x <= y
<1> DEFINE R == OpToRel(<, Nat)
<1>1. PICK x \in T : \A y \in T : ~(<<y, x>> \in R)
  <2>1. T \subseteq Nat /\ T # {}
    OBVIOUS
  <2>2. IsWellFoundedOn(R, Nat)
    BY NatLessThanWellFounded
  <2> HIDE DEF R
  <2>3. QED
    BY <2>1, <2>2, WFMin
<1>2. \A y \in T : <<y, x>> \in R <=> y < x
  BY DEF OpToRel
<1> HIDE DEF R
<1>3. x \in Nat /\ \A y \in T : y \in Nat
  OBVIOUS
<1>4. ASSUME NEW y \in T PROVE x <= y
  <2>1. ~(y < x)
    BY <1>1, <1>2
  <2>2. QED
    BY <2>1, <1>3
<1>5. QED
  BY <1>4

(* What holds of 0, and of each number when it holds of the one before. *)
LEMMA Upward ==
  ASSUME NEW T \in SUBSET Nat, 0 \in T, \A n \in Nat \ {0} : n - 1 \in T => n \in T
  PROVE  T = Nat
<1>1. SUFFICES ASSUME Nat \ T # {} PROVE FALSE
  OBVIOUS
<1>2. PICK n \in Nat \ T : \A y \in Nat \ T : n <= y
  BY <1>1, Least
<1>3. n # 0 /\ n \in Nat
  OBVIOUS
<1>4. n - 1 \in Nat /\ ~(n <= n - 1)
  BY <1>3
<1>5. n - 1 \in T
  BY <1>2, <1>4
<1>6. QED
  BY <1>2, <1>3, <1>5

LEMMA SumExists ==
  ASSUME NEW N \in Nat, NEW f \in [1..N -> Int]
  PROVE  \E g : IsSum(g, f, N)
<1> DEFINE T == {n \in Nat : n <= N => \E g : IsSum(g, f, n)}
<1>1. 0 \in T
  <2>1. IsSum([i \in 0..0 |-> 0], f, 0)
    BY DEF IsSum
  <2>2. QED
    BY <2>1
<1>2. ASSUME NEW n \in Nat \ {0}, n - 1 \in T
      PROVE  n \in T
  <2>1. SUFFICES ASSUME n <= N PROVE \E g : IsSum(g, f, n)
    OBVIOUS
  <2>2. PICK h : IsSum(h, f, n - 1)
    BY <1>2, <2>1
  <2> DEFINE g == [i \in 0..n |-> IF i = n THEN h[n - 1] + f[n] ELSE h[i]]
  <2>3. \A i \in 0..(n - 1) : h[i] = IF i = 0 THEN 0 ELSE h[i - 1] + f[i]
    BY <2>2 DEF IsSum
  <2>4. \A i \in 0..n : g[i] = IF i = 0 THEN 0 ELSE g[i - 1] + f[i]
    <3>1. SUFFICES ASSUME NEW i \in 0..n PROVE g[i] = IF i = 0 THEN 0 ELSE g[i - 1] + f[i]
      OBVIOUS
    <3>2. CASE i = n
      BY <3>2
    <3>3. CASE i = 0
      BY <2>3, <3>3
    <3>4. CASE i # n /\ i # 0
      <4>1. i \in 0..(n - 1) /\ i - 1 \in 0..n /\ i - 1 # n
        BY <3>4
      <4>2. g[i] = h[i] /\ g[i - 1] = h[i - 1]
        BY <3>4, <4>1
      <4>3. QED
        BY <2>3, <3>4, <4>1, <4>2
    <3>5. QED
      BY <3>2, <3>3, <3>4
  <2>5. IsSum(g, f, n)
    BY <2>4 DEF IsSum
  <2>6. QED
    BY <2>5
<1> HIDE DEF T
<1>3. T = Nat
  BY <1>1, <1>2, Upward DEF T
<1>4. N \in T /\ N <= N
  BY <1>3
<1>5. QED
  BY <1>4 DEF T

(* Sums of the same sizes are the same. *)
LEMMA SumUnique ==
  ASSUME NEW N \in Nat, NEW f, NEW g, NEW h, IsSum(g, f, N), IsSum(h, f, N)
  PROVE  g = h
<1> DEFINE T == {n \in Nat : n <= N => g[n] = h[n]}
<1>1. \A i \in 0..N : /\ g[i] = IF i = 0 THEN 0 ELSE g[i - 1] + f[i]
                      /\ h[i] = IF i = 0 THEN 0 ELSE h[i - 1] + f[i]
  BY DEF IsSum
<1>2. 0 \in T
  BY <1>1
<1>3. ASSUME NEW n \in Nat \ {0}, n - 1 \in T
      PROVE  n \in T
  <2>1. SUFFICES ASSUME n <= N PROVE g[n] = h[n]
    OBVIOUS
  <2>2. g[n - 1] = h[n - 1] /\ n \in 0..N /\ n # 0
    BY <1>3, <2>1
  <2>3. QED
    BY <1>1, <2>2
<1> HIDE DEF T
<1>4. T = Nat
  BY <1>2, <1>3, Upward DEF T
<1>5. \A i \in 0..N : g[i] = h[i]
  BY <1>4 DEF T
<1>6. QED
  BY <1>5 DEF IsSum

(* A sum, step by step. *)
LEMMA SumSteps ==
  ASSUME NEW N \in Nat, NEW f \in [1..N -> Int], NEW g, IsSum(g, f, N)
  PROVE  /\ g[0] = 0
         /\ \A i \in 1..N : g[i] = g[i - 1] + f[i]
         /\ g \in [0..N -> Int]
<1> DEFINE T == {n \in Nat : n <= N => g[n] \in Int}
<1>1. g[0] = 0 /\ \A i \in 1..N : g[i] = g[i - 1] + f[i]
  <2>1. \A i \in 0..N : g[i] = IF i = 0 THEN 0 ELSE g[i - 1] + f[i]
    BY DEF IsSum
  <2>2. 0 \in 0..N /\ \A i \in 1..N : i \in 0..N /\ i # 0
    OBVIOUS
  <2>3. QED
    BY <2>1, <2>2
<1>2. 0 \in T
  BY <1>1
<1>3. ASSUME NEW n \in Nat \ {0}, n - 1 \in T
      PROVE  n \in T
  <2>1. SUFFICES ASSUME n <= N PROVE g[n] \in Int
    OBVIOUS
  <2>2. g[n - 1] \in Int /\ n \in 1..N
    BY <1>3, <2>1
  <2>3. f[n] \in Int
    BY <2>2
  <2>4. QED
    BY <1>1, <2>2, <2>3
<1> HIDE DEF T
<1>4. T = Nat
  BY <1>2, <1>3, Upward DEF T
<1>5. \A i \in 0..N : g[i] \in Int
  BY <1>4 DEF T
<1>6. QED
  BY <1>1, <1>5 DEF IsSum

(* What the scan of the sources finds. *)
Sizes == [i \in 1..Number |-> FileCount(request.sources[i])]

LEMMA TotalIsSum ==
  ASSUME TypeOK
  PROVE  \E g : IsSum(g, Sizes, Number) /\ Total = g[Number] /\ Total \in Int
<1>1. Number \in Nat /\ Sizes \in [1..Number -> Int]
  BY RequestTyped, FilesTyped DEF TypeOK, Sizes
<1>2. PICK g : IsSum(g, Sizes, Number)
  BY <1>1, SumExists
<1>3. \A h : h = [i \in 0..Number |-> IF i = 0 THEN 0 ELSE h[i - 1] + FileCount(request.sources[i])]
             <=> IsSum(h, Sizes, Number)
  <2>1. \A i \in 0..Number : i # 0 => Sizes[i] = FileCount(request.sources[i])
    BY <1>1 DEF Sizes
  <2> HIDE DEF Sizes
  <2>2. QED
    BY <2>1 DEF IsSum
<1>4. \A h : IsSum(h, Sizes, Number) => h = g
  BY <1>1, <1>2, SumUnique
<1>5. Total = g[Number]
  BY <1>2, <1>3, <1>4 DEF Total, Number
<1>6. g[Number] \in Int
  BY <1>1, <1>2, SumSteps
<1>7. QED
  BY <1>2, <1>5, <1>6

-----------------------------------------------------------------------------
(***************************************************************************)
(* Every variable keeps its type, and every step what it works with.       *)
(***************************************************************************)
Contents == Paths \cup {Absent, Fragment}

LEMMA DiskTyped ==
  ASSUME TypeOK
  PROVE  /\ disk \in [Paths -> Contents]
         /\ \A r \in Roots, e \in Names : disk[<<r, e>>] \in Contents
BY PathsTyped DEF TypeOK, Contents

LEMMA TypeInit ==
  ASSUME Init
  PROVE  TypeInv
<1>1. request \in Requests /\ layout \in Layouts
  BY DEF Init
<1>2. TypeOK
  <2>1. disk \in [Paths -> Contents]
    BY DEF Init, Contents
  <2>2. counts \in [files : Nat, skipped : Nat, total : Int]
    BY DEF Init
  <2>3. placed \in [Roots -> Roots]
    BY DEF Init
  <2>4. QED
    BY <1>1, <2>1, <2>2, <2>3, RequestTyped DEF Init, TypeOK, Contents
<1>3. LeftInv
  <2>1. left = request.sources /\ Len(left) \in Nat
    BY <1>1, RequestTyped DEF Init, Number
  <2>2. Number - Len(left) = 0 /\ Number = Len(left)
    BY <2>1 DEF Number
  <2>3. QED
    BY <2>1, <2>2 DEF LeftInv
<1>4. StepInv
  BY DEF Init, StepInv, Busy
<1>5. QED
  BY <1>2, <1>3, <1>4 DEF TypeInv

(* What each step does to the list of sources and the step itself. *)
LEMMA LeftKept ==
  ASSUME TypeInv, Shape, UNCHANGED request
  PROVE  /\ left' \in Seq(Roots) /\ LeftInv'
         /\ \/ left' = left
            \/ left # <<>> /\ left' = Tail(left)
            \/ left' = <<>> /\ step' = "done"
<1> USE DEF TypeInv
<1>1. \/ left' = left
      \/ left # <<>> /\ left' = Tail(left)
      \/ left' = <<>> /\ step' = "done"
  BY DEF Shape, Scans, Skips, Takes, Renames, FallsBack, Begins, Opens, Writes, EndsCopy, TurnsToClean, Cleans,
         BeginsDelete, Deletes, EndsDelete, Succeeds, Stops, Return, StepInv, Busy
<1>2. left \in Seq(Roots) /\ Number' = Number /\ Number \in Nat
  BY RequestTyped DEF TypeOK, Number
<1>3. CASE left' = left
  BY <1>1, <1>2, <1>3 DEF LeftInv
<1>4. CASE left # <<>> /\ left' = Tail(left)
  <2>1. /\ Len(left) \in Nat \ {0} /\ Tail(left) \in Seq(Roots) /\ Len(left') = Len(left) - 1
        /\ \A i \in 1..Len(left') : left'[i] = left[i + 1]
    BY <1>2, <1>4, Heads
  <2>2. \A i \in 1..Len(left') : left'[i] = request.sources[Number - Len(left') + i]
    <3>1. SUFFICES ASSUME NEW i \in 1..Len(left')
                   PROVE  left'[i] = request.sources[Number - Len(left') + i]
      OBVIOUS
    <3>2. i + 1 \in 1..Len(left) /\ Number - Len(left) + (i + 1) = Number - Len(left') + i
      BY <1>2, <2>1, <3>1
    <3>3. left'[i] = left[i + 1] /\ left[i + 1] = request.sources[Number - Len(left) + (i + 1)]
      BY <2>1, <3>1, <3>2 DEF LeftInv
    <3>4. QED
      BY <3>2, <3>3
  <2>3. Len(left') <= Number
    BY <1>2, <2>1 DEF LeftInv
  <2>4. QED
    BY <1>1, <1>2, <1>4, <2>1, <2>2, <2>3 DEF LeftInv
<1>5. CASE left' = <<>> /\ step' = "done"
  <2>1. left' \in Seq(Roots) /\ Len(left') = 0
    BY <1>5
  <2>2. QED
    BY <1>1, <1>2, <2>1 DEF LeftInv
<1>6. QED
  BY <1>1, <1>3, <1>4, <1>5

LEMMA StepKept ==
  ASSUME TypeInv, Shape, UNCHANGED request
  PROVE  StepInv'
<1> USE DEF TypeInv
<1>1. IsMove' = IsMove /\ request' = request
  BY DEF IsMove
<1>2. CASE Scans
  BY <1>1, <1>2 DEF Scans, StepInv, Busy
<1>3. CASE Skips
  BY <1>1, <1>3 DEF Skips, StepInv, Busy
<1>4. ASSUME NEW to, Takes(to) PROVE StepInv'
  BY <1>1, <1>4 DEF Takes, StepInv, Busy, IsMove
<1>5. CASE Renames
  BY <1>1, <1>5 DEF Renames, StepInv, Busy
<1>6. CASE FallsBack
  BY <1>1, <1>6 DEF FallsBack, StepInv, Busy
<1>7. CASE Begins
  BY <1>1, <1>7 DEF Begins, StepInv, Busy
<1>8. ASSUME NEW e, Opens(e) PROVE StepInv'
  <2>1. Source \in Roots /\ placed[Source] \in Roots /\ e \in Names
    BY <1>8, LeftTyped, RequestTyped DEF Opens, TypeOK, StepInv, Names
  <2>2. target' \in Paths /\ target'[1] = placed[Source] /\ placed' = placed /\ Source' = Source
    BY <1>8, <2>1, PathsTyped DEF Opens, Into, Source
  <2>3. QED
    BY <1>1, <1>8, <2>2 DEF Opens, StepInv, Busy
<1>9. CASE Writes
  BY <1>1, <1>9 DEF Writes, StepInv, Busy
<1>10. CASE EndsCopy
  BY <1>1, <1>10 DEF EndsCopy, StepInv, Busy
<1>11. CASE TurnsToClean
  BY <1>1, <1>11 DEF TurnsToClean, StepInv, Busy
<1>12. CASE Cleans
  BY <1>1, <1>12 DEF Cleans, StepInv, Busy
<1>13. CASE BeginsDelete
  BY <1>1, <1>13 DEF BeginsDelete, StepInv, Busy
<1>14. ASSUME NEW e, Deletes(e) PROVE StepInv'
  BY <1>1, <1>14 DEF Deletes, StepInv, Busy
<1>15. CASE EndsDelete
  BY <1>1, <1>15 DEF EndsDelete, StepInv, Busy
<1>16. CASE Succeeds
  BY <1>1, <1>16 DEF Succeeds, Return, StepInv, Busy
<1>17. CASE Stops
  BY <1>1, <1>17 DEF Stops, Return, StepInv, Busy
<1>18. QED
  BY <1>2, <1>3, <1>4, <1>5, <1>6, <1>7, <1>8, <1>9, <1>10, <1>11, <1>12, <1>13, <1>14, <1>15, <1>16, <1>17 DEF Shape

LEMMA DiskKept ==
  ASSUME TypeInv, Shape
  PROVE  disk' \in [Paths -> Contents] /\ dirs' \subseteq Roots
<1> USE DEF TypeInv
<1>1. disk \in [Paths -> Contents] /\ dirs \subseteq Roots /\ placed \in [Roots -> Roots]
  BY DiskTyped DEF TypeOK
<1>2. left # <<>> => Source \in Roots /\ placed[Source] \in Roots
  BY <1>1, LeftTyped, RequestTyped DEF TypeOK
<1>3. Absent \in Contents /\ Fragment \in Contents
  BY DEF Contents
<1>4. \A p \in Paths, c \in Contents : [disk EXCEPT ![p] = c] \in [Paths -> Contents]
  BY <1>1
<1>5. CASE UNCHANGED <<disk, dirs>>
  BY <1>1, <1>5
<1>6. CASE Renames
  <2>1. left # <<>>
    BY <1>6 DEF Renames, StepInv
  <2>2. \A e \in Names : disk[<<Source, e>>] \in Contents
    BY <1>2, <2>1, DiskTyped
  <2>3. disk' \in [Paths -> Contents]
    BY <1>1, <1>3, <1>6, <2>2, PathsTyped DEF Renames, Moved
  <2>4. dirs' \subseteq Roots
    BY <1>1, <1>2, <1>6, <2>1 DEF Renames, Moved
  <2>5. QED
    BY <2>3, <2>4
<1>7. CASE Begins
  BY <1>1, <1>2, <1>7 DEF Begins, StepInv
<1>8. ASSUME NEW e, Opens(e)
      PROVE  disk' \in [Paths -> Contents] /\ dirs' \subseteq Roots
  <2>1. Into(e) \in Paths
    BY <1>2, <1>8, PathsTyped DEF Opens, Into, StepInv, TypeOK, Names
  <2>2. QED
    BY <1>1, <1>3, <1>4, <1>8, <2>1 DEF Opens
<1>9. CASE Writes
  <2>1. target \in Paths /\ From(target[2]) \in Paths
    BY <1>2, <1>9, PathsTyped DEF Writes, From, StepInv, TypeOK
  <2>2. QED
    BY <1>1, <1>4, <1>9, <2>1 DEF Writes
<1>10. CASE Cleans \/ (Stops /\ step = "clean" /\ copied # <<>> /\ PartlyRemoved(Head(copied)))
  BY <1>1, <1>3, <1>10 DEF Cleans, Removed, PartlyRemoved
<1>11. ASSUME NEW e, Deletes(e)
       PROVE  disk' \in [Paths -> Contents] /\ dirs' \subseteq Roots
  <2>1. From(e) \in Paths
    BY <1>2, <1>11, PathsTyped DEF Deletes, From, StepInv, TypeOK, Names
  <2>2. QED
    BY <1>1, <1>3, <1>4, <1>11, <2>1 DEF Deletes, Unlink
<1>12. CASE EndsDelete
  BY <1>1, <1>12 DEF EndsDelete
<1>13. CASE Stops /\ step = "open" /\ \E e \in todo : DropPartial(Into(e))
  <2>1. PICK e \in todo : DropPartial(Into(e))
    BY <1>13
  <2>2. Into(e) \in Paths
    BY <1>2, <1>13, PathsTyped DEF Into, StepInv, TypeOK, Names
  <2>3. QED
    BY <1>1, <1>3, <1>4, <1>13, <2>1, <2>2 DEF Stops, DropPartial, Unlink
<1>14. CASE Stops /\ step = "write" /\ DropPartial(target)
  <2>1. target \in Paths
    BY <1>2, <1>14, PathsTyped DEF StepInv, TypeOK
  <2>2. QED
    BY <1>1, <1>3, <1>4, <1>14, <2>1 DEF Stops, DropPartial, Unlink
<1>15. CASE Stops /\ UNCHANGED disk
  BY <1>5, <1>15 DEF Stops
<1>16. CASE Scans \/ Skips \/ (\E to : Takes(to)) \/ FallsBack \/ EndsCopy \/ TurnsToClean \/ BeginsDelete \/ Succeeds
  BY <1>5, <1>16 DEF Scans, Skips, Takes, FallsBack, EndsCopy, TurnsToClean, BeginsDelete, Succeeds
<1>17. CASE Stops
  BY <1>10, <1>13, <1>14, <1>15, <1>17 DEF Stops
<1>18. QED
  BY <1>6, <1>7, <1>8, <1>9, <1>10, <1>11, <1>12, <1>16, <1>17 DEF Shape

LEMMA CountsKept ==
  ASSUME TypeInv, Shape
  PROVE  counts' \in [files : Nat, skipped : Nat, total : Int]
<1> USE DEF TypeInv
<1>1. counts \in [files : Nat, skipped : Nat, total : Int]
  BY DEF TypeOK
<1>2. \A n \in Nat, k \in Int : /\ [counts EXCEPT !.files = n] \in [files : Nat, skipped : Nat, total : Int]
                               /\ [counts EXCEPT !.skipped = n] \in [files : Nat, skipped : Nat, total : Int]
                               /\ [counts EXCEPT !.total = k] \in [files : Nat, skipped : Nat, total : Int]
  BY <1>1
<1>3. Number \in Int /\ Total \in Int /\ FileCount(Source) \in Int
  BY RequestTyped, TotalIsSum, FilesTyped DEF TypeOK
<1>4. /\ counts.files \in Nat /\ counts.skipped \in Nat /\ counts.total \in Int
      /\ counts.files + 1 \in Nat /\ counts.files + 0 \in Nat /\ counts.skipped + 1 \in Nat
      /\ counts.total - 1 + FileCount(Source) \in Int
  BY <1>1, <1>3
<1>5. CASE Scans
  BY <1>2, <1>3, <1>5 DEF Scans
<1>6. CASE Skips
  BY <1>2, <1>4, <1>6 DEF Skips
<1>7. CASE FallsBack
  BY <1>2, <1>4, <1>7 DEF FallsBack
<1>8. CASE Renames \/ Writes \/ (\E e : Deletes(e)) \/ EndsDelete
  BY <1>2, <1>4, <1>8 DEF Renames, Writes, Deletes, EndsDelete
<1>9. CASE UNCHANGED counts
  BY <1>1, <1>9
<1>10. QED
  BY <1>5, <1>6, <1>7, <1>8, <1>9
     DEF Shape, Takes, Begins, Opens, EndsCopy, TurnsToClean, Cleans, BeginsDelete, Succeeds, Stops, Return

LEMMA TypeKept ==
  ASSUME TypeInv, [Next]_vars
  PROVE  TypeInv'
<1>1. CASE UNCHANGED vars
  BY <1>1 DEF vars, fsVars, threadVars, TypeInv, TypeOK, LeftInv, StepInv, Number, Busy, Source, IsMove
<1>2. CASE User
  <2>1. control' \in [cancelled : BOOLEAN, paused : BOOLEAN]
    BY <1>2 DEF User, Pause, Resume, Cancel, TypeInv, TypeOK
  <2>2. TypeOK'
    BY <1>2, <2>1 DEF User, fsVars, threadVars, TypeInv, TypeOK
  <2>3. LeftInv' /\ StepInv'
    BY <1>2 DEF User, fsVars, threadVars, TypeInv, LeftInv, StepInv, Number, Busy, Source, IsMove
  <2>4. QED
    BY <2>2, <2>3 DEF TypeInv
<1>3. CASE Worker /\ UNCHANGED <<request, layout, control>>
  <2>1. Shape
    BY <1>3, Shapes
  <2>2. LeftInv' /\ left' \in Seq(Roots) /\ StepInv'
    BY <1>3, <2>1, LeftKept, StepKept
  <2>3. disk' \in [Paths -> Contents] /\ dirs' \subseteq Roots
    BY <2>1, DiskKept
  <2>4. counts' \in [files : Nat, skipped : Nat, total : Int]
    BY <2>1, CountsKept
  <2>5. left # <<>> => Source \in Roots
    BY LeftTyped, RequestTyped DEF TypeInv, TypeOK
  <2>6. placed' \in [Roots -> Roots]
    <3>1. placed \in [Roots -> Roots]
      BY DEF TypeInv, TypeOK
    <3>2. ASSUME NEW to, Takes(to) PROVE placed' \in [Roots -> Roots]
      BY <3>1, <3>2 DEF Takes
    <3>3. QED
      BY <2>1, <3>1, <3>2 DEF Shape, Scans, Skips, Renames, FallsBack, Begins, Opens, Writes, EndsCopy, TurnsToClean,
         Cleans, BeginsDelete, Deletes, EndsDelete, Succeeds, Stops, Return
  <2>7. copied' \in Seq(Roots)
    <3>1. copied \in Seq(Roots)
      BY DEF TypeInv, TypeOK
    <3>2. CASE EndsCopy
      BY <2>5, <3>1, <3>2, AppendProperties DEF EndsCopy, TypeInv, StepInv
    <3>3. CASE Cleans
      BY <3>1, <3>3, Heads DEF Cleans
    <3>4. QED
      BY <2>1, <3>1, <3>2, <3>3 DEF Shape, Scans, Skips, Takes, Renames, FallsBack, Begins, Opens, Writes, TurnsToClean,
         BeginsDelete, Deletes, EndsDelete, Succeeds, Stops, Return
  <2>8. todo' \subseteq Names /\ target' \in Paths \cup {Absent}
    <3>1. todo \subseteq Names /\ target \in Paths \cup {Absent}
      BY DEF TypeInv, TypeOK, Names
    <3>2. CASE Begins \/ BeginsDelete
      BY <3>1, <3>2, FilesTyped DEF Begins, BeginsDelete
    <3>3. ASSUME NEW e, Opens(e) PROVE todo' \subseteq Names /\ target' \in Paths \cup {Absent}
      <4>1. Into(e) \in Paths
        BY <2>5, <3>1, <3>3, PathsTyped DEF Opens, Into, TypeInv, StepInv, TypeOK
      <4>2. QED
        BY <3>1, <3>3, <4>1 DEF Opens
    <3>4. QED
      BY <2>1, <3>1, <3>2, <3>3 DEF Shape, Scans, Skips, Takes, Renames, FallsBack, Writes, EndsCopy, TurnsToClean,
         Cleans, Deletes, EndsDelete, Succeeds, Stops, Return
  <2>9. mode' \in Modes
    <3>1. mode \in Modes
      BY ModesTyped DEF TypeInv
    <3>2. QED
      BY <2>1, <3>1 DEF Shape, Scans, Skips, Takes, Renames, FallsBack, Begins, Opens, Writes, EndsCopy, TurnsToClean,
         Cleans, BeginsDelete, Deletes, EndsDelete, Succeeds, Stops, Return
  <2>10. step' \in Steps
    BY <2>1 DEF Shape, Scans, Skips, Takes, Renames, FallsBack, Begins, Opens, Writes, EndsCopy, TurnsToClean,
       Cleans, BeginsDelete, Deletes, EndsDelete, Succeeds, Stops, Return, Steps
  <2>11. result' \in {"none", "Success", "PartialSuccess", "Failed", "Cancelled"}
    BY <2>1 DEF Shape, Scans, Skips, Takes, Renames, FallsBack, Begins, Opens, Writes, EndsCopy, TurnsToClean,
       Cleans, BeginsDelete, Deletes, EndsDelete, Succeeds, Stops, Return, TypeInv, TypeOK
  <2>12. request' \in Requests /\ layout' \in Layouts /\ control' \in [cancelled : BOOLEAN, paused : BOOLEAN]
    BY <1>3 DEF TypeInv, TypeOK
  <2>13. TypeOK'
    BY <2>2, <2>3, <2>4, <2>6, <2>7, <2>8, <2>9, <2>10, <2>11, <2>12 DEF TypeOK, Contents, Names, Modes, Steps
  <2>14. QED
    BY <2>2, <2>13 DEF TypeInv
<1>4. QED
  BY <1>1, <1>2, <1>3 DEF Next

(* Every variable has its type, the totals included, which are a sum over   *)
(* all sources.                                                            *)
THEOREM TypeOKHolds == Spec => []TypeOK
<1>1. Init => TypeInv
  BY TypeInit
<1>2. TypeInv /\ [Next]_vars => TypeInv'
  BY TypeKept
<1>3. TypeInv => TypeOK
  BY DEF TypeInv
<1>4. QED
  BY <1>1, <1>2, <1>3, PTL DEF Spec

-----------------------------------------------------------------------------
(***************************************************************************)
(* At most one fragment, where the thread is writing.                      *)
(***************************************************************************)
LEMMA NoFragment ==
  ASSUME TypeInv, OneFragment, step # "write"
  PROVE  \A p \in Paths : disk[p] # Fragment
BY PathsTyped DEF TypeInv, StepInv, OneFragment

LEMMA FragmentKept ==
  ASSUME TypeInv, OneFragment, Shape, UNCHANGED request
  PROVE  OneFragment'
<1> USE DEF TypeInv
<1>0. disk \in [Paths -> Contents] /\ Absent # Fragment /\ (left # <<>> => Source \in Roots)
  BY DiskTyped, PathsTyped, LeftTyped, RequestTyped DEF TypeOK
<1>1. CASE step # "write" /\ \A p \in Paths : disk'[p] \in {disk[q] : q \in Paths} \cup {Absent}
  <2>1. \A p \in Paths : disk'[p] # Fragment
    BY <1>0, <1>1, NoFragment
  <2>2. QED
    BY <2>1 DEF OneFragment
<1>2. CASE UNCHANGED disk /\ step # "write"
  BY <1>0, <1>1, <1>2
<1>3. CASE Renames
  <2>1. left # <<>>
    BY <1>3 DEF Renames, StepInv
  <2>2. \A e \in Names : <<Source, e>> \in Paths
    BY <1>0, <2>1, PathsTyped
  <2>3. \A p \in Paths : disk'[p] \in {disk[q] : q \in Paths} \cup {Absent}
    BY <1>3, <2>2, PathsTyped DEF Renames, Moved
  <2>4. QED
    BY <1>1, <1>3, <2>3 DEF Renames
<1>4. ASSUME NEW e, Opens(e) PROVE OneFragment'
  <2>1. \A p \in Paths : disk[p] # Fragment
    BY <1>4, NoFragment DEF Opens
  <2>2. \A p \in Paths : p # Into(e) => disk'[p] = disk[p]
    BY <1>0, <1>4 DEF Opens
  <2>3. QED
    BY <1>4, <2>1, <2>2 DEF Opens, OneFragment
<1>5. CASE Writes
  <2>1. target \in Paths
    BY <1>5 DEF Writes, StepInv
  <2>2. disk'[target] # Fragment /\ \A p \in Paths : p # target => disk'[p] = disk[p]
    BY <1>0, <1>5, <2>1 DEF Writes
  <2>3. QED
    BY <2>2 DEF OneFragment
<1>6. CASE Cleans \/ (Stops /\ step = "clean" /\ PartlyRemoved(Head(copied)))
  <2>1. step # "write" /\ \A p \in Paths : disk'[p] \in {disk[q] : q \in Paths} \cup {Absent}
    BY <1>6 DEF Cleans, Removed, PartlyRemoved
  <2>2. QED
    BY <1>1, <2>1
<1>7. ASSUME NEW q, disk' = [disk EXCEPT ![q] = Absent], step = "write" => q = target
      PROVE  OneFragment'
  <2>1. \A p \in Paths : (disk'[p] = disk[p] /\ p # q) \/ disk'[p] = Absent
    BY <1>0, <1>7
  <2>2. CASE step = "write"
    BY <1>0, <1>7, <2>1, <2>2 DEF OneFragment
  <2>3. CASE step # "write"
    BY <1>1, <2>1, <2>3
  <2>4. QED
    BY <2>2, <2>3
<1>8. CASE (\E e : Deletes(e)) \/ (Stops /\ step = "open" /\ \E e \in todo : DropPartial(Into(e)))
           \/ (Stops /\ step = "write" /\ DropPartial(target))
  BY <1>7, <1>8 DEF Deletes, DropPartial, Unlink
<1>9. CASE Stops
  BY <1>2, <1>6, <1>8, <1>9 DEF Stops
<1>10. CASE Scans \/ Skips \/ (\E to : Takes(to)) \/ FallsBack \/ Begins \/ EndsCopy \/ TurnsToClean
            \/ BeginsDelete \/ EndsDelete \/ Succeeds
  BY <1>2, <1>10 DEF Scans, Skips, Takes, FallsBack, Begins, EndsCopy, TurnsToClean, BeginsDelete, EndsDelete, Succeeds
<1>11. QED
  BY <1>3, <1>4, <1>5, <1>6, <1>8, <1>9, <1>10 DEF Shape

(* PartialFile's guard: whatever fails or is cancelled, no half-written    *)
(* file is left behind, and only the one being written is ever there.      *)
THEOREM OneFragmentHolds == Spec => []OneFragment
<1> DEFINE Inv == TypeInv /\ OneFragment
<1>1. Init => Inv
  <2>1. ASSUME Init PROVE OneFragment
    BY <2>1, PathsTyped DEF Init, OneFragment
  <2>2. QED
    BY <2>1, TypeInit
<1>2. Inv /\ [Next]_vars => Inv'
  <2>1. SUFFICES ASSUME Inv, [Next]_vars PROVE OneFragment'
    BY TypeKept
  <2>2. CASE UNCHANGED vars \/ User
    BY <2>1, <2>2 DEF vars, User, fsVars, threadVars, OneFragment
  <2>3. CASE Worker /\ UNCHANGED <<request, layout, control>>
    BY <2>1, <2>3, Shapes, FragmentKept
  <2>4. QED
    BY <2>1, <2>2, <2>3 DEF Next
<1>3. QED
  BY <1>1, <1>2, PTL DEF Spec

-----------------------------------------------------------------------------
(***************************************************************************)
(* What a step leaves alone.  Only the source in hand, its destination and *)
(* the source being cleaned up are ever written.                           *)
(***************************************************************************)
Same(r) == (\A e \in Names : disk'[<<r, e>>] = disk[<<r, e>>]) /\ (r \in dirs' <=> r \in dirs)

Written(r) ==
  \/ Renames /\ r \in {Source, placed[Source]}
  \/ step \in {"copy", "open", "write"} /\ r = placed[Source]
  \/ step = "clean" /\ copied # <<>> /\ r = Head(copied)
  \/ step = "delete" /\ r = Source

LEMMA SameMeans ==
  ASSUME NEW r, Same(r)
  PROVE  FilesOf(r)' = FilesOf(r) /\ (Exists(r)' <=> Exists(r))
<1>1. FilesOf(r)' = FilesOf(r)
  BY DEF Same, FilesOf, Names
<1>2. QED
  BY <1>1 DEF Same, Exists

LEMMA Frame ==
  ASSUME TypeInv, Shape, NEW r \in Roots, ~Written(r)
  PROVE  Same(r)
<1> USE DEF TypeInv
<1>0. /\ disk \in [Paths -> Contents] /\ (left # <<>> => Source \in Roots)
      /\ \A e \in Names : <<r, e>> \in Paths
  BY DiskTyped, LeftTyped, RequestTyped, PathsTyped DEF TypeOK
<1>1. CASE UNCHANGED <<disk, dirs>>
  BY <1>1 DEF Same
<1>2. CASE Renames
  BY <1>0, <1>2 DEF Renames, Moved, Written, Same
<1>3. CASE Begins
  BY <1>3 DEF Begins, Written, Same
<1>4. ASSUME NEW q, q[1] # r, NEW c, disk' = [disk EXCEPT ![q] = c], UNCHANGED dirs
      PROVE  Same(r)
  <2>1. \A e \in Names : <<r, e>> # q
    BY <1>4
  <2>2. QED
    BY <1>0, <1>4, <2>1 DEF Same
<1>5. ASSUME NEW e, Opens(e)
      PROVE  Same(r)
  BY <1>4, <1>5 DEF Opens, Into, Written
<1>6. CASE Writes
  BY <1>4, <1>6 DEF Writes, StepInv, Written
<1>7. CASE Cleans
  BY <1>0, <1>7 DEF Cleans, Removed, Written, Same
<1>8. ASSUME NEW e, Deletes(e)
      PROVE  Same(r)
  BY <1>4, <1>8 DEF Deletes, Unlink, From, Written
<1>9. CASE EndsDelete
  BY <1>9 DEF EndsDelete, Written, Same
<1>10. CASE Stops
  <2>1. UNCHANGED dirs
    BY <1>10 DEF Stops
  <2>2. CASE UNCHANGED disk
    BY <1>1, <2>1, <2>2
  <2>3. CASE step = "open" /\ \E e \in todo : DropPartial(Into(e))
    BY <1>4, <2>1, <2>3 DEF DropPartial, Unlink, Into, Written
  <2>4. CASE step = "write" /\ DropPartial(target)
    BY <1>4, <2>1, <2>4 DEF DropPartial, Unlink, StepInv, Written
  <2>5. CASE step = "clean" /\ copied # <<>> /\ PartlyRemoved(Head(copied))
    BY <1>0, <2>1, <2>5 DEF PartlyRemoved, Written, Same
  <2>6. QED
    BY <1>10, <2>2, <2>3, <2>4, <2>5 DEF Stops
<1>11. CASE Scans \/ Skips \/ (\E to : Takes(to)) \/ FallsBack \/ EndsCopy \/ TurnsToClean \/ BeginsDelete \/ Succeeds
  BY <1>1, <1>11 DEF Scans, Skips, Takes, FallsBack, EndsCopy, TurnsToClean, BeginsDelete, Succeeds
<1>12. QED
  BY <1>2, <1>3, <1>5, <1>6, <1>7, <1>8, <1>9, <1>10, <1>11 DEF Shape

(* The sources that are done with. *)
Over == Ours \ Range(left)

LEMMA ApartHere ==
  ASSUME Apart(Requests), TypeInv
  PROVE  /\ left # <<>> => Source \notin Range(Tail(left))
         /\ \A s \in Ours : Goals(request, s) \cap Ours = {}
         /\ \A s, t \in Ours : s # t => Goals(request, s) \cap Goals(request, t) = {}
<1>1. /\ \A i, j \in DOMAIN request.sources : request.sources[i] = request.sources[j] => i = j
      /\ \A s \in Ours : Goals(request, s) \cap Ours = {}
      /\ \A s, t \in Ours : s # t => Goals(request, s) \cap Goals(request, t) = {}
  BY DEF Apart, TypeInv, TypeOK, Ours
<1>2. ASSUME left # <<>>, Source \in Range(Tail(left))
      PROVE  FALSE
  <2>1. /\ left \in Seq(Roots) /\ request.sources \in Seq(Roots) /\ Number \in Nat /\ Len(left) \in Nat \ {0}
        /\ Tail(left) \in Seq(Roots) /\ Len(Tail(left)) = Len(left) - 1
        /\ \A i \in 1..Len(Tail(left)) : Tail(left)[i] = left[i + 1]
        /\ Source = left[1]
    BY <1>2, RequestTyped, Heads DEF TypeInv, TypeOK, Source
  <2>2. PICK i \in DOMAIN Tail(left) : Tail(left)[i] = Source
    BY <1>2 DEF Range
  <2>3. i \in 1..Len(Tail(left)) /\ DOMAIN request.sources = 1..Number
    BY <2>1, LenProperties DEF Number
  <2>4. i + 1 \in 1..Len(left) /\ 1 \in 1..Len(left) /\ Len(left) <= Number
    BY <2>1, <2>3 DEF TypeInv, LeftInv
  <2>5. /\ left[i + 1] = request.sources[Number - Len(left) + (i + 1)]
        /\ left[1] = request.sources[Number - Len(left) + 1]
    BY <2>4 DEF TypeInv, LeftInv
  <2>6. /\ Number - Len(left) + (i + 1) \in 1..Number /\ Number - Len(left) + 1 \in 1..Number
        /\ Number - Len(left) + (i + 1) # Number - Len(left) + 1
    BY <2>1, <2>3, <2>4
  <2>7. left[i + 1] = left[1]
    BY <2>1, <2>2, <2>3
  <2>8. QED
    BY <1>1, <2>3, <2>5, <2>6, <2>7
<1>3. QED
  BY <1>1, <1>2

(* A step that goes on keeps what is left, or is done with its source. *)
LEMMA Progress ==
  ASSUME Apart(Requests), TypeInv, Shape, UNCHANGED <<request, layout>>, step' # "done"
  PROVE  /\ Ours' = Ours
         /\ \/ /\ left' = left /\ Range(left)' = Range(left) /\ Over' = Over /\ Source' = Source
               /\ ~(Skips \/ Renames \/ EndsCopy \/ EndsDelete)
            \/ /\ left # <<>> /\ Source \in Ours /\ Source \notin Over
               /\ Range(left)' = Range(left) \ {Source} /\ Over' = Over \cup {Source}
               /\ step' = "top"
               /\ Skips \/ Renames \/ EndsCopy \/ EndsDelete
<1> USE DEF TypeInv
<1>1. Ours' = Ours
  BY DEF Ours
<1>2. CASE Skips \/ Renames \/ EndsCopy \/ EndsDelete
  <2>1. left # <<>> /\ left' = Tail(left) /\ step' = "top"
    BY <1>2 DEF Skips, Renames, EndsCopy, EndsDelete, StepInv
  <2>2. /\ Range(left) = {Source} \cup Range(Tail(left)) /\ Source \notin Range(Tail(left))
        /\ Range(left) \subseteq Ours /\ Source \in Ours
    BY <2>1, ApartHere, Heads, LeftTyped DEF TypeOK, Source
  <2>3. Range(left)' = Range(Tail(left))
    BY <2>1
  <2>4. QED
    BY <1>1, <1>2, <2>1, <2>2, <2>3 DEF Over
<1>3. CASE ~(Skips \/ Renames \/ EndsCopy \/ EndsDelete)
  <2>1. left' = left
    BY <1>3 DEF Shape, Scans, Takes, FallsBack, Begins, Opens, Writes, TurnsToClean, Cleans,
                BeginsDelete, Deletes, Succeeds, Stops, Return
  <2>2. QED
    BY <1>1, <1>3, <2>1 DEF Over, Source
<1>4. QED
  BY <1>2, <1>3

-----------------------------------------------------------------------------
(***************************************************************************)
(* Where the sources go: no two to one place, and none to where a source   *)
(* is.  A place taken by a name the program made up stays taken, so that   *)
(* the question is asked of the next source that would go there.           *)
(***************************************************************************)
PlaceInv ==
  /\ \A s \in Ours : placed[s] = s \/ placed[s] \notin Ours
  /\ \A s, t \in Ours : placed[s] = placed[t] => s = t
  /\ step # "done" /\ mode # "RenameAll" => \A s \in Ours : placed[s] \in {s} \cup Goals(request, s)
  /\ request.kind = "delete" => \A s \in Ours : placed[s] = s

GoingInv ==
  step # "done" =>
    /\ Busy => placed[Source] # Source /\ Exists(Source)
    /\ \A s \in Range(left) : (Busy /\ s = Source) \/ placed[s] = s
    /\ \A s \in Range(copied) : s \in Over /\ placed[s] # s
    /\ \A s \in Over : placed[s] # s => Exists(placed[s])

LEMMA PlaceKept ==
  ASSUME Apart(Requests), TypeInv, PlaceInv, GoingInv, Shape, UNCHANGED <<request, layout>>
  PROVE  PlaceInv'
<1> USE DEF TypeInv
<1>1. Ours' = Ours /\ Ours \subseteq Roots /\ placed \in [Roots -> Roots]
  BY RequestTyped DEF Ours, TypeOK
<1>2. \A s : Goals(request, s)' = Goals(request, s)
  BY DEF Goals
<1>3. ASSUME NEW to, Takes(to)
      PROVE  PlaceInv'
  <2>1. /\ Source \in Ours /\ Source \in Range(left) /\ step = "top" /\ request.kind # "delete"
        /\ placed[Source] = Source /\ to \in Roots
        /\ \A s \in Ours : placed'[s] = IF s = Source THEN to ELSE placed[s]
    <3>1. Source \in Ours /\ Source \in Range(left) /\ step = "top" /\ request.kind # "delete" /\ to \in Roots
      BY <1>3, LeftTyped DEF Takes
    <3>2. placed[Source] = Source
      BY <3>1 DEF GoingInv, Busy
    <3>3. \A s \in Ours : placed'[s] = IF s = Source THEN to ELSE placed[s]
      BY <1>1, <1>3 DEF Takes
    <3>4. QED
      BY <3>1, <3>2, <3>3
  <2>2. /\ to \notin Ours
        /\ \/ to \in Goals(request, Source) /\ mode # "RenameAll"
           \/ ~Exists(to) /\ (to \in Goals(request, Source) \/ mode' = "RenameAll")
        /\ mode' = "RenameAll" \/ mode # "RenameAll"
    <3>1. Dest(Source) \in Goals(request, Source) /\ RenameTo[Source] \subseteq Goals(request, Source)
      BY DEF Dest, Goals
    <3>2. Goals(request, Source) \cap Ours = {}
      BY <2>1, ApartHere
    <3>3. QED
      BY <1>3, <3>1, <3>2 DEF Takes, Chosen
  <2>3. ASSUME NEW s \in Ours, s # Source
        PROVE  placed[s] # to
    <3>1. CASE placed[s] = s
      BY <2>2, <3>1
    <3>2. CASE placed[s] # s
      <4>1. s \in Over /\ Exists(placed[s])
        BY <2>1, <2>3, <3>2 DEF GoingInv, Over, Busy
      <4>2. CASE ~Exists(to)
        BY <4>1, <4>2
      <4>3. CASE to \in Goals(request, Source) /\ mode # "RenameAll"
        <5>1. placed[s] \in Goals(request, s)
          BY <2>1, <3>2, <4>3 DEF PlaceInv
        <5>2. QED
          BY <2>1, <2>3, <4>3, <5>1, ApartHere
      <4>4. QED
        BY <2>2, <4>2, <4>3
    <3>3. QED
      BY <3>1, <3>2
  <2>4. \A s \in Ours : placed'[s] = s \/ placed'[s] \notin Ours
    BY <2>1, <2>2 DEF PlaceInv
  <2>5. \A s, t \in Ours : placed'[s] = placed'[t] => s = t
    BY <2>1, <2>3 DEF PlaceInv
  <2>6. mode' # "RenameAll" => \A s \in Ours : placed'[s] \in {s} \cup Goals(request, s)
    <3>1. mode' # "RenameAll" => to \in Goals(request, Source)
      BY <2>2
    <3>2. QED
      BY <2>1, <2>2, <3>1 DEF PlaceInv
  <2>7. QED
    BY <1>1, <1>2, <2>1, <2>4, <2>5, <2>6 DEF PlaceInv
<1>4. CASE /\ placed' = placed /\ (step = "done" => step' = "done")
           /\ step' # "done" /\ mode' # "RenameAll" => mode # "RenameAll"
  BY <1>1, <1>2, <1>4 DEF PlaceInv
<1>5. QED
  BY <1>3, <1>4 DEF Shape, Scans, Skips, Renames, FallsBack, Begins, Opens, Writes, EndsCopy, TurnsToClean, Cleans,
         BeginsDelete, Deletes, EndsDelete, Succeeds, Stops, Return

(* The places of sources that are done with are not written any more. *)
LEMMA PlacesSafe ==
  ASSUME TypeInv, PlaceInv, GoingInv, step # "done", NEW s \in Over
  PROVE  /\ placed[s] \in Roots
         /\ left # <<>> => placed[s] # Source /\ placed[s] # placed[Source] /\ s # Source
         /\ copied # <<>> => placed[s] # Head(copied)
<1>1. s \in Ours /\ s \notin Range(left) /\ placed[s] \in Roots
  BY RequestTyped DEF Over, TypeInv, TypeOK
<1>2. ASSUME left # <<>>
      PROVE  placed[s] # Source /\ placed[s] # placed[Source] /\ s # Source
  BY <1>1, <1>2, LeftTyped DEF PlaceInv
<1>3. ASSUME copied # <<>>
      PROVE  placed[s] # Head(copied)
  <2>1. Head(copied) \in Range(copied)
    BY <1>3, Heads DEF TypeInv, TypeOK
  <2>2. Head(copied) \in Ours /\ placed[Head(copied)] # Head(copied)
    BY <2>1 DEF GoingInv, Over
  <2>3. QED
    BY <1>1, <2>2 DEF PlaceInv
<1>4. QED
  BY <1>1, <1>2, <1>3

LEMMA PlacesFramed ==
  ASSUME TypeInv, PlaceInv, GoingInv, Shape, step # "done", NEW s \in Over
  PROVE  Same(placed[s])
<1>1. ~Written(placed[s])
  BY PlacesSafe DEF Written, TypeInv, StepInv, Renames
<1>2. QED
  BY <1>1, Frame, PlacesSafe

(* Only the source in hand is written of those that are left. *)
LEMMA LeftFramed ==
  ASSUME TypeInv, PlaceInv, GoingInv, Shape, step # "done", NEW s \in Range(left), ~(Renames \/ step = "delete") \/ s # Source
  PROVE  Same(s)
<1>1. s \in Ours /\ s \in Roots
  BY LeftTyped, RequestTyped DEF TypeInv, TypeOK
<1>2. left # <<>> /\ Source \in Ours
  BY EmptyRange, LeftTyped
<1>3. Busy => s # placed[Source]
  BY <1>1, <1>2 DEF GoingInv, PlaceInv
<1>4. copied # <<>> => s # Head(copied)
  BY Heads DEF GoingInv, Over, TypeInv, TypeOK
<1>5. ~Written(s)
  BY <1>1, <1>3, <1>4 DEF Written, Busy, Renames
<1>6. QED
  BY <1>1, <1>5, Frame

(* The source in hand goes as it is to its place. *)
LEMMA RenameMoves ==
  ASSUME TypeInv, PlaceInv, GoingInv, Renames
  PROVE  /\ Source \in Ours /\ placed[Source] \in Roots /\ placed[Source] # Source
         /\ \A e \in Names : /\ disk'[<<placed[Source], e>>] = disk[<<Source, e>>]
                             /\ disk'[<<Source, e>>] = Absent
         /\ \A r : (r = Source => ~Exists(r)') /\ (r = placed[Source] => Exists(r)')
         /\ placed[Source] \in dirs' <=> Source \in dirs \/ placed[Source] \in dirs
<1>1. Source \in Ours /\ Source \in Roots /\ placed[Source] \in Roots /\ placed[Source] # Source /\ Exists(Source)
  <2>1. left # <<>> /\ Busy /\ step # "done"
    BY DEF Renames, TypeInv, StepInv, Busy
  <2>2. QED
    BY <2>1, LeftTyped, RequestTyped DEF TypeInv, TypeOK, GoingInv
<1>2. \A e \in Names : /\ disk'[<<placed[Source], e>>] = disk[<<Source, e>>]
                       /\ disk'[<<Source, e>>] = Absent
  BY <1>1, PathsTyped DEF Renames, Moved
<1>3. ASSUME NEW r, r = Source
      PROVE  ~Exists(r)'
  <2>1. FilesOf(r)' = {}
    BY <1>2, <1>3 DEF FilesOf, Names
  <2>2. r \notin dirs'
    BY <1>1, <1>3 DEF Renames, Moved
  <2>3. QED
    BY <2>1, <2>2 DEF Exists
<1>4. placed[Source] \in dirs' <=> Source \in dirs \/ placed[Source] \in dirs
  BY <1>1 DEF Renames, Moved
<1>5. ASSUME NEW r, r = placed[Source]
      PROVE  Exists(r)'
  <2>1. Source \notin dirs => FilesOf(r)' = FilesOf(Source)
    BY <1>2, <1>5 DEF FilesOf, Names
  <2>2. QED
    BY <1>1, <1>4, <1>5, <2>1 DEF Exists
<1>6. QED
  BY <1>1, <1>2, <1>3, <1>4, <1>5

-----------------------------------------------------------------------------
(***************************************************************************)
(* A source that is copied: what is not still to be copied is there.       *)
(***************************************************************************)
CopyInv ==
  step \in {"open", "write"} =>
    /\ Source \in dirs => placed[Source] \in dirs
    /\ todo \subseteq FilesOf(Source)
    /\ \A e \in FilesOf(Source) : \/ e \in todo \/ target = <<placed[Source], e>>
                                  \/ disk[<<placed[Source], e>>] = disk[<<Source, e>>]
    /\ step = "write" => target[2] \in FilesOf(Source) \ todo

LEMMA CopyKept ==
  ASSUME TypeInv, PlaceInv, GoingInv, CopyInv, Shape
  PROVE  CopyInv'
<1> USE DEF TypeInv
<1>1. SUFFICES ASSUME Begins \/ (\E e : Opens(e)) \/ Writes
               PROVE  CopyInv'
  BY DEF Shape, CopyInv, Scans, Skips, Takes, Renames, FallsBack, EndsCopy, TurnsToClean, Cleans,
         BeginsDelete, Deletes, EndsDelete, Succeeds, Stops, Return
<1>2. /\ step \in {"copy", "open", "write"} /\ step # "done" /\ left # <<>>
      /\ Source' = Source /\ placed' = placed
      /\ placed[Source] # Source /\ placed[Source] \in Roots /\ Source \in Roots
      /\ disk \in [Paths -> Contents] /\ dirs \subseteq Roots
  <2>1. step \in {"copy", "open", "write"} /\ step # "done" /\ left # <<>> /\ Source' = Source /\ placed' = placed
    BY <1>1 DEF Begins, Opens, Writes, StepInv, Source
  <2>2. Source \in Roots /\ placed[Source] \in Roots
    BY <2>1, LeftTyped, RequestTyped DEF TypeOK
  <2>3. QED
    BY <2>1, <2>2, DiskTyped DEF GoingInv, Busy, TypeOK
<1>3. Same(Source)
  <2>1. Source \in Range(left) /\ ~Renames /\ step # "delete"
    BY <1>2, LeftTyped DEF Renames
  <2>2. QED
    BY <1>2, <2>1, LeftFramed
<1>4. \A r : r = Source => FilesOf(r)' = FilesOf(Source)
  BY <1>3, SameMeans
<1>5. FilesOf(Source)' = FilesOf(Source)
  BY <1>2, <1>3 DEF FilesOf, Same, Names
<1>6. \A e \in Names : /\ disk'[<<Source, e>>] = disk[<<Source, e>>]
                       /\ <<placed[Source], e>> \in Paths /\ <<Source, e>> \in Paths
  BY <1>2, <1>3, PathsTyped DEF Same
<1>7. FilesOf(Source) \subseteq Names
  BY FilesTyped
<1>8. Source \in dirs' <=> Source \in dirs
  BY <1>3 DEF Same
<1>9. CASE Begins
  <2>1. Source \in dirs' => placed[Source] \in dirs'
    BY <1>8, <1>9 DEF Begins
  <2>2. todo' = FilesOf(Source) /\ step' # "write"
    BY <1>9 DEF Begins
  <2>3. QED
    BY <1>2, <1>5, <2>1, <2>2 DEF CopyInv
<1>10. ASSUME NEW e, Opens(e)
       PROVE  CopyInv'
  <2>1. /\ dirs' = dirs /\ e \in todo /\ todo' = todo \ {e} /\ target' = <<placed[Source], e>> /\ step' = "write"
        /\ target = Absent /\ disk' = [disk EXCEPT ![<<placed[Source], e>>] = Fragment] /\ step = "open"
    BY <1>10 DEF Opens, Into, StepInv
  <2>2. e \in FilesOf(Source) /\ todo \subseteq FilesOf(Source)
    BY <2>1 DEF CopyInv
  <2>3. ASSUME NEW d \in FilesOf(Source), d \notin todo, d # e
        PROVE  disk'[<<placed[Source], d>>] = disk[<<Source, d>>]
    <3>1. target # <<placed[Source], d>>
      BY <1>6, <1>7, <2>1, <2>3, PathsTyped
    <3>2. disk[<<placed[Source], d>>] = disk[<<Source, d>>]
      BY <2>1, <2>3, <3>1 DEF CopyInv
    <3>3. <<placed[Source], d>> # <<placed[Source], e>> /\ <<placed[Source], d>> \in Paths
      BY <1>6, <1>7, <2>3
    <3>4. disk'[<<placed[Source], d>>] = disk[<<placed[Source], d>>]
      BY <1>2, <2>1, <3>3
    <3>5. QED
      BY <3>2, <3>4
  <2>4. Source \in dirs' => placed[Source] \in dirs'
    BY <1>8, <2>1 DEF CopyInv
  <2>5. todo' \subseteq FilesOf(Source) /\ target'[2] \in FilesOf(Source) \ todo'
    BY <2>1, <2>2
  <2>6. \A d \in FilesOf(Source) : \/ d \in todo' \/ target' = <<placed[Source], d>>
                                   \/ disk'[<<placed[Source], d>>] = disk'[<<Source, d>>]
    BY <1>6, <1>7, <2>1, <2>3
  <2>7. QED
    BY <1>2, <1>5, <2>4, <2>5, <2>6 DEF CopyInv
<1>11. CASE Writes
  <2>1. /\ dirs' = dirs /\ todo' = todo /\ target' = Absent /\ step' = "open" /\ step = "write"
        /\ disk' = [disk EXCEPT ![target] = disk[<<Source, target[2]>>]]
        /\ target \in Paths /\ target[1] = placed[Source]
    BY <1>11 DEF Writes, From, StepInv
  <2>2. target = <<placed[Source], target[2]>>
    BY <2>1, PathsTyped
  <2>3. Source \in dirs' => placed[Source] \in dirs'
    BY <1>8, <2>1 DEF CopyInv
  <2>4. ASSUME NEW d \in FilesOf(Source), d \notin todo
        PROVE  disk'[<<placed[Source], d>>] = disk[<<Source, d>>]
    <3>1. CASE target = <<placed[Source], d>>
      <4>1. target[2] = d /\ <<placed[Source], d>> = target
        BY <3>1
      <4>2. disk'[target] = disk[<<Source, target[2]>>]
        BY <1>2, <2>1
      <4>3. QED
        BY <4>1, <4>2
    <3>2. CASE target # <<placed[Source], d>>
      <4>1. disk[<<placed[Source], d>>] = disk[<<Source, d>>]
        BY <2>1, <2>4, <3>2 DEF CopyInv
      <4>2. disk'[<<placed[Source], d>>] = disk[<<placed[Source], d>>]
        BY <1>2, <1>6, <1>7, <2>1, <2>4, <3>2
      <4>3. QED
        BY <4>1, <4>2
    <3>3. QED
      BY <3>1, <3>2
  <2>5. todo' \subseteq FilesOf(Source) /\ step' # "write"
    BY <2>1 DEF CopyInv
  <2>6. \A d \in FilesOf(Source) : d \in todo' \/ disk'[<<placed[Source], d>>] = disk'[<<Source, d>>]
    BY <1>6, <1>7, <2>1, <2>4
  <2>7. QED
    BY <1>2, <1>5, <2>3, <2>5, <2>6 DEF CopyInv
<1>12. QED
  BY <1>1, <1>9, <1>10, <1>11

(* When nothing is left to be copied, everything is there. *)
LEMMA CopyEnds ==
  ASSUME TypeInv, GoingInv, CopyInv, EndsCopy
  PROVE  /\ \A e \in FilesOf(Source) : disk[<<placed[Source], e>>] = disk[<<Source, e>>]
         /\ Exists(placed[Source])
<1>1. step = "open" /\ todo = {} /\ target = Absent /\ left # <<>> /\ step # "done" /\ Busy
  BY DEF EndsCopy, TypeInv, StepInv, Busy
<1>2. placed[Source] \in Roots /\ FilesOf(Source) \subseteq Names
  BY <1>1, LeftTyped, RequestTyped, FilesTyped DEF TypeInv, TypeOK
<1>3. \A e \in FilesOf(Source) : target # <<placed[Source], e>>
  BY <1>1, <1>2, PathsTyped
<1>4. \A e \in FilesOf(Source) : disk[<<placed[Source], e>>] = disk[<<Source, e>>]
  BY <1>1, <1>3 DEF CopyInv
<1>5. FilesOf(Source) \subseteq FilesOf(placed[Source])
  BY <1>4 DEF FilesOf
<1>6. Exists(Source) /\ (Source \in dirs => placed[Source] \in dirs)
  BY <1>1 DEF GoingInv, CopyInv
<1>7. QED
  BY <1>4, <1>5, <1>6 DEF Exists

(* The last of a list, and what is behind its head. *)
LEMMA Lasts ==
  ASSUME NEW s \in Seq(Roots), NEW r \in Roots
  PROVE  Range(Append(s, r)) = Range(s) \cup {r}
<1>1. /\ Append(s, r) \in Seq(Roots) /\ Len(Append(s, r)) = Len(s) + 1 /\ Len(s) \in Nat
      /\ \A i \in 1..Len(s) : Append(s, r)[i] = s[i]
      /\ Append(s, r)[Len(s) + 1] = r
  BY AppendProperties, LenProperties
<1>2. DOMAIN s = 1..Len(s) /\ DOMAIN Append(s, r) = 1..(Len(s) + 1)
  BY <1>1, LenProperties
<1>3. 1..(Len(s) + 1) = 1..Len(s) \cup {Len(s) + 1}
  BY <1>1
<1>4. Range(s) = {s[i] : i \in 1..Len(s)} /\ Range(Append(s, r)) = {Append(s, r)[i] : i \in 1..(Len(s) + 1)}
  BY <1>2 DEF Range
<1>5. QED
  BY <1>1, <1>3, <1>4

LEMMA GoingKept ==
  ASSUME Apart(Requests), TypeInv, PlaceInv, GoingInv, CopyInv, Shape, UNCHANGED <<request, layout>>
  PROVE  GoingInv'
<1> USE DEF TypeInv
<1>1. SUFFICES ASSUME step' # "done" PROVE GoingInv'
  BY DEF GoingInv
<1>2. step # "done"
  BY <1>1 DEF Shape, Scans, Skips, Takes, Renames, FallsBack, Begins, Opens, Writes, EndsCopy, TurnsToClean,
         Cleans, BeginsDelete, Deletes, EndsDelete, Succeeds, Stops
<1>3. /\ left # <<>> => Source \in Range(left) /\ Source \in Ours /\ Source \in Roots
      /\ Range(left) \subseteq Ours /\ Ours \subseteq Roots /\ placed \in [Roots -> Roots]
  BY LeftTyped, RequestTyped DEF TypeOK
<1>4. /\ Ours' = Ours
      /\ \/ Range(left)' = Range(left) /\ Over' = Over /\ Source' = Source
            /\ ~(Skips \/ Renames \/ EndsCopy \/ EndsDelete)
         \/ /\ left # <<>> /\ Source \in Ours /\ Source \notin Over
            /\ Range(left)' = Range(left) \ {Source} /\ Over' = Over \cup {Source}
            /\ step' = "top" /\ (Skips \/ Renames \/ EndsCopy \/ EndsDelete)
  BY <1>1, Progress
<1>5. (\E to : Takes(to)) \/ placed' = placed
  BY DEF Shape, Scans, Skips, Renames, FallsBack, Begins, Opens, Writes, EndsCopy, TurnsToClean,
         Cleans, BeginsDelete, Deletes, EndsDelete, Succeeds, Stops, Return
<1>6. ASSUME NEW to, Takes(to)
      PROVE  /\ left # <<>> /\ step = "top" /\ to # Source /\ Source' = Source /\ ~(Skips \/ Renames \/ EndsCopy \/ EndsDelete)
             /\ UNCHANGED <<disk, dirs, copied>>
             /\ \A s \in Ours : placed'[s] = IF s = Source THEN to ELSE placed[s]
  <2>1. left # <<>> /\ step = "top" /\ Source' = Source /\ UNCHANGED <<disk, dirs, copied>>
        /\ ~(Skips \/ Renames \/ EndsCopy \/ EndsDelete)
    BY <1>6, HeadTailProperties DEF Takes, Source, Skips, Renames, EndsCopy, EndsDelete
  <2>2. to # Source
    <3>1. Goals(request, Source) \cap Ours = {} /\ Dest(Source) \in Goals(request, Source)
          /\ RenameTo[Source] \subseteq Goals(request, Source)
      BY <1>3, <2>1, ApartHere DEF Dest, Goals
    <3>2. QED
      BY <1>3, <1>6, <2>1, <3>1 DEF Takes, Chosen
  <2>3. \A s \in Ours : placed'[s] = IF s = Source THEN to ELSE placed[s]
    BY <1>3, <1>6 DEF Takes
  <2>4. QED
    BY <2>1, <2>2, <2>3
<1>7. \A s \in Over : placed'[s] = placed[s]
  <2>1. \A s \in Over : s \in Ours /\ (left # <<>> => s # Source)
    BY <1>3 DEF Over
  <2>2. QED
    BY <1>5, <1>6, <2>1
<1>8. Busy' => placed'[Source'] # Source' /\ \A r : r = Source' => Exists(r)'
  <2>1. SUFFICES ASSUME Busy'
                 PROVE  placed'[Source'] # Source' /\ \A r : r = Source' => Exists(r)'
    OBVIOUS
  <2>2. CASE \E to : Takes(to)
    <3>1. PICK to : Takes(to)
      BY <2>2
    <3>2. Exists(Source) /\ placed'[Source'] = to /\ to # Source /\ Source' = Source
      BY <1>3, <1>6, <3>1 DEF Takes
    <3>3. \A r : r = Source => (Exists(r)' <=> Exists(r))
      BY <3>1 DEF Takes, Exists, FilesOf
    <3>4. QED
      BY <3>2, <3>3
  <2>3. CASE FallsBack \/ Begins \/ (\E e : Opens(e)) \/ Writes
    <3>1. Busy /\ left # <<>> /\ step # "delete" /\ placed' = placed /\ left' = left /\ ~Renames
      BY <2>3 DEF FallsBack, Begins, Opens, Writes, Busy, StepInv, Renames
    <3>2. Same(Source) /\ placed[Source] # Source /\ Exists(Source) /\ Source' = Source
      BY <1>2, <1>3, <3>1, LeftFramed DEF GoingInv, Source
    <3>3. QED
      BY <3>1, <3>2, SameMeans
  <2>4. QED
    BY <2>1, <2>2, <2>3 DEF Shape, Busy, Scans, Skips, Renames, EndsCopy, TurnsToClean,
         Cleans, BeginsDelete, Deletes, EndsDelete, Succeeds, Stops, Return
<1>9. \A s \in Range(left)' : (Busy' /\ s = Source') \/ placed'[s] = s
  <2>1. SUFFICES ASSUME NEW s \in Range(left)'
                 PROVE  (Busy' /\ s = Source') \/ placed'[s] = s
    OBVIOUS
  <2>2. s \in Range(left) /\ s \in Ours
    BY <1>3, <1>4, <2>1
  <2>3. (Busy /\ s = Source) \/ placed[s] = s
    BY <1>2, <2>2 DEF GoingInv
  <2>4. CASE \E to : Takes(to)
    <3>1. PICK to : Takes(to)
      BY <2>4
    <3>2. Busy' /\ ~Busy
      BY <3>1 DEF Takes, Busy
    <3>3. QED
      BY <1>6, <2>2, <2>3, <3>1, <3>2
  <2>5. CASE FallsBack \/ Begins \/ (\E e : Opens(e)) \/ Writes
    <3>1. Busy' /\ placed' = placed /\ Source' = Source
      BY <2>5 DEF FallsBack, Begins, Opens, Writes, Busy, Source
    <3>2. QED
      BY <2>3, <3>1
  <2>6. CASE Skips \/ Renames \/ EndsCopy \/ EndsDelete
    <3>1. s # Source
      BY <1>4, <2>1, <2>6
    <3>2. QED
      BY <1>5, <1>6, <2>3, <2>6, <3>1
  <2>7. CASE ~Busy /\ placed' = placed
    BY <2>3, <2>7
  <2>8. QED
    BY <2>4, <2>5, <2>6, <2>7, <1>1 DEF Shape, Busy, Scans, TurnsToClean, Cleans, BeginsDelete, Deletes, Succeeds, Stops, Return
<1>10. \A s \in Range(copied)' : s \in Over' /\ placed'[s] # s
  <2>1. \A s \in Range(copied) : s \in Over /\ s \in Over' /\ placed'[s] # s
    BY <1>2, <1>4, <1>7 DEF GoingInv
  <2>2. CASE EndsCopy
    <3>1. Range(copied)' = Range(copied) \cup {Source}
      BY <1>3, <2>2, Lasts DEF EndsCopy, StepInv, TypeOK
    <3>2. Source \in Over' /\ placed'[Source] # Source
      BY <1>2, <1>4, <2>2 DEF EndsCopy, GoingInv, Busy
    <3>3. QED
      BY <2>1, <3>1, <3>2
  <2>3. CASE Cleans
    <3>1. Range(copied)' \subseteq Range(copied)
      BY <2>3, Heads DEF Cleans, TypeOK
    <3>2. QED
      BY <2>1, <3>1
  <2>4. CASE copied' = copied
    BY <2>1, <2>4
  <2>5. QED
    BY <2>2, <2>3, <2>4 DEF Shape, Scans, Skips, Takes, Renames, FallsBack, Begins, Opens, Writes, TurnsToClean,
         BeginsDelete, Deletes, EndsDelete, Succeeds, Stops, Return
<1>11. \A s \in Over' : \A r : r = placed'[s] /\ r # s => Exists(r)'
  <2>1. ASSUME NEW s \in Over, NEW r, r = placed'[s], r # s
        PROVE  Exists(r)'
    <3>1. r = placed[s] /\ Same(placed[s]) /\ Exists(placed[s])
      BY <1>2, <1>7, <2>1, PlacesFramed DEF GoingInv
    <3>2. QED
      BY <3>1, SameMeans
  <2>2. ASSUME NEW r, r = placed'[Source], r # Source, Skips \/ Renames \/ EndsCopy \/ EndsDelete, left # <<>>
        PROVE  Exists(r)'
    <3>1. r = placed[Source]
      BY <1>5, <1>6, <2>2
    <3>2. CASE Skips
      BY <1>2, <1>3, <2>2, <3>1, <3>2 DEF Skips, GoingInv, Busy
    <3>3. CASE Renames
      BY <3>1, <3>3, RenameMoves
    <3>4. CASE EndsCopy
      BY <3>1, <3>4, CopyEnds DEF EndsCopy, Exists, FilesOf
    <3>5. CASE EndsDelete
      BY <1>3, <2>2, <3>1, <3>5 DEF EndsDelete, StepInv, PlaceInv
    <3>6. QED
      BY <2>2, <3>2, <3>3, <3>4, <3>5
  <2>3. QED
    BY <1>4, <2>1, <2>2
<1>12. QED
  BY <1>8, <1>9, <1>10, <1>11 DEF GoingInv

-----------------------------------------------------------------------------
(***************************************************************************)
(* What was in the sources: of those left, all is where it was; of those   *)
(* that are done with, all is at their place; and when the thread stops    *)
(* halfway a source is still whole.                                        *)
(***************************************************************************)
Content(p) == IF p \in layout.files THEN p ELSE Absent
Untouched(s) ==
  /\ \A e \in Names : disk[<<s, e>>] = Content(<<s, e>>)
  /\ s \in dirs <=> s \in layout.dirs
Kept(s) == \A e \in Names : <<s, e>> \in layout.files => disk[<<s, e>>] = <<s, e>>
There(s) == \A e \in Names : <<s, e>> \in layout.files => disk[<<placed[s], e>>] = <<s, e>>

LeftSafe ==
  step # "done" => \A s \in Range(left) : (step = "delete" /\ s = Source) \/ Untouched(s)
OverSafe ==
  step # "done" /\ request.kind # "delete" => \A s \in Over : There(s)
SourcesSafe ==
  request.kind # "delete" => \A s \in Ours : Kept(s) \/ There(s)

LEMMA UntouchedMeans ==
  ASSUME TypeInv, NEW s \in Ours, Untouched(s)
  PROVE  /\ Kept(s)
         /\ \A e \in Names : <<s, e>> \in layout.files => e \in FilesOf(s) /\ disk[<<s, e>>] = <<s, e>>
<1>1. s \in Roots
  BY RequestTyped DEF TypeInv, TypeOK
<1>2. \A e \in Names : <<s, e>> \in Paths
  BY <1>1, PathsTyped
<1>3. \A e \in Names : <<s, e>> \in layout.files => disk[<<s, e>>] = <<s, e>> /\ disk[<<s, e>>] # Absent
  BY <1>2, PathsTyped DEF Untouched, Content
<1>4. QED
  BY <1>3 DEF Kept, FilesOf, Names

LEMMA LeftSafeKept ==
  ASSUME Apart(Requests), TypeInv, PlaceInv, GoingInv, LeftSafe, Shape, UNCHANGED <<request, layout>>
  PROVE  LeftSafe'
<1> USE DEF TypeInv
<1>1. SUFFICES ASSUME step' # "done", NEW s \in Range(left)', ~(step' = "delete" /\ s = Source')
               PROVE  Untouched(s)'
  BY DEF LeftSafe
<1>2. step # "done"
  BY <1>1 DEF Shape, Scans, Skips, Takes, Renames, FallsBack, Begins, Opens, Writes, EndsCopy, TurnsToClean,
         Cleans, BeginsDelete, Deletes, EndsDelete, Succeeds, Stops
<1>3. /\ \/ Range(left)' = Range(left) /\ Source' = Source /\ ~(Skips \/ Renames \/ EndsCopy \/ EndsDelete)
         \/ Range(left)' = Range(left) \ {Source} /\ (Skips \/ Renames \/ EndsCopy \/ EndsDelete)
  BY <1>1, Progress
<1>4. s \in Range(left)
  BY <1>1, <1>3
<1>5. ~(step = "delete" /\ s = Source)
  <2>1. step = "delete" => step' = "delete" \/ EndsDelete
    BY <1>1 DEF Shape, Scans, Skips, Takes, Renames, FallsBack, Begins, Opens, Writes, EndsCopy, TurnsToClean,
         Cleans, BeginsDelete, Deletes, Succeeds, Stops, Return
  <2>2. QED
    BY <1>1, <1>3, <2>1
<1>6. Renames => s # Source
  BY <1>1, <1>3
<1>7. Same(s) /\ Untouched(s)
  BY <1>2, <1>4, <1>5, <1>6, LeftFramed DEF LeftSafe
<1>8. \A p : Content(p)' = Content(p)
  BY DEF Content
<1>9. QED
  BY <1>7, <1>8 DEF Same, Untouched

LEMMA OverSafeKept ==
  ASSUME Apart(Requests), TypeInv, PlaceInv, GoingInv, CopyInv, LeftSafe, OverSafe, Shape, UNCHANGED <<request, layout>>
  PROVE  OverSafe'
<1> USE DEF TypeInv
<1>1. SUFFICES ASSUME step' # "done", request.kind # "delete"
               PROVE  \A s \in Over' : There(s)'
  BY DEF OverSafe
<1>2. step # "done" /\ step # "delete"
  BY <1>1 DEF Shape, Scans, Skips, Takes, Renames, FallsBack, Begins, Opens, Writes, EndsCopy, TurnsToClean,
         Cleans, BeginsDelete, Deletes, EndsDelete, Succeeds, Stops, StepInv
<1>3. \/ Over' = Over
      \/ /\ left # <<>> /\ Source \in Ours /\ Over' = Over \cup {Source}
         /\ Skips \/ Renames \/ EndsCopy
  BY <1>1, <1>2, Progress DEF EndsDelete
<1>4. ASSUME NEW s \in Over
      PROVE  There(s)'
  <2>1. Same(placed[s]) /\ There(s)
    BY <1>1, <1>2, <1>4, PlacesFramed DEF OverSafe
  <2>2. placed'[s] = placed[s]
    <3>1. s \in Roots /\ placed \in [Roots -> Roots] /\ (left # <<>> => s # Source)
      BY <1>2, <1>4, PlacesSafe, RequestTyped DEF TypeOK, Over
    <3>2. ASSUME NEW to, Takes(to) PROVE placed'[s] = placed[s]
      BY <3>1, <3>2 DEF Takes
    <3>3. QED
      BY <3>2 DEF Shape, Scans, Skips, Renames, FallsBack, Begins, Opens, Writes, EndsCopy, TurnsToClean,
         Cleans, BeginsDelete, Deletes, EndsDelete, Succeeds, Stops, Return
  <2>3. QED
    BY <2>1, <2>2 DEF Same, There
<1>5. ASSUME Skips \/ Renames \/ EndsCopy, left # <<>>, NEW s, s = Source
      PROVE  There(s)'
  <2>1. Source \in Range(left) /\ s \in Ours /\ placed' = placed
    BY <1>5, LeftTyped DEF Skips, Renames, EndsCopy
  <2>2. \A e \in Names : <<s, e>> \in layout.files => e \in FilesOf(s) /\ disk[<<s, e>>] = <<s, e>>
    BY <1>2, <1>5, <2>1, UntouchedMeans DEF LeftSafe
  <2>3. CASE Skips
    <3>1. placed[s] = s /\ disk' = disk
      BY <1>2, <1>5, <2>1, <2>3 DEF Skips, GoingInv, Busy
    <3>2. QED
      BY <2>1, <2>2, <3>1 DEF There
  <2>4. CASE Renames
    BY <1>5, <2>1, <2>2, <2>4, RenameMoves DEF There
  <2>5. CASE EndsCopy
    <3>1. disk' = disk
      BY <2>5 DEF EndsCopy
    <3>2. QED
      BY <1>5, <2>1, <2>2, <2>5, <3>1, CopyEnds DEF There
  <2>6. QED
    BY <1>5, <2>3, <2>4, <2>5
<1>6. QED
  BY <1>3, <1>4, <1>5

LEMMA SourcesSafeKept ==
  ASSUME Apart(Requests), TypeInv, PlaceInv, GoingInv, CopyInv, LeftSafe, OverSafe, SourcesSafe, Shape,
         UNCHANGED <<request, layout>>
  PROVE  SourcesSafe'
<1> USE DEF TypeInv
<1>1. SUFFICES ASSUME request.kind # "delete", NEW s \in Ours
               PROVE  Kept(s)' \/ There(s)'
  BY DEF SourcesSafe, Ours
<1>2. CASE step' # "done"
  <2>1. LeftSafe' /\ OverSafe'
    BY LeftSafeKept, OverSafeKept
  <2>2. step' # "delete" /\ Ours' = Ours
    BY <1>1, <1>2, StepKept DEF StepInv, Ours
  <2>3. CASE s \in Range(left)'
    <3>1. Untouched(s)'
      BY <1>2, <2>1, <2>2, <2>3 DEF LeftSafe
    <3>2. s \in Roots /\ layout.files \subseteq Paths /\ layout' = layout
      BY <1>1, RequestTyped DEF TypeOK
    <3>3. QED
      BY <3>1, <3>2 DEF Untouched, Kept, Content
  <2>4. CASE s \notin Range(left)'
    BY <1>1, <1>2, <2>1, <2>2, <2>4 DEF OverSafe, Over
  <2>5. QED
    BY <2>3, <2>4
<1>3. CASE step' = "done"
  <2>1. step # "done" /\ placed' = placed /\ ~Renames /\ step # "delete"
    BY <1>1, <1>3 DEF Shape, Scans, Skips, Takes, Renames, FallsBack, Begins, Opens, Writes, EndsCopy, TurnsToClean,
         Cleans, BeginsDelete, Deletes, EndsDelete, Succeeds, Stops, Return, StepInv
  <2>2. CASE s \in Range(left)
    <3>1. Same(s) /\ Kept(s)
      BY <1>1, <2>1, <2>2, LeftFramed, UntouchedMeans DEF LeftSafe
    <3>2. QED
      BY <3>1 DEF Same, Kept
  <2>3. CASE s \notin Range(left)
    <3>1. Same(placed[s]) /\ There(s)
      BY <1>1, <2>1, <2>3, PlacesFramed DEF OverSafe, Over
    <3>2. QED
      BY <2>1, <3>1 DEF Same, There
  <2>4. QED
    BY <2>2, <2>3
<1>4. QED
  BY <1>2, <1>3

(* What holds at every step of what goes where. *)
MoveInv ==
  /\ TypeInv /\ PlaceInv /\ GoingInv /\ CopyInv /\ LeftSafe /\ OverSafe /\ SourcesSafe

LEMMA MoveInit ==
  ASSUME Init
  PROVE  MoveInv
<1>1. TypeInv
  BY TypeInit
<1>2. Ours \subseteq Roots /\ layout.files \subseteq Paths /\ request.sources \in Seq(Roots)
  BY <1>1, RequestTyped DEF TypeInv, TypeOK
<1>3. Range(left) = Ours /\ Over = {} /\ \A s \in Ours : placed[s] = s
  BY <1>2 DEF Init, Over, Ours
<1>4. PlaceInv
  BY <1>3 DEF PlaceInv
<1>5. GoingInv
  BY <1>3, EmptyRange DEF Init, GoingInv, Busy
<1>6. CopyInv
  BY DEF Init, CopyInv
<1>7. \A s \in Ours : Untouched(s)
  BY <1>2, PathsTyped DEF Init, Untouched, Content
<1>8. LeftSafe /\ OverSafe /\ SourcesSafe
  BY <1>1, <1>3, <1>7, UntouchedMeans DEF LeftSafe, OverSafe, SourcesSafe
<1>9. QED
  BY <1>1, <1>4, <1>5, <1>6, <1>8 DEF MoveInv

LEMMA MoveKept ==
  ASSUME Apart(Requests), MoveInv, [Next]_vars
  PROVE  MoveInv'
<1>1. TypeInv'
  BY TypeKept DEF MoveInv
<1>2. CASE UNCHANGED vars \/ User
  <2>1. UNCHANGED <<request, layout, disk, dirs, step, left, todo, target, mode, placed, copied>>
    BY <1>2 DEF vars, User, fsVars, threadVars
  <2>2. PlaceInv' /\ GoingInv'
    BY <2>1 DEF MoveInv, PlaceInv, GoingInv, Over, Ours, Busy, Goals, Source, Exists, FilesOf
  <2>3. CopyInv'
    BY <2>1 DEF MoveInv, CopyInv, Source, FilesOf
  <2>4. LeftSafe' /\ OverSafe' /\ SourcesSafe'
    BY <2>1 DEF MoveInv, LeftSafe, OverSafe, SourcesSafe, Over, Ours, Untouched, Kept, There, Content, Source
  <2>5. QED
    BY <1>1, <2>2, <2>3, <2>4 DEF MoveInv
<1>3. CASE Worker /\ UNCHANGED <<request, layout, control>>
  <2>1. Shape
    BY <1>3, Shapes DEF MoveInv
  <2>2. QED
    BY <1>1, <1>3, <2>1, PlaceKept, GoingKept, CopyKept, LeftSafeKept, OverSafeKept, SourcesSafeKept DEF MoveInv
<1>4. QED
  BY <1>2, <1>3 DEF Next

(* Copies and moves lose nothing, wherever they fail or are cancelled:     *)
(* each file of a source is whole at the source or at its place.           *)
THEOREM NothingLostHolds ==
  ASSUME Apart(Requests)
  PROVE  Spec => []NothingLost
<1>1. Init => MoveInv
  BY MoveInit
<1>2. MoveInv /\ [Next]_vars => MoveInv'
  BY MoveKept
<1>3. MoveInv => NothingLost
  <2>1. SUFFICES ASSUME MoveInv, request.kind # "delete", NEW p \in layout.files, p[1] \in Ours
                 PROVE  \E q \in Paths : disk[q] = p
    BY DEF NothingLost
  <2>2. /\ p \in Paths /\ p[1] \in Roots /\ p[2] \in Names /\ p = <<p[1], p[2]>>
        /\ placed[p[1]] \in Roots
    BY <2>1, RequestTyped, PathsTyped DEF MoveInv, TypeInv, TypeOK
  <2>3. Kept(p[1]) \/ There(p[1])
    BY <2>1 DEF MoveInv, SourcesSafe
  <2>4. <<placed[p[1]], p[2]>> \in Paths
    BY <2>2, PathsTyped
  <2>5. QED
    BY <2>1, <2>2, <2>3, <2>4 DEF Kept, There
<1>4. QED
  BY <1>1, <1>2, <1>3, PTL DEF Spec

-----------------------------------------------------------------------------
(***************************************************************************)
(* What was at the destination.                                            *)
(***************************************************************************)
Asked == {Dest(s) : s \in {q \in Ours : placed[q] = Dest(q)}}

(* A place that a source has under another name than its own was free. *)
ByInv ==
  \A s \in Ours : placed[s] # s /\ placed[s] # Dest(s) =>
    \A p \in layout.files : p[1] = placed[s] => p[1] \in Asked

LEMMA BystandersFramed ==
  ASSUME MoveInv, ByInv, Shape, NEW p \in layout.files, p[1] \notin Ours \cup Asked
  PROVE  Same(p[1])
<1>1. p \in Paths /\ p[1] \in Roots
  BY RequestTyped, PathsTyped DEF MoveInv, TypeInv, TypeOK
<1>2. \A s \in Ours : p[1] # s /\ p[1] # placed[s]
  BY DEF ByInv, Asked
<1>3. step # "done"
  BY DEF Shape, Scans, Skips, Takes, Renames, FallsBack, Begins, Opens, Writes, EndsCopy, TurnsToClean,
         Cleans, BeginsDelete, Deletes, EndsDelete, Succeeds, Stops
<1>4. copied # <<>> => Head(copied) \in Ours
  BY <1>3, Heads DEF MoveInv, TypeInv, TypeOK, GoingInv, Over
<1>5. step \in {"rename", "copy", "open", "write", "delete"} => Source \in Ours
  BY LeftTyped DEF MoveInv, TypeInv, StepInv
<1>6. ~Written(p[1])
  BY <1>2, <1>4, <1>5 DEF Written, Renames
<1>7. QED
  BY <1>1, <1>6, Frame DEF MoveInv

LEMMA BystandersStep ==
  ASSUME Apart(Requests), NamesFree, MoveInv, ByInv, BystandersKept, Shape, UNCHANGED <<request, layout>>
  PROVE  ByInv' /\ BystandersKept'
<1>1. Ours' = Ours /\ Ours \subseteq Roots /\ placed \in [Roots -> Roots] /\ \A s : Dest(s)' = Dest(s)
  BY RequestTyped DEF MoveInv, TypeInv, TypeOK, Ours, Dest
<1>2. \/ placed' = placed
      \/ \E to : /\ left # <<>> /\ Source \in Ours /\ placed[Source] = Source /\ Dest(Source) # Source
                 /\ \A s \in Ours : placed'[s] = IF s = Source THEN to ELSE placed[s]
                 /\ to = Dest(Source) \/ to \in RenameTo[Source] \/ (to \notin Ours /\ ~Exists(to))
  <2>1. ASSUME NEW to, Takes(to)
        PROVE  /\ left # <<>> /\ Source \in Ours /\ placed[Source] = Source /\ Dest(Source) # Source
               /\ \A s \in Ours : placed'[s] = IF s = Source THEN to ELSE placed[s]
               /\ to = Dest(Source) \/ to \in RenameTo[Source] \/ (to \notin Ours /\ ~Exists(to))
    <3>1. left # <<>> /\ Source \in Ours /\ Source \in Range(left) /\ step = "top"
      BY <2>1, LeftTyped DEF Takes, MoveInv
    <3>2. placed[Source] = Source
      BY <3>1 DEF MoveInv, GoingInv, Busy
    <3>3. Dest(Source) # Source
      <4>1. Goals(request, Source) \cap Ours = {} /\ Dest(Source) \in Goals(request, Source)
        BY <3>1, ApartHere DEF MoveInv, Goals, Dest
      <4>2. QED
        BY <3>1, <4>1
    <3>4. \A s \in Ours : placed'[s] = IF s = Source THEN to ELSE placed[s]
      BY <1>1, <2>1 DEF Takes
    <3>5. to = Dest(Source) \/ to \in RenameTo[Source] \/ (to \notin Ours /\ ~Exists(to))
      BY <2>1 DEF Takes, Chosen
    <3>6. QED
      BY <3>1, <3>2, <3>3, <3>4, <3>5
  <2>2. QED
    BY <2>1 DEF Shape, Scans, Skips, Renames, FallsBack, Begins, Opens, Writes, EndsCopy, TurnsToClean,
         Cleans, BeginsDelete, Deletes, EndsDelete, Succeeds, Stops, Return
<1>3. Asked \subseteq Asked'
  BY <1>1, <1>2 DEF Asked
<1>4. ByInv'
  <2>1. SUFFICES ASSUME NEW s \in Ours, placed'[s] # s, placed'[s] # Dest(s), NEW p \in layout.files, p[1] = placed'[s],
                        p[1] \notin Asked'
                 PROVE  FALSE
    BY <1>1 DEF ByInv
  <2>2. CASE placed'[s] = placed[s]
    BY <1>3, <2>1, <2>2 DEF ByInv
  <2>3. CASE placed'[s] # placed[s]
    <3>1. /\ s = Source
          /\ placed'[s] \in RenameTo[Source] \/ (placed'[s] \notin Ours /\ ~Exists(placed'[s]))
      BY <1>2, <2>1, <2>3
    <3>2. /\ p \in Paths /\ p = <<p[1], p[2]>> /\ p[2] \in Names /\ s \in Roots /\ layout \in Layouts
      BY <1>1, RequestTyped, PathsTyped DEF MoveInv, TypeInv, TypeOK
    <3>3. p[1] \notin RenameTo[s]
      BY <3>2 DEF NamesFree
    <3>4. p[1] \notin Ours /\ ~Exists(p[1])
      BY <2>1, <3>1, <3>3
    <3>5. disk[p] = p
      BY <1>3, <2>1, <3>4 DEF BystandersKept, Asked
    <3>6. disk[<<p[1], p[2]>>] # Absent
      BY <3>2, <3>5, PathsTyped
    <3>7. QED
      BY <3>2, <3>4, <3>6 DEF Exists, FilesOf, Names
  <2>4. QED
    BY <2>2, <2>3
<1>5. BystandersKept'
  <2>1. SUFFICES ASSUME NEW p \in layout.files, p[1] \notin Ours \cup Asked
                 PROVE  disk'[p] = p
    BY <1>1, <1>3 DEF BystandersKept, Asked
  <2>2. Same(p[1]) /\ disk[p] = p
    BY <2>1, BystandersFramed DEF BystandersKept, Asked
  <2>3. p = <<p[1], p[2]>> /\ p[2] \in Names
    BY RequestTyped, PathsTyped DEF MoveInv, TypeInv, TypeOK
  <2>4. QED
    BY <2>2, <2>3 DEF Same
<1>6. QED
  BY <1>4, <1>5

(* What was at the destination is only replaced by an item that goes there *)
(* under its own name: a name the program makes up is free when it is made *)
(* up, and stays out of the way of the items that are still to come.       *)
THEOREM BystandersKeptHolds ==
  ASSUME Apart(Requests), NamesFree
  PROVE  Spec => []BystandersKept
<1> DEFINE Inv == MoveInv /\ ByInv /\ BystandersKept
<1>1. Init => Inv
  <2>1. SUFFICES ASSUME Init PROVE Inv
    OBVIOUS
  <2>2. MoveInv
    BY <2>1, MoveInit
  <2>3. \A s \in Ours : placed[s] = s
    BY <2>1, <2>2, RequestTyped DEF Init, MoveInv, TypeInv, TypeOK
  <2>4. \A p \in layout.files : disk[p] = p
    BY <2>1, <2>2, RequestTyped DEF Init, MoveInv, TypeInv, TypeOK
  <2>5. QED
    BY <2>2, <2>3, <2>4 DEF ByInv, BystandersKept
<1>2. Inv /\ [Next]_vars => Inv'
  <2>1. SUFFICES ASSUME Inv, [Next]_vars PROVE ByInv' /\ BystandersKept'
    BY MoveKept
  <2>2. CASE UNCHANGED vars \/ User
    <3>1. UNCHANGED <<request, layout, disk, placed>>
      BY <2>2 DEF vars, User, fsVars, threadVars
    <3>2. QED
      BY <2>1, <3>1 DEF ByInv, BystandersKept, Asked, Ours, Dest
  <2>3. CASE Worker /\ UNCHANGED <<request, layout, control>>
    <3>1. Shape
      BY <2>1, <2>3, Shapes DEF MoveInv
    <3>2. QED
      BY <2>1, <2>3, <3>1, BystandersStep
  <2>4. QED
    BY <2>1, <2>2, <2>3 DEF Next
<1>3. QED
  BY <1>1, <1>2, PTL DEF Spec

-----------------------------------------------------------------------------
(***************************************************************************)
(* What is done with is gone, when it is to go.                            *)
(***************************************************************************)
GoneInv ==
  step # "done" =>
    \A s \in Over : /\ request.kind = "delete" => ~Exists(s)
                    /\ IsMove /\ placed[s] # s => s \in Range(copied) \/ ~Exists(s)
DeleteInv == step = "delete" => todo = FilesOf(Source)

LEMMA DeleteKept ==
  ASSUME TypeInv, DeleteInv, Shape
  PROVE  DeleteInv'
<1>1. CASE BeginsDelete
  <2>1. FilesOf(Source)' = FilesOf(Source) /\ todo' = FilesOf(Source)
    BY <1>1 DEF BeginsDelete, FilesOf, Source
  <2>2. QED
    BY <2>1 DEF DeleteInv
<1>2. ASSUME NEW e, Deletes(e)
      PROVE  DeleteInv'
  <2>1. Source' = Source /\ step = "delete" /\ Source \in Roots /\ disk' = [disk EXCEPT ![<<Source, e>>] = Absent]
        /\ todo' = todo \ {e} /\ todo = FilesOf(Source) /\ disk \in [Paths -> Contents]
    BY <1>2, LeftTyped, RequestTyped, DiskTyped
       DEF Deletes, Source, TypeInv, TypeOK, StepInv, Unlink, From, DeleteInv
  <2>2. \A d \in Names : disk'[<<Source, d>>] = IF d = e THEN Absent ELSE disk[<<Source, d>>]
    <3>1. \A d \in Names : <<Source, d>> \in Paths /\ (<<Source, d>> = <<Source, e>> <=> d = e)
      BY <2>1, PathsTyped
    <3>2. QED
      BY <2>1, <3>1
  <2>3. \A d \in Names : disk'[<<Source', d>>] # Absent <=> d # e /\ disk[<<Source, d>>] # Absent
    BY <2>1, <2>2
  <2>4. FilesOf(Source)' = FilesOf(Source) \ {e}
    BY <2>3 DEF FilesOf, Names
  <2>5. QED
    BY <2>1, <2>4 DEF DeleteInv
<1>3. QED
  BY <1>1, <1>2 DEF Shape, DeleteInv, Scans, Skips, Takes, Renames, FallsBack, Begins, Opens, Writes, EndsCopy, TurnsToClean,
         Cleans, EndsDelete, Succeeds, Stops, Return

LEMMA GoneKept ==
  ASSUME Apart(Requests), MoveInv, DeleteInv, GoneInv, Shape, UNCHANGED <<request, layout>>
  PROVE  GoneInv'
<1> USE DEF MoveInv
<1>1. SUFFICES ASSUME step' # "done" PROVE GoneInv'
  BY DEF GoneInv
<1>2. step # "done" /\ IsMove' = IsMove
  BY <1>1 DEF Shape, Scans, Skips, Takes, Renames, FallsBack, Begins, Opens, Writes, EndsCopy, TurnsToClean,
         Cleans, BeginsDelete, Deletes, EndsDelete, Succeeds, Stops, IsMove
<1>3. \/ Over' = Over
      \/ /\ left # <<>> /\ Source \in Ours /\ Over' = Over \cup {Source}
         /\ Skips \/ Renames \/ EndsCopy \/ EndsDelete
  BY <1>1, Progress
<1>4. ASSUME NEW s \in Over
      PROVE  /\ request.kind = "delete" => ~Exists(s)'
             /\ IsMove /\ placed'[s] # s => s \in Range(copied)' \/ ~Exists(s)'
  <2>1. /\ s \in Ours /\ s \in Roots /\ (left # <<>> => s # Source /\ s # placed[Source] /\ Source \in Ours)
        /\ placed \in [Roots -> Roots] /\ copied \in Seq(Roots)
    <3>1. s \in Ours /\ s \in Roots /\ placed \in [Roots -> Roots] /\ copied \in Seq(Roots)
      BY <1>4, RequestTyped DEF Over, TypeInv, TypeOK
    <3>2. left # <<>> => s # Source /\ Source \in Ours
      BY <1>2, <1>4, PlacesSafe, LeftTyped
    <3>3. QED
      BY <3>1, <3>2 DEF PlaceInv
  <2>2. placed'[s] = placed[s]
    <3>1. ASSUME NEW to, Takes(to) PROVE placed'[s] = placed[s]
      BY <2>1, <3>1 DEF Takes
    <3>2. QED
      BY <3>1 DEF Shape, Scans, Skips, Renames, FallsBack, Begins, Opens, Writes, EndsCopy, TurnsToClean,
         Cleans, BeginsDelete, Deletes, EndsDelete, Succeeds, Stops, Return
  <2>3. CASE Cleans /\ s = Head(copied)
    <3>1. \A e \in Names : disk'[<<s, e>>] = Absent
      BY <2>1, <2>3, PathsTyped DEF Cleans, Removed
    <3>2. FilesOf(s)' = {} /\ s \notin dirs'
      BY <2>3, <3>1 DEF FilesOf, Names, Cleans, Removed
    <3>3. QED
      BY <3>2 DEF Exists
  <2>4. CASE ~(Cleans /\ s = Head(copied))
    <3>1. step = "clean" => Cleans
      BY <1>1 DEF Shape, Scans, Skips, Takes, Renames, FallsBack, Begins, Opens, Writes, EndsCopy, TurnsToClean,
         Cleans, BeginsDelete, Deletes, EndsDelete, Succeeds, Stops, Return
    <3>2. ~Written(s)
      BY <2>1, <2>4, <3>1 DEF Written, Renames, TypeInv, StepInv
    <3>3. Exists(s)' <=> Exists(s)
      BY <2>1, <3>2, Frame, SameMeans
    <3>4. s \in Range(copied) => s \in Range(copied)'
      <4>1. CASE Cleans
        BY <2>1, <2>4, <4>1, Heads DEF Cleans
      <4>2. CASE EndsCopy
        <5>1. Range(copied)' = Range(copied) \cup {Source}
          BY <2>1, <4>2, Lasts, LeftTyped, RequestTyped DEF EndsCopy, TypeInv, StepInv, TypeOK
        <5>2. QED
          BY <5>1
      <4>3. CASE copied' = copied
        BY <4>3
      <4>4. QED
        BY <4>1, <4>2, <4>3 DEF Shape, Scans, Skips, Takes, Renames, FallsBack, Begins, Opens, Writes, TurnsToClean,
         BeginsDelete, Deletes, EndsDelete, Succeeds, Stops, Return
    <3>5. QED
      BY <1>2, <1>4, <2>2, <3>3, <3>4 DEF GoneInv
  <2>5. QED
    BY <2>3, <2>4
<1>5. ASSUME left # <<>>, Skips \/ Renames \/ EndsCopy \/ EndsDelete, NEW s, s = Source
      PROVE  /\ request.kind = "delete" => ~Exists(s)'
             /\ IsMove /\ placed'[s] # s => s \in Range(copied)' \/ ~Exists(s)'
  <2>1. Source \in Range(left) /\ Source \in Roots /\ copied \in Seq(Roots)
    BY <1>5, LeftTyped, RequestTyped DEF TypeInv, TypeOK
  <2>2. CASE Skips
    <3>1. placed'[s] = s /\ request.kind # "delete"
      BY <1>2, <1>5, <2>1, <2>2 DEF Skips, GoingInv, Busy
    <3>2. QED
      BY <3>1
  <2>3. CASE Renames
    BY <1>5, <2>3, RenameMoves
  <2>4. CASE EndsCopy
    <3>1. Range(copied)' = Range(copied) \cup {Source}
      BY <2>1, <2>4, Lasts DEF EndsCopy
    <3>2. request.kind # "delete"
      BY <2>4 DEF EndsCopy, TypeInv, StepInv, Busy
    <3>3. QED
      BY <1>5, <3>1, <3>2
  <2>5. CASE EndsDelete
    <3>1. FilesOf(Source) = {} /\ disk' = disk /\ dirs' = dirs \ {Source}
      BY <2>5 DEF EndsDelete, DeleteInv
    <3>2. FilesOf(s)' = {} /\ s \notin dirs'
      BY <1>5, <3>1 DEF FilesOf
    <3>3. QED
      BY <3>2 DEF Exists
  <2>6. QED
    BY <1>5, <2>2, <2>3, <2>4, <2>5
<1>6. QED
  BY <1>2, <1>3, <1>4, <1>5 DEF GoneInv

-----------------------------------------------------------------------------
(***************************************************************************)
(* The totals.  Once the sources are scanned, what is still to be counted  *)
(* is what is still to be done, by what was there at first.                *)
(***************************************************************************)
Size(s) ==
  Cardinality({e \in Names : <<s, e>> \in layout.files}) + (IF request.kind = "delete" /\ s \in layout.dirs THEN 1 ELSE 0)
FirstSizes == [i \in 1..Number |-> Size(request.sources[i])]
Sums == CHOOSE g : IsSum(g, FirstSizes, Number)

(* What the sources after the first k add up to; those that are taken up. *)
Rest(k) == IF IsMove THEN Number - k ELSE Sums[Number] - Sums[k]
Taken == Number - Len(left)
Open == counts.total - counts.files

CountInv ==
  /\ step = "scan" => counts.files = 0
  /\ counts.skipped = 0 =>
       /\ step \in {"top", "rename", "clean"} => Open = Rest(Taken)
       /\ step = "copy" => Open = Rest(Taken + 1) + Cardinality(FilesOf(Source))
       /\ step = "open" => Open = Rest(Taken + 1) + Cardinality(todo)
       /\ step = "write" => Open = Rest(Taken + 1) + Cardinality(todo) + 1
       /\ step = "delete" => Open = Rest(Taken + 1) + Cardinality(todo) + (IF Source \in dirs THEN 1 ELSE 0)

LEMMA SizeTyped ==
  ASSUME NEW s
  PROVE  Size(s) \in Nat
<1>1. IsFiniteSet(Names)
  BY LocalWorkerAssumption, FS_AddElement DEF Names
<1>2. {e \in Names : <<s, e>> \in layout.files} \subseteq Names
  OBVIOUS
<1>3. Cardinality({e \in Names : <<s, e>> \in layout.files}) \in Nat
  BY <1>1, <1>2, FS_Subset, FS_CardinalityType
<1>4. QED
  BY <1>3 DEF Size

LEMMA SizeCounted ==
  ASSUME TypeInv, NEW s \in Ours, Untouched(s)
  PROVE  /\ FileCount(s) = Size(s)
         /\ FileCount(s) = Cardinality(FilesOf(s)) + (IF request.kind = "delete" /\ s \in dirs THEN 1 ELSE 0)
<1>1. s \in Roots
  BY RequestTyped DEF TypeInv, TypeOK
<1>2. \A e \in Names : disk[<<s, e>>] # Absent <=> <<s, e>> \in layout.files
  <2>1. \A e \in Names : <<s, e>> \in Paths /\ disk[<<s, e>>] = Content(<<s, e>>)
    BY <1>1, PathsTyped DEF Untouched
  <2>2. QED
    BY <2>1, PathsTyped DEF Content
<1>3. FilesOf(s) = {e \in Names : <<s, e>> \in layout.files}
  BY <1>2 DEF FilesOf, Names
<1>4. QED
  BY <1>3 DEF FileCount, Size, Untouched

LEMMA RestSteps ==
  ASSUME TypeInv
  PROVE  /\ Number \in Nat /\ Rest(Number) = 0 /\ IsSum(Sums, FirstSizes, Number)
         /\ Rest(0) = IF IsMove THEN Number ELSE Sums[Number]
         /\ \A k \in 0..Number : Rest(k) \in Int
         /\ \A k \in 1..Number : Rest(k - 1) = Rest(k) + (IF IsMove THEN 1 ELSE Size(request.sources[k]))
<1>1. Number \in Nat /\ FirstSizes \in [1..Number -> Int]
  BY RequestTyped, SizeTyped DEF TypeInv, TypeOK, FirstSizes
<1>2. IsSum(Sums, FirstSizes, Number)
  BY <1>1, SumExists DEF Sums
<1>3. /\ Sums[0] = 0
      /\ \A i \in 1..Number : Sums[i] = Sums[i - 1] + FirstSizes[i]
      /\ Sums \in [0..Number -> Int]
  BY <1>1, <1>2, SumSteps
<1>4. \A k \in 0..Number : Sums[k] \in Int
  BY <1>3
<1>5. 0 \in 0..Number /\ Number \in 0..Number /\ \A k \in 1..Number : k \in 0..Number /\ k - 1 \in 0..Number
  BY <1>1
<1>6. Rest(Number) = 0 /\ (Rest(0) = IF IsMove THEN Number ELSE Sums[Number])
  BY <1>1, <1>3, <1>4, <1>5 DEF Rest
<1>7. \A k \in 0..Number : Rest(k) \in Int
  BY <1>1, <1>4, <1>5 DEF Rest
<1>8. ASSUME NEW k \in 1..Number
      PROVE  Rest(k - 1) = Rest(k) + (IF IsMove THEN 1 ELSE Size(request.sources[k]))
  <2>1. CASE IsMove
    BY <1>1, <2>1 DEF Rest
  <2>2. CASE ~IsMove
    <3>1. Sums[k] = Sums[k - 1] + Size(request.sources[k])
      BY <1>3 DEF FirstSizes
    <3>2. Sums[k] \in Int /\ Sums[k - 1] \in Int /\ Sums[Number] \in Int /\ Size(request.sources[k]) \in Int
      BY <1>4, <1>5, SizeTyped
    <3>3. Rest(k - 1) = Sums[Number] - Sums[k - 1] /\ Rest(k) = Sums[Number] - Sums[k]
      BY <2>2 DEF Rest
    <3>4. QED
      BY <2>2, <3>1, <3>2, <3>3
  <2>3. QED
    BY <2>1, <2>2
<1>9. QED
  BY <1>1, <1>2, <1>6, <1>7, <1>8

LEMMA RestFixed ==
  ASSUME UNCHANGED <<request, layout>>
  PROVE  Number' = Number /\ \A k : Rest(k)' = Rest(k)
<1>1. Number' = Number /\ IsMove' = IsMove /\ \A s : Size(s)' = Size(s)
  BY DEF Number, IsMove, Size
<1>2. FirstSizes' = FirstSizes
  BY <1>1 DEF FirstSizes
<1>3. Sums' = Sums
  BY <1>1, <1>2 DEF Sums, IsSum
<1>4. QED
  BY <1>1, <1>3 DEF Rest

LEMMA RestHere ==
  ASSUME TypeInv, left # <<>>
  PROVE  /\ Taken \in Int /\ Rest(Taken) \in Int /\ Rest(Taken + 1) \in Int
         /\ Rest(Taken) = Rest(Taken + 1) + (IF IsMove THEN 1 ELSE Size(Source))
<1>1. Taken + 1 \in 1..Number /\ request.sources[Taken + 1] = Source /\ Len(left) \in Nat /\ Number \in Nat
  BY LeftTyped, RestSteps DEF Taken
<1>2. Taken \in Int /\ Taken \in 0..Number /\ Taken + 1 \in 0..Number /\ (Taken + 1) - 1 = Taken
  BY <1>1 DEF Taken
<1>3. QED
  BY <1>1, <1>2, RestSteps

LEMMA TotalCounted ==
  ASSUME TypeInv, \A s \in Ours : Untouched(s)
  PROVE  Total = Sums[Number] /\ Sums[Number] \in Int
<1>1. PICK g : IsSum(g, Sizes, Number) /\ Total = g[Number] /\ Total \in Int
  BY TotalIsSum DEF TypeInv
<1>2. \A i \in 1..Number : request.sources[i] \in Ours
  BY RequestTyped, LenProperties DEF Ours, Range, Number, TypeInv, TypeOK
<1>3. Sizes = FirstSizes
  BY <1>2, SizeCounted DEF Sizes, FirstSizes
<1>4. g = Sums
  BY <1>1, <1>3, RestSteps, SumUnique
<1>5. QED
  BY <1>1, <1>4

LEMMA TodoLess ==
  ASSUME TypeInv, NEW e \in todo
  PROVE  Cardinality(todo \ {e}) = Cardinality(todo) - 1
<1>1. IsFiniteSet(todo)
  BY LocalWorkerAssumption, FS_AddElement, FS_Subset DEF TypeInv, TypeOK
<1>2. QED
  BY <1>1, FS_RemoveElement

LEMMA TodoTyped ==
  ASSUME TypeInv
  PROVE  Cardinality(todo) \in Nat
BY LocalWorkerAssumption, FS_AddElement, FS_Subset, FS_CardinalityType DEF TypeInv, TypeOK

LEMMA CountKept ==
  ASSUME Apart(Requests), MoveInv, DeleteInv, CountInv, Shape, UNCHANGED <<request, layout>>
  PROVE  CountInv'
<1> USE DEF MoveInv
<1>1. /\ counts \in [files : Nat, skipped : Nat, total : Int]
      /\ counts.files \in Nat /\ counts.skipped \in Nat /\ counts.total \in Int
  BY DEF TypeInv, TypeOK
<1>2. Number' = Number /\ IsMove' = IsMove /\ \A k : Rest(k)' = Rest(k)
  BY RestFixed DEF IsMove
<1>3. left # <<>> => /\ Source \in Ours /\ Source \in Range(left) /\ left \in Seq(Roots)
                     /\ Taken \in Int /\ Rest(Taken) \in Int /\ Rest(Taken + 1) \in Int
                     /\ Rest(Taken) = Rest(Taken + 1) + (IF IsMove THEN 1 ELSE Size(Source))
                     /\ Cardinality(FilesOf(Source)) \in Nat
  BY LeftTyped, RestHere, FilesTyped DEF TypeInv, TypeOK
<1>4. left' = left => Source' = Source /\ Taken' = Taken
  BY <1>2 DEF Source, Taken
<1>5. left # <<>> /\ left' = Tail(left) => Taken' = Taken + 1
  <2>1. SUFFICES ASSUME left # <<>>, left' = Tail(left) PROVE Taken' = Taken + 1
    OBVIOUS
  <2>2. Len(left') = Len(left) - 1 /\ Len(left) \in Nat /\ Number \in Nat
    BY <1>3, <2>1, Heads, RestSteps
  <2>3. QED
    BY <1>2, <2>2 DEF Taken
<1>6. /\ counts' = [counts EXCEPT !.files = counts.files + 1] =>
           counts'.skipped = counts.skipped /\ Open' = Open - 1
      /\ counts' = counts => counts'.skipped = counts.skipped /\ Open' = Open
      /\ Open \in Int
  BY <1>1 DEF Open
<1>7. \A r : UNCHANGED disk => FilesOf(r)' = FilesOf(r)
  BY DEF FilesOf
<1>8. CASE Scans
  <2>1. left = request.sources /\ Taken = 0 /\ left' = left /\ step' = "top" /\ counts.files = 0
    <3>1. left = request.sources /\ left' = left /\ step' = "top" /\ counts.files = 0
      BY <1>8 DEF Scans, TypeInv, StepInv, CountInv
    <3>2. Number = Len(left) /\ Number \in Nat
      BY <3>1, RestSteps DEF Number
    <3>3. QED
      BY <3>1, <3>2 DEF Taken
  <2>2. \A s \in Ours : Untouched(s)
    BY <1>8, <2>1 DEF Scans, LeftSafe, Ours
  <2>3. counts'.total = Rest(0) /\ counts'.files = 0 /\ Rest(0) \in Int
    <3>1. counts'.total = (IF IsMove THEN Number ELSE Total) /\ counts'.files = 0
      BY <1>1, <1>8, <2>1 DEF Scans
    <3>2. Total = Sums[Number] /\ Sums[Number] \in Int /\ Number \in Int
      BY <2>2, TotalCounted, RestSteps
    <3>3. QED
      BY <3>1, <3>2, RestSteps
  <2>4. Open' = Rest(0)
    BY <2>3 DEF Open
  <2>5. QED
    BY <1>2, <1>4, <2>1, <2>4 DEF CountInv
<1>9. CASE Skips
  <2>1. counts'.skipped = counts.skipped + 1 /\ step' = "top"
    BY <1>1, <1>9 DEF Skips
  <2>2. counts'.skipped # 0
    BY <1>1, <2>1
  <2>3. QED
    BY <2>1, <2>2 DEF CountInv
<1>10. ASSUME NEW to, Takes(to)
       PROVE  CountInv'
  <2>1. left # <<>> /\ left' = left /\ step = "top" /\ counts' = counts /\ request.kind # "delete" /\ UNCHANGED disk
        /\ step' = IF IsMove THEN "rename" ELSE "copy"
    BY <1>10 DEF Takes
  <2>2. counts.skipped = 0 => Open' = Rest(Taken)
    BY <1>6, <2>1 DEF CountInv
  <2>3. Size(Source) = Cardinality(FilesOf(Source))
    <3>1. Untouched(Source)
      BY <1>3, <2>1 DEF LeftSafe
    <3>2. FileCount(Source) = Cardinality(FilesOf(Source)) + 0
      BY <1>3, <2>1, <3>1, SizeCounted
    <3>3. QED
      BY <1>3, <2>1, <3>1, <3>2, SizeCounted
  <2>4. FilesOf(Source)' = FilesOf(Source)
    BY <1>4, <2>1 DEF FilesOf
  <2>5. CASE IsMove
    BY <1>2, <1>4, <2>1, <2>2, <2>5 DEF CountInv
  <2>6. CASE ~IsMove
    <3>1. counts.skipped = 0 => Open' = Rest(Taken + 1) + Cardinality(FilesOf(Source))
      BY <1>3, <2>1, <2>2, <2>3, <2>6
    <3>2. QED
      BY <1>2, <1>4, <2>1, <2>4, <2>6, <3>1 DEF CountInv
  <2>7. QED
    BY <2>5, <2>6
<1>11. CASE Renames
  <2>1. left # <<>> /\ left' = Tail(left) /\ step = "rename" /\ step' = "top" /\ IsMove
        /\ counts' = [counts EXCEPT !.files = counts.files + 1]
    BY <1>11 DEF Renames, TypeInv, StepInv
  <2>2. counts.skipped = 0 => Open' = Rest(Taken + 1)
    <3>1. counts.skipped = 0 => Open = Rest(Taken)
      BY <2>1 DEF CountInv
    <3>2. QED
      BY <1>3, <1>6, <2>1, <3>1
  <2>3. QED
    BY <1>2, <1>5, <1>6, <2>1, <2>2 DEF CountInv
<1>12. CASE FallsBack
  <2>1. left # <<>> /\ left' = left /\ step = "rename" /\ step' = "copy" /\ IsMove /\ UNCHANGED disk
        /\ counts' = [counts EXCEPT !.total = counts.total - 1 + FileCount(Source)]
    BY <1>12 DEF FallsBack, TypeInv, StepInv
  <2>2. FileCount(Source) = Cardinality(FilesOf(Source)) + 0
    BY <2>1 DEF FileCount, IsMove
  <2>3. counts'.skipped = counts.skipped /\ Open' = Open - 1 + Cardinality(FilesOf(Source))
    <3>1. counts'.skipped = counts.skipped /\ counts'.files = counts.files
          /\ counts'.total = counts.total - 1 + FileCount(Source)
      BY <1>1, <2>1
    <3>2. QED
      BY <1>1, <1>3, <2>1, <2>2, <3>1 DEF Open
  <2>4. counts.skipped = 0 => Open' = Rest(Taken + 1) + Cardinality(FilesOf(Source))
    <3>1. counts.skipped = 0 => Open = Rest(Taken)
      BY <2>1 DEF CountInv
    <3>2. QED
      BY <1>3, <1>6, <2>1, <2>3, <3>1
  <2>5. FilesOf(Source)' = FilesOf(Source)
    BY <1>4, <2>1 DEF FilesOf
  <2>6. QED
    BY <1>2, <1>4, <2>1, <2>3, <2>4, <2>5 DEF CountInv
<1>13. CASE Begins
  <2>1. left' = left /\ step = "copy" /\ step' = "open" /\ todo' = FilesOf(Source) /\ counts' = counts
    BY <1>13 DEF Begins
  <2>2. counts.skipped = 0 => Open' = Rest(Taken + 1) + Cardinality(todo')
    BY <1>6, <2>1 DEF CountInv
  <2>3. QED
    BY <1>2, <1>4, <2>1, <2>2 DEF CountInv
<1>14. ASSUME NEW e, Opens(e)
       PROVE  CountInv'
  <2>1. left' = left /\ step = "open" /\ step' = "write" /\ e \in todo /\ todo' = todo \ {e} /\ counts' = counts
        /\ left # <<>>
    BY <1>14 DEF Opens, TypeInv, StepInv
  <2>2. Cardinality(todo') = Cardinality(todo) - 1 /\ Cardinality(todo) \in Nat
    BY <2>1, TodoLess, TodoTyped
  <2>3. counts.skipped = 0 => Open = Rest(Taken + 1) + Cardinality(todo)
    BY <2>1 DEF CountInv
  <2>4. counts.skipped = 0 => Open' = Rest(Taken + 1) + Cardinality(todo') + 1
    BY <1>3, <1>6, <2>1, <2>2, <2>3
  <2>5. QED
    BY <1>2, <1>4, <2>1, <2>4 DEF CountInv
<1>15. CASE Writes
  <2>1. left' = left /\ step = "write" /\ step' = "open" /\ todo' = todo /\ left # <<>>
        /\ counts' = [counts EXCEPT !.files = counts.files + 1]
    BY <1>15 DEF Writes, TypeInv, StepInv
  <2>2. counts.skipped = 0 => Open = Rest(Taken + 1) + Cardinality(todo) + 1
    BY <2>1 DEF CountInv
  <2>3. counts.skipped = 0 => Open' = Rest(Taken + 1) + Cardinality(todo)
    BY <1>3, <1>6, <2>1, <2>2, TodoTyped
  <2>4. QED
    BY <1>2, <1>4, <1>6, <2>1, <2>3 DEF CountInv
<1>16. CASE EndsCopy
  <2>1. left # <<>> /\ left' = Tail(left) /\ step = "open" /\ step' = "top" /\ todo = {} /\ counts' = counts
    BY <1>16 DEF EndsCopy, TypeInv, StepInv
  <2>2. counts.skipped = 0 => Open = Rest(Taken + 1) + Cardinality(todo)
    BY <2>1 DEF CountInv
  <2>3. Cardinality(todo) = 0
    BY <2>1, FS_EmptySet
  <2>4. counts.skipped = 0 => Open' = Rest(Taken + 1)
    BY <1>3, <1>6, <2>1, <2>2, <2>3
  <2>5. QED
    BY <1>2, <1>5, <2>1, <2>4 DEF CountInv
<1>17. CASE TurnsToClean \/ Cleans
  <2>1. left' = left /\ step \in {"top", "clean"} /\ step' = "clean" /\ counts' = counts
    BY <1>17 DEF TurnsToClean, Cleans
  <2>2. counts.skipped = 0 => Open' = Rest(Taken)
    BY <1>6, <2>1 DEF CountInv
  <2>3. QED
    BY <1>2, <1>4, <2>1, <2>2 DEF CountInv
<1>18. CASE BeginsDelete
  <2>1. left # <<>> /\ left' = left /\ step = "top" /\ step' = "delete" /\ request.kind = "delete" /\ ~IsMove
        /\ todo' = FilesOf(Source) /\ counts' = counts /\ dirs' = dirs
    BY <1>18 DEF BeginsDelete, IsMove
  <2>2. Size(Source) = Cardinality(FilesOf(Source)) + (IF Source \in dirs THEN 1 ELSE 0)
    <3>1. Untouched(Source)
      BY <1>3, <2>1 DEF LeftSafe
    <3>2. QED
      BY <1>3, <2>1, <3>1, SizeCounted
  <2>3. counts.skipped = 0 => Open = Rest(Taken)
    BY <2>1 DEF CountInv
  <2>4. counts.skipped = 0 => Open' = Rest(Taken + 1) + Cardinality(todo') + (IF Source \in dirs THEN 1 ELSE 0)
    <3>1. CASE Source \in dirs
      BY <1>3, <1>6, <2>1, <2>2, <2>3, <3>1
    <3>2. CASE Source \notin dirs
      BY <1>3, <1>6, <2>1, <2>2, <2>3, <3>2
    <3>3. QED
      BY <3>1, <3>2
  <2>5. QED
    BY <1>2, <1>4, <2>1, <2>4 DEF CountInv
<1>19. ASSUME NEW e, Deletes(e)
       PROVE  CountInv'
  <2>1. left' = left /\ step = "delete" /\ step' = "delete" /\ e \in todo /\ todo' = todo \ {e} /\ left # <<>>
        /\ counts' = [counts EXCEPT !.files = counts.files + 1] /\ dirs' = dirs
    BY <1>19 DEF Deletes, TypeInv, StepInv
  <2>2. Cardinality(todo') = Cardinality(todo) - 1 /\ Cardinality(todo) \in Nat
    BY <2>1, TodoLess, TodoTyped
  <2>3. counts.skipped = 0 => Open = Rest(Taken + 1) + Cardinality(todo) + (IF Source \in dirs THEN 1 ELSE 0)
    BY <2>1 DEF CountInv
  <2>4. counts.skipped = 0 => Open' = Rest(Taken + 1) + Cardinality(todo') + (IF Source \in dirs THEN 1 ELSE 0)
    <3>1. CASE Source \in dirs
      BY <1>3, <1>6, <2>1, <2>2, <2>3, <3>1
    <3>2. CASE Source \notin dirs
      BY <1>3, <1>6, <2>1, <2>2, <2>3, <3>2
    <3>3. QED
      BY <3>1, <3>2
  <2>5. QED
    BY <1>2, <1>4, <1>6, <2>1, <2>4 DEF CountInv
<1>20. CASE EndsDelete
  <2>1. left # <<>> /\ left' = Tail(left) /\ step = "delete" /\ step' = "top" /\ todo = {}
        /\ counts' = [counts EXCEPT !.files = counts.files + (IF Source \in dirs THEN 1 ELSE 0)]
    BY <1>20 DEF EndsDelete, TypeInv, StepInv
  <2>2. counts.skipped = 0 => Open = Rest(Taken + 1) + Cardinality(todo) + (IF Source \in dirs THEN 1 ELSE 0)
    BY <2>1 DEF CountInv
  <2>3. Cardinality(todo) = 0
    BY <2>1, FS_EmptySet
  <2>4. counts'.skipped = counts.skipped /\ Open' = Open - (IF Source \in dirs THEN 1 ELSE 0)
    BY <1>1, <2>1 DEF Open
  <2>5. counts.skipped = 0 => Open' = Rest(Taken + 1)
    <3>1. CASE Source \in dirs
      BY <1>3, <1>6, <2>1, <2>2, <2>3, <2>4, <3>1
    <3>2. CASE Source \notin dirs
      BY <1>3, <1>6, <2>1, <2>2, <2>3, <2>4, <3>2
    <3>3. QED
      BY <3>1, <3>2
  <2>6. QED
    BY <1>2, <1>5, <2>1, <2>4, <2>5 DEF CountInv
<1>21. CASE Succeeds \/ Stops
  BY <1>21 DEF Succeeds, Stops, Return, CountInv
<1>22. QED
  BY <1>8, <1>9, <1>10, <1>11, <1>12, <1>13, <1>14, <1>15, <1>16, <1>17, <1>18, <1>19, <1>20, <1>21 DEF Shape

LEMMA DoneStep ==
  ASSUME MoveInv, GoneInv, CountInv, DoneMeansDone, Shape, UNCHANGED <<request, layout>>
  PROVE  DoneMeansDone'
<1> USE DEF MoveInv
<1>1. SUFFICES ASSUME Succeeds PROVE DoneMeansDone'
  <2>1. result = "none"
    BY DEF Shape, Scans, Skips, Takes, Renames, FallsBack, Begins, Opens, Writes, EndsCopy, TurnsToClean,
         Cleans, BeginsDelete, Deletes, EndsDelete, Succeeds, Stops, TypeInv, StepInv
  <2>2. CASE ~Succeeds
    <3>1. result' \notin {"Success", "PartialSuccess"}
      BY <2>1, <2>2 DEF Shape, Scans, Skips, Takes, Renames, FallsBack, Begins, Opens, Writes, EndsCopy, TurnsToClean,
         Cleans, BeginsDelete, Deletes, EndsDelete, Stops, Return
    <3>2. QED
      BY <3>1 DEF DoneMeansDone
  <2>3. QED
    BY <1>1, <2>2
<1>2. /\ step # "done" /\ left = <<>> /\ (IsMove => copied = <<>>)
      /\ result' = (IF counts.skipped > 0 THEN "PartialSuccess" ELSE "Success")
      /\ UNCHANGED <<disk, dirs, placed, counts>> /\ step \in {"top", "clean"}
  BY <1>1 DEF Succeeds, Return
<1>3. Over = Ours /\ Ours' = Ours /\ IsMove' = IsMove
  BY <1>2, EmptyRange DEF Over, Ours, IsMove
<1>4. \A r : Exists(r)' <=> Exists(r)
  BY <1>2 DEF Exists, FilesOf
<1>5. ASSUME NEW s \in Ours, (IsMove /\ placed[s] # s) \/ request.kind = "delete"
      PROVE  ~Exists(s)
  BY <1>2, <1>3, <1>5, EmptyRange DEF GoneInv
<1>6. ASSUME request.kind # "delete", NEW s \in Ours, NEW p \in layout.files, p[1] = s
      PROVE  disk[<<placed[s], p[2]>>] = p
  <2>1. p = <<s, p[2]>> /\ p[2] \in Names
    BY <1>6, RequestTyped, PathsTyped DEF TypeInv, TypeOK
  <2>2. There(s)
    BY <1>2, <1>3, <1>6 DEF OverSafe
  <2>3. QED
    BY <1>6, <2>1, <2>2 DEF There
<1>7. result' = "Success" => counts.files = counts.total
  <2>1. SUFFICES ASSUME result' = "Success" PROVE counts.files = counts.total
    OBVIOUS
  <2>2. counts.files \in Nat /\ counts.skipped \in Nat /\ counts.total \in Int
    BY DEF TypeInv, TypeOK
  <2>3. counts.skipped = 0
    BY <1>2, <2>1, <2>2
  <2>4. Number \in Nat /\ Rest(Number) = 0 /\ Len(left) = 0
    BY <1>2, RestSteps
  <2>5. Taken = Number
    BY <2>4 DEF Taken
  <2>6. Open = 0
    BY <1>2, <2>3, <2>4, <2>5 DEF CountInv
  <2>7. QED
    BY <2>2, <2>6 DEF Open
<1>8. QED
  BY <1>2, <1>3, <1>4, <1>5, <1>6, <1>7 DEF DoneMeansDone

(* A success means what it says: each source is at the place chosen for it, *)
(* gone if it was moved or deleted, and every file that the scan counted has *)
(* been counted once.                                                       *)
THEOREM DoneMeansDoneHolds ==
  ASSUME Apart(Requests)
  PROVE  Spec => []DoneMeansDone
<1> DEFINE Inv == MoveInv /\ DeleteInv /\ GoneInv /\ CountInv /\ DoneMeansDone
<1>1. Init => Inv
  <2>1. SUFFICES ASSUME Init PROVE Inv
    OBVIOUS
  <2>2. MoveInv
    BY <2>1, MoveInit
  <2>3. Over = {}
    BY <2>1 DEF Init, Over, Ours
  <2>4. step = "scan" /\ counts.files = 0 /\ result = "none"
    BY <2>1 DEF Init
  <2>5. QED
    BY <2>2, <2>3, <2>4 DEF DeleteInv, GoneInv, CountInv, DoneMeansDone
<1>2. Inv /\ [Next]_vars => Inv'
  <2>1. SUFFICES ASSUME Inv, [Next]_vars PROVE DeleteInv' /\ GoneInv' /\ CountInv' /\ DoneMeansDone'
    BY MoveKept
  <2>2. CASE UNCHANGED vars \/ User
    <3>1. UNCHANGED <<request, layout, disk, dirs, step, left, todo, target, mode, placed, copied, counts, result>>
      BY <2>2 DEF vars, User, fsVars, threadVars
    <3>2. DeleteInv' /\ GoneInv' /\ DoneMeansDone'
      BY <2>1, <3>1 DEF DeleteInv, GoneInv, DoneMeansDone, Over, Ours, IsMove, Exists, FilesOf, Source
    <3>3. /\ Source' = Source /\ Taken' = Taken /\ Open' = Open /\ \A k : Rest(k)' = Rest(k)
          /\ FilesOf(Source)' = FilesOf(Source)
      BY <3>1, RestFixed DEF Source, Taken, Open, FilesOf
    <3>4. CountInv'
      BY <2>1, <3>1, <3>3 DEF CountInv
    <3>5. QED
      BY <3>2, <3>4
  <2>3. CASE Worker /\ UNCHANGED <<request, layout, control>>
    <3>1. Shape
      BY <2>1, <2>3, Shapes DEF MoveInv
    <3>2. DeleteInv'
      BY <2>1, <3>1, DeleteKept DEF MoveInv
    <3>3. QED
      BY <2>1, <2>3, <3>1, <3>2, GoneKept, CountKept, DoneStep
  <2>4. QED
    BY <2>1, <2>2, <2>3 DEF Next
<1>3. QED
  BY <1>1, <1>2, PTL DEF Spec
=============================================================================
