----------------------------- MODULE LspServer -----------------------------
(***************************************************************************)
(* A language server and an editor that uses it: crates/lsp/src/server.rs  *)
(* and server/transport.rs, with the editor's side of editor_lsp.rs,       *)
(* state/lsp_state.rs and app/bg_lsp.rs.                                   *)
(*                                                                         *)
(* The main thread puts messages in a queue that a writer thread carries   *)
(* to the server's stdin; a reader thread takes what the server says.  The *)
(* document is the number of its changes.                                  *)
(*                                                                         *)
(* LspInit, LspNext and LspSpec are so called because ConnectionProofs     *)
(* extends this module together with DetachSession.                        *)
(***************************************************************************)
EXTENDS Integers, Sequences

CONSTANTS
  Tokens,                          \* of the server's progress reports
  MaxEdits, MaxRequests, MaxPushes \* bounds: changes, requests, what the server says unasked

ASSUME LspAssumption == MaxEdits \in Nat /\ MaxRequests \in Nat /\ MaxPushes \in Nat

VARIABLES
  main,          \* start, up, then where shutdown() is: writer, reader, stopped
  status, active_progress, capabilities, pending, next_id,
  writer_rx, writer,
  reader, apply_edit_rx,
  to_server, to_client,            \* stdin and stdout
  server,        \* the process
  editor,
  said,          \* how much the server said unasked
  overwritten    \* a progress report took the place of ShuttingDown

clientVars == <<status, active_progress, capabilities, pending, next_id>>
pipeVars == <<to_server, to_client>>
lspVars == <<main, clientVars, writer_rx, writer, reader, apply_edit_rx, pipeVars, server, editor, said, overwritten>>

Kinds == {"full", "incremental"}  \* TextDocumentSyncKind
Unreported == "unreported"
Lost == -1                        \* a document nobody has

NoEditor == [doc |-> 0, told |-> Lost, pending_change |-> FALSE, broken |-> FALSE,
             loading |-> FALSE, rx |-> "none", rx_id |-> 0]
Process(sync) == [alive |-> TRUE, sync |-> sync, doc |-> Lost, asked |-> {}, tokens |-> {}]
Dead == [Process("full") EXCEPT !.alive = FALSE]

Plainly(kind) == [kind |-> kind]
Request(kind, id) == [kind |-> kind, id |-> id]
Full(doc) == [kind |-> "full", doc |-> doc]
Ranged(from, doc) == [kind |-> "ranged", from |-> from, doc |-> doc]

LspInit ==
  /\ main = "start"
  /\ status = "Starting" /\ active_progress = {} /\ capabilities = Unreported
  /\ pending = {} /\ next_id = 1
  /\ writer_rx = <<>> /\ writer = "recv"
  /\ reader = "head" /\ apply_edit_rx = <<>>
  /\ to_server = <<>> /\ to_client = <<>>
  /\ \E sync \in Kinds : server = Process(sync)
  /\ editor = NoEditor
  /\ said = 0 /\ overwritten = FALSE

(* A message for a thread that is gone is dropped. *)
Queued(queue, messages) == IF writer = "over" THEN queue ELSE queue \o messages
Post(messages) == writer_rx' = Queued(writer_rx, messages)

-----------------------------------------------------------------------------
(* The editor's document. *)

Changed(e) == [e EXCEPT !.doc = @ + 1]

(* notify_lsp_change: ranges if the server takes them and the recorded ones *)
(* describe the document, otherwise all of it.                              *)
Told(e) == [e EXCEPT !.told = e.doc, !.broken = FALSE]
Change(e) ==
  IF capabilities # "incremental" \/ e.broken THEN <<Full(e.doc)>>
  ELSE IF e.told = e.doc THEN <<>>
  ELSE <<Ranged(e.told, e.doc)>>

(* flush_lsp_changes *)
Flushed(e) == IF e.pending_change THEN [Told(e) EXCEPT !.pending_change = FALSE] ELSE e
Flush(e) == IF e.pending_change THEN Change(e) ELSE <<>>

(* Mutation: the server is not told of an edit of its own. *)
Edited_Untold(c) == [c EXCEPT !.editor = Changed(@)]

(* apply_workspace_edit on the open editor. *)
Edited(c) ==
  LET e == Changed(c.editor) IN [editor |-> Told(e), queue |-> Queued(c.queue, Change(e))]

-----------------------------------------------------------------------------
(* The main thread. *)

(* initialize *)
Initialize ==
  /\ main = "start" /\ next_id = 1
  /\ next_id' = 2 /\ pending' = {1}
  /\ Post(<<Request("initialize", 1), Plainly("initialized")>>)
  /\ UNCHANGED <<main, status, active_progress, capabilities, writer, reader, apply_edit_rx, pipeVars,
                 server, editor, said, overwritten>>

(* Its last line, and init_lsp of the editor that asked for the server. *)
Initialized ==
  /\ main = "start" /\ next_id = 2
  /\ main' = "up" /\ status' = "Indexing"
  /\ editor' = [Told(editor) EXCEPT !.loading = TRUE]
  /\ Post(<<Full(editor.doc)>>)
  /\ UNCHANGED <<active_progress, capabilities, pending, next_id, writer, reader, apply_edit_rx, pipeVars,
                 server, said, overwritten>>

MainElse == UNCHANGED <<main, status, active_progress, capabilities, writer, reader, pipeVars, server, said, overwritten>>

(* A key, which may change the document; before the changes a key makes are *)
(* sent, others (a paste with the mouse, a reload) may have been made.      *)
Key ==
  /\ main = "up"
  /\ \E e \in {editor} \cup (IF editor.doc < MaxEdits THEN {[Changed(editor) EXCEPT !.pending_change = TRUE]} ELSE {}) :
       /\ editor' = Flushed(e)
       /\ Post(Flush(e))
  /\ UNCHANGED <<pending, next_id, apply_edit_rx>>
  /\ MainElse
EditElsewhere ==
  /\ main = "up" /\ editor.doc < MaxEdits
  /\ \E broken \in BOOLEAN :
       editor' = [Changed(editor) EXCEPT !.pending_change = TRUE, !.broken = @ \/ broken]
  /\ UNCHANGED <<pending, next_id, apply_edit_rx, writer_rx>>
  /\ MainElse

(* request_rename, through send_request: the answer to an earlier one is    *)
(* not waited for any more.                                                 *)
Ask ==
  /\ main = "up" /\ next_id <= MaxRequests + 1
  /\ next_id' = next_id + 1
  /\ pending' = pending \cup {next_id}
  /\ Post(<<Request("ask", next_id)>>)
  /\ editor' = [editor EXCEPT !.rx_id = next_id, !.rx = IF writer = "over" THEN "gone" ELSE "waiting"]
  /\ UNCHANGED apply_edit_rx
  /\ MainElse

(* Mutation: a server that never reports progress is never ready. *)
IsReady_Reported == status = "Running"

IsReady == status = "Running" \/ (status = "Indexing" /\ active_progress = {})
IsIndexing == status = "Indexing" /\ active_progress # {}

(* update_lsp_loading_status *)
Loading(e) ==
  [e EXCEPT !.loading = IF @ THEN ~IsReady ELSE IsIndexing]

(* poll_receiver *)
Answered(e) == [e EXCEPT !.rx = "none", !.loading = IF e.rx = "ready" THEN FALSE ELSE @]

(* Every edit the server asked for so far. *)
AfterEdits ==
  LET edited[n \in 0..Len(apply_edit_rx)] ==
        IF n = 0 THEN [editor |-> Loading(editor), queue |-> writer_rx] ELSE Edited(edited[n - 1])
  IN  edited[Len(apply_edit_rx)]

(* poll_lsp_completion: the status, the edits the server asked for, then    *)
(* the answer, itself an edit.                                              *)
Poll ==
  /\ main = "up"
  /\ LET polled == IF editor.rx = "ready" THEN Edited(AfterEdits) ELSE AfterEdits
     IN  /\ editor' = IF editor.rx = "waiting" THEN polled.editor ELSE Answered(polled.editor)
         /\ writer_rx' = polled.queue
  /\ apply_edit_rx' = <<>>
  /\ UNCHANGED <<pending, next_id>>
  /\ MainElse

(* The process ends, whatever its stdin holds. *)
Dies == server' = Dead /\ to_server' = <<>>

(* shutdown: the editor is gone by then. *)
Shutdown ==
  /\ main = "up"
  /\ main' = "writer" /\ status' = "ShuttingDown"
  /\ Post(<<Request("shutdown", next_id), Plainly("exit")>>)
  /\ pending' = pending \cup {next_id}
  /\ editor' = NoEditor /\ apply_edit_rx' = <<>>
  /\ UNCHANGED <<active_progress, capabilities, next_id, writer, reader, pipeVars, server, said, overwritten>>
JoinElse == UNCHANGED <<active_progress, capabilities, pending, next_id, writer_rx, writer, reader, apply_edit_rx,
                        to_client, editor, said, overwritten>>
JoinWriter ==
  /\ main = "writer" /\ writer = "over"
  /\ main' = "reader"
  /\ UNCHANGED <<status, server, to_server>>
  /\ JoinElse
JoinReader ==
  /\ main = "reader" /\ reader = "over"
  /\ main' = "stopped" /\ status' = "Stopped"
  /\ Dies
  /\ JoinElse

-----------------------------------------------------------------------------
(* The writer thread: no message leaves once the server is shutting down. *)

(* Mutation: the status is not looked at. *)
MayWrite_Always == server.alive

MayWrite == status # "ShuttingDown" /\ server.alive

Write ==
  /\ writer = "recv" /\ writer_rx # <<>>
  /\ IF MayWrite
     THEN /\ to_server' = Append(to_server, Head(writer_rx))
          /\ writer_rx' = Tail(writer_rx)
          /\ UNCHANGED writer
     ELSE writer' = "over" /\ writer_rx' = <<>> /\ UNCHANGED to_server
  /\ UNCHANGED <<main, clientVars, reader, apply_edit_rx, to_client, server, editor, said, overwritten>>

-----------------------------------------------------------------------------
(* The reader thread. *)

ReaderElse == UNCHANGED <<main, next_id, writer, to_server, server, said>>

LoopHead ==
  /\ reader = "head"
  /\ reader' = IF status = "ShuttingDown" THEN "over" ELSE "read"
  /\ UNCHANGED <<status, active_progress, capabilities, pending, writer_rx, apply_edit_rx, to_client, editor, overwritten>>
  /\ ReaderElse
EndOfFile ==
  /\ reader = "read" /\ to_client = <<>> /\ ~server.alive
  /\ reader' = "over"
  /\ UNCHANGED <<status, active_progress, capabilities, pending, writer_rx, apply_edit_rx, to_client, editor, overwritten>>
  /\ ReaderElse

Dispatch(kind) ==
  /\ reader = "read" /\ to_client # <<>> /\ Head(to_client).kind = kind
  /\ reader' = "head" /\ to_client' = Tail(to_client)
  /\ ReaderElse

(* Mutation: an error is logged, and that is all. *)
Release_Success(m) == IF m.ok THEN {m.id} ELSE {}

(* The request whose sender is used, or dropped. *)
Release(m) == {m.id}

(* handle_response *)
HandleResponse ==
  /\ Dispatch("response")
  /\ LET m == Head(to_client)
     IN  /\ pending' = pending \ Release(m)
         /\ capabilities' = IF m.id = 1 THEN server.sync ELSE capabilities
         /\ editor' = IF editor.rx = "waiting" /\ editor.rx_id \in (pending \cap Release(m))
                      THEN [editor EXCEPT !.rx = IF m.ok THEN "ready" ELSE "gone"] ELSE editor
  /\ UNCHANGED <<status, active_progress, writer_rx, apply_edit_rx, overwritten>>

(* handle_progress: the status is set whatever it was. *)
Report(next) ==
  /\ status' = next
  /\ overwritten' = (overwritten \/ (status = "ShuttingDown" /\ next # status))
  /\ UNCHANGED <<capabilities, pending, writer_rx, apply_edit_rx, editor>>
Begin ==
  /\ Dispatch("begin")
  /\ active_progress' = active_progress \cup {Head(to_client).token}
  /\ Report("Indexing")
End ==
  /\ Dispatch("end")
  /\ active_progress' = active_progress \ {Head(to_client).token}
  /\ Report(IF active_progress' = {} THEN "Running" ELSE status)

(* handle_server_request *)
HandleServerRequest ==
  /\ Dispatch("applyEdit")
  /\ apply_edit_rx' = IF main = "up" THEN Append(apply_edit_rx, Head(to_client)) ELSE apply_edit_rx
  /\ Post(<<Plainly("applied")>>)
  /\ UNCHANGED <<status, active_progress, capabilities, pending, editor, overwritten>>

ReaderLoop == LoopHead \/ EndOfFile \/ HandleResponse \/ Begin \/ End \/ HandleServerRequest

-----------------------------------------------------------------------------
(* The server.  It ends with its stdin, when told to exit, or any time. *)

ServerElse == UNCHANGED <<main, clientVars, writer_rx, writer, reader, apply_edit_rx, editor, overwritten>>
Says(message) == to_client' = Append(to_client, message)

DocAfter(sync, doc, m) ==
  CASE m.kind = "full" -> m.doc
    [] m.kind = "ranged" -> IF m.from = doc /\ sync = "incremental" THEN m.doc ELSE Lost
    [] OTHER -> doc

ServerReads ==
  /\ server.alive /\ to_server # <<>>
  /\ LET m == Head(to_server)
     IN  IF m.kind = "exit" THEN Dies
         ELSE /\ server' = [server EXCEPT !.doc = DocAfter(server.sync, @, m),
                                          !.asked = IF m.kind \in {"initialize", "ask"} THEN @ \cup {m.id} ELSE @]
              /\ to_server' = Tail(to_server)
  /\ UNCHANGED <<to_client, said>>
  /\ ServerElse

ServerAnswers ==
  /\ server.alive
  /\ \E id \in server.asked, ok \in BOOLEAN :
       /\ id = 1 => ok
       /\ Says([kind |-> "response", id |-> id, ok |-> ok])
       /\ server' = [server EXCEPT !.asked = @ \ {id}]
  /\ UNCHANGED <<to_server, said>>
  /\ ServerElse

ServerBegins(t) ==
  /\ server.alive /\ said < MaxPushes
  /\ t \notin server.tokens
  /\ server' = [server EXCEPT !.tokens = @ \cup {t}]
  /\ Says([kind |-> "begin", token |-> t])
  /\ said' = said + 1
  /\ UNCHANGED to_server
  /\ ServerElse

ServerEnds(t) ==
  /\ server.alive /\ t \in server.tokens
  /\ server' = [server EXCEPT !.tokens = @ \ {t}]
  /\ Says([kind |-> "end", token |-> t])
  /\ UNCHANGED <<to_server, said>>
  /\ ServerElse

ServerEdits ==
  /\ server.alive /\ said < MaxPushes /\ server.doc # Lost
  /\ Says(Plainly("applyEdit"))
  /\ said' = said + 1
  /\ UNCHANGED <<server, to_server>>
  /\ ServerElse

ServerExits ==
  /\ server.alive /\ writer = "over" /\ to_server = <<>>
  /\ Dies
  /\ UNCHANGED <<to_client, said>>
  /\ ServerElse

ServerDies ==
  /\ server.alive
  /\ Dies
  /\ UNCHANGED <<to_client, said>>
  /\ ServerElse

-----------------------------------------------------------------------------
LspNext ==
  \/ Initialize \/ Initialized \/ Key \/ EditElsewhere \/ Ask \/ Poll
  \/ Shutdown \/ JoinWriter \/ JoinReader
  \/ Write \/ ReaderLoop
  \/ ServerReads \/ ServerAnswers \/ ServerEdits \/ ServerExits \/ ServerDies
  \/ \E t \in Tokens : ServerBegins(t) \/ ServerEnds(t)

(* Threads run; a server that lives reads, answers, ends what it began and  *)
(* does not outlive its stdin.                                              *)
Fairness ==
  /\ WF_lspVars(Initialize \/ Initialized) /\ WF_lspVars(Poll) /\ WF_lspVars(JoinWriter \/ JoinReader)
  /\ WF_lspVars(Write) /\ WF_lspVars(ReaderLoop)
  /\ WF_lspVars(ServerReads) /\ WF_lspVars(ServerAnswers) /\ WF_lspVars(ServerExits)
  /\ \A t \in Tokens : WF_lspVars(ServerEnds(t))

LspSpec == LspInit /\ [][LspNext]_lspVars /\ Fairness

-----------------------------------------------------------------------------
Message ==
  [kind : {"initialize", "ask", "shutdown"}, id : Nat] \cup [kind : {"initialized", "applied", "exit"}]
    \cup [kind : {"full"}, doc : Int] \cup [kind : {"ranged"}, from : Int, doc : Int]
Saying ==
  [kind : {"response"}, id : Nat, ok : BOOLEAN] \cup [kind : {"begin", "end"}, token : Tokens]
    \cup [kind : {"applyEdit"}]

(* What the threads and the server hold and say to each other has its type. *)
LspTypeOK ==
  /\ main \in {"start", "up", "writer", "reader", "stopped"}
  /\ status \in {"Starting", "Indexing", "Running", "ShuttingDown", "Stopped"}
  /\ active_progress \subseteq Tokens
  /\ capabilities \in Kinds \cup {Unreported}
  /\ pending \subseteq Nat /\ next_id \in Nat
  /\ writer_rx \in Seq(Message) /\ writer \in {"recv", "over"}
  /\ reader \in {"head", "read", "over"} /\ apply_edit_rx \in Seq(Saying)
  /\ to_server \in Seq(Message) /\ to_client \in Seq(Saying)
  /\ server \in [alive : BOOLEAN, sync : Kinds, doc : Int, asked : SUBSET Nat, tokens : SUBSET Tokens]
  /\ editor \in [doc : Nat, told : Int, pending_change : BOOLEAN, broken : BOOLEAN, loading : BOOLEAN,
                 rx : {"none", "waiting", "ready", "gone"}, rx_id : Nat]
  /\ said \in Nat /\ overwritten \in BOOLEAN

(* The server's document when it has read these messages. *)
Heard(messages) ==
  LET doc[n \in 0..Len(messages)] ==
        IF n = 0 THEN server.doc ELSE DocAfter(server.sync, doc[n - 1], messages[n])
  IN  doc[Len(messages)]

(* When everything that was sent has arrived, the server has the editor's   *)
(* document, but for changes that wait for the next key: no change is sent  *)
(* twice or not at all, and none as a range the server cannot place, for    *)
(* want of the text before it or of what it said it takes.                  *)
MirrorKept ==
  main = "up" /\ writer = "recv" /\ server.alive =>
    /\ editor.pending_change \/ editor.told = editor.doc
    /\ Heard(to_server \o writer_rx) = editor.told

(* Who asked a server that lives is answered, be it that there is nothing,  *)
(* as long as the program runs.                                             *)
RequestsEnd ==
  (main = "up" /\ editor.rx = "waiting") ~> (main # "up" \/ ~server.alive \/ editor.rx # "waiting")

(* The spinner of an editor stops, whether or not the server reports        *)
(* progress, and whatever it reported before the status was set.            *)
LoadingEnds == editor.loading ~> (~editor.loading \/ main # "up" \/ ~server.alive)

(* A shutdown ends, unless a progress report took the place of the status   *)
(* that tells the threads to stop.                                          *)
ShutdownEnds == (main = "writer") ~> (main = "stopped" \/ overwritten)
=============================================================================
