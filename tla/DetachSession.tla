---------------------------- MODULE DetachSession ----------------------------
(***************************************************************************)
(* One detached session (crates/detach): the launcher that forks its       *)
(* daemon, the daemon's threads (a server thread for each connection, the  *)
(* pump of the hosted program's output, the reaper), the clients at the    *)
(* other ends of the connections, and the files of the registry, which     *)
(* another termide may be listing meanwhile.                               *)
(*                                                                         *)
(* A client is one run of `termide --attach`.  Frames the daemon only      *)
(* forwards (input, resizes) and the reattach signal are left out: they    *)
(* change nothing here, except that input for a program that has ended     *)
(* ends its connection.                                                    *)
(***************************************************************************)
EXTENDS Naturals, Sequences, FiniteSets

CONSTANTS
  Clients,      \* runs of `termide --attach`
  Requests,     \* the hosted program's own requests to be detached
  Capacity,     \* frames a socket holds before a write blocks
  MaxListings,  \* bound: listings by other processes
  Crashes,      \* whether the daemon may die of itself
  NoClient

ASSUME DetachAssumption ==
  /\ Capacity \in Nat \ {0}
  /\ MaxListings \in Nat
  /\ Crashes \in BOOLEAN
  /\ NoClient \notin Clients

VARIABLES
  hosted,    \* the termide inside the session
  daemon,    \* its host process
  slot,      \* Session::client
  lock,      \* the thread holding the mutex over it
  pc,        \* where each thread is
  after,     \* where a thread goes when it has written the sidecar or its frame
  conn,      \* each client's side
  shut,      \* connections the daemon has closed
  down,      \* frames on their way to each client
  socket, info, term,   \* the session's files
  listings   \* listings begun

files == <<socket, info, term>>
wire == <<conn, shut, down>>
vars == <<hosted, daemon, slot, lock, pc, after, wire, files, listings>>

Free == "free"
Servers == Clients \union Requests
DaemonThreads == Servers \union {"pump", "reaper"}
Threads == DaemonThreads \union {"launcher", "lister"}

Alive == daemon = "up"
Readable == info \in {"attached", "detached"}
Open(c) == conn[c] \in {"waiting", "attached"}
Go(t, place) == pc' = [pc EXCEPT ![t] = place]

Init ==
  /\ hosted = "running"
  /\ daemon = "forking"
  /\ slot = NoClient
  /\ lock = Free
  /\ pc = [t \in Threads |-> IF t = "launcher" THEN "fork" ELSE IF t = "pump" THEN "send" ELSE "idle"]
  /\ after = [t \in Threads |-> "done"]
  /\ conn = [c \in Clients |-> "away"]
  /\ shut = [c \in Clients |-> FALSE]
  /\ down = [c \in Clients |-> <<>>]
  /\ socket = TRUE
  /\ info = "absent"
  /\ term = FALSE
  /\ listings = 0

-----------------------------------------------------------------------------
(* The launcher, from the fork on. *)

Fork ==
  /\ pc["launcher"] = "fork"
  /\ \/ /\ daemon' = "up"
        /\ Go("launcher", "truncate")
        /\ UNCHANGED socket
     \/ /\ daemon' = "gone"   \* fork failed
        /\ socket' = FALSE
        /\ Go("launcher", "done")
  /\ UNCHANGED <<hosted, slot, lock, after, wire, info, term, listings>>

(* write_info: a file is emptied (and made, if need be) before it is filled. *)
WriteInfo ==
  /\ \/ pc["launcher"] = "truncate" /\ info' = "empty" /\ Go("launcher", "fill")
     \/ pc["launcher"] = "fill" /\ info' = "detached" /\ Go("launcher", "done")
  /\ UNCHANGED <<hosted, daemon, slot, lock, after, wire, socket, term, listings>>

-----------------------------------------------------------------------------
(* The daemon's threads. *)

(* registry::set_attached: FALSE under the mutex, TRUE without it. *)
SetAttached(t) ==
  /\ Alive
  /\ \/ /\ pc[t] = "read"
        /\ Readable
        /\ Go(t, "truncate")
        /\ UNCHANGED <<lock, after, info>>
     \/ /\ pc[t] = "truncate"
        /\ info' = "empty"
        /\ Go(t, "fill")
        /\ UNCHANGED <<lock, after>>
     \/ /\ \/ pc[t] = "read" /\ ~Readable /\ UNCHANGED info
           \/ pc[t] = "fill" /\ info' = IF lock = t THEN "detached" ELSE "attached"
        /\ Go(t, after[t])
        /\ after' = [after EXCEPT ![t] = "done"]
        /\ lock' = IF lock = t THEN Free ELSE lock
  /\ UNCHANGED <<hosted, daemon, slot, wire, socket, term, listings>>

(* Mutation: the stream is dropped, the server thread's copy of it keeps it open. *)
LetGo_Dropped(t, next) ==
  /\ slot' = NoClient
  /\ lock' = t
  /\ Go(t, "read")
  /\ after' = [after EXCEPT ![t] = next]
  /\ UNCHANGED shut

(* Take whoever is the client, close its connection, and mark the session detached. *)
LetGo(t, next) ==
  /\ slot' = NoClient
  /\ shut' = [shut EXCEPT ![slot] = TRUE]
  /\ lock' = t
  /\ Go(t, "read")
  /\ after' = [after EXCEPT ![t] = next]

(* Session::detach_client *)
DetachClient(t) ==
  /\ Alive
  /\ pc[t] = "release"
  /\ lock = Free
  /\ \/ slot # NoClient /\ LetGo(t, "done")
     \/ slot = NoClient /\ Go(t, "done") /\ UNCHANGED <<slot, shut, lock, after>>
  /\ UNCHANGED <<hosted, daemon, conn, down, files, listings>>

Frame(t) == IF t = "pump" THEN "Output" ELSE IF t = "reaper" THEN "Exited" ELSE "Attached"
Sent(t) == IF t = "pump" THEN "send" ELSE IF t = "reaper" THEN "clean" ELSE "loop"

(* Mutation: a frame is queued rather than written. *)
Send_Queued(t) ==
  /\ Alive
  /\ pc[t] = "send"
  /\ lock = Free
  /\ slot # NoClient /\ Open(slot)
  /\ down' = [down EXCEPT ![slot] = Append(@, Frame(t))]
  /\ Go(t, Sent(t))
  /\ UNCHANGED <<hosted, daemon, slot, lock, after, conn, shut, files, listings>>

(* Session::send.  The mutex is held while the write waits for the client to read. *)
Send(t) ==
  /\ Alive
  /\ \/ pc[t] = "send" /\ lock = Free
     \/ pc[t] = "blocked"
  /\ \/ slot = NoClient /\ Go(t, Sent(t)) /\ UNCHANGED <<slot, lock, shut, down, after>>
     \/ slot # NoClient /\ ~Open(slot) /\ LetGo(t, Sent(t)) /\ UNCHANGED down
     \/ /\ slot # NoClient /\ Open(slot) /\ Len(down[slot]) < Capacity
        /\ down' = [down EXCEPT ![slot] = Append(@, Frame(t))]
        /\ lock' = Free
        /\ Go(t, Sent(t))
        /\ UNCHANGED <<slot, shut, after>>
     \/ /\ slot # NoClient /\ Open(slot) /\ Len(down[slot]) = Capacity
        /\ pc[t] = "send"
        /\ lock' = t
        /\ Go(t, "blocked")
        /\ UNCHANGED <<slot, shut, down, after>>
  /\ UNCHANGED <<hosted, daemon, conn, files, listings>>

(* Mutations: the slot is taken from whoever has it; a refused client is left unanswered. *)
Accept_Takeover(c) ==
  /\ Alive
  /\ pc[c] = "hello"
  /\ lock = Free
  /\ slot' = c
  /\ Go(c, "term")
  /\ UNCHANGED <<hosted, daemon, lock, after, wire, files, listings>>

Accept_Unanswered(c) ==
  /\ Alive
  /\ pc[c] = "hello"
  /\ lock = Free
  /\ slot' = IF slot = NoClient THEN c ELSE slot
  /\ Go(c, IF slot = NoClient THEN "term" ELSE "done")
  /\ UNCHANGED <<hosted, daemon, lock, after, wire, files, listings>>

(* serve_connection, at an Attach frame. *)
Accept(c) ==
  /\ Alive
  /\ pc[c] = "hello"
  /\ lock = Free
  /\ \/ /\ slot = NoClient
        /\ slot' = c
        /\ Go(c, "term")
        /\ UNCHANGED <<shut, down>>
     \/ /\ slot # NoClient
        /\ down' = IF Open(c) THEN [down EXCEPT ![c] = <<"Busy">>] ELSE down
        /\ shut' = [shut EXCEPT ![c] = TRUE]
        /\ Go(c, "done")
        /\ UNCHANGED slot
  /\ UNCHANGED <<hosted, daemon, lock, after, conn, files, listings>>

WriteTerm(c) ==
  /\ Alive
  /\ pc[c] = "term"
  /\ term' = TRUE
  /\ Go(c, "read")
  /\ after' = [after EXCEPT ![c] = "send"]
  /\ UNCHANGED <<hosted, daemon, slot, lock, wire, socket, info, listings>>

(* Mutation: only a connection the daemon closed itself ends the loop. *)
ClientLoopEnds_NoEof(c) ==
  /\ Alive
  /\ pc[c] = "loop"
  /\ shut[c] \/ hosted = "exited"
  /\ Go(c, "release")
  /\ UNCHANGED <<hosted, daemon, slot, lock, after, wire, files, listings>>

(* client_loop: end of file, a Detach frame, or input nobody is left to take. *)
ClientLoopEnds(c) ==
  /\ Alive
  /\ pc[c] = "loop"
  /\ ~Open(c) \/ shut[c] \/ hosted = "exited"
  /\ Go(c, "release")
  /\ UNCHANGED <<hosted, daemon, slot, lock, after, wire, files, listings>>

Reap ==
  /\ Alive
  /\ hosted = "exited"
  /\ pc["reaper"] = "idle"
  /\ Go("reaper", "send")
  /\ UNCHANGED <<hosted, daemon, slot, lock, after, wire, files, listings>>

(* registry::remove *)
RemoveFiles == socket' = FALSE /\ info' = "absent" /\ term' = FALSE

(* Mutation: the reaper returns, and the accept loop keeps the process. *)
Clean_Returns ==
  /\ Alive
  /\ pc["reaper"] = "clean"
  /\ RemoveFiles
  /\ Go("reaper", "done")
  /\ UNCHANGED <<hosted, daemon, slot, lock, after, wire, listings>>

Clean ==
  /\ Alive
  /\ pc["reaper"] = "clean"
  /\ RemoveFiles
  /\ Go("reaper", "exit")
  /\ UNCHANGED <<hosted, daemon, slot, lock, after, wire, listings>>

(* The process ends, and with it its threads and its ends of all connections. *)
Ends ==
  /\ daemon' = "gone"
  /\ slot' = NoClient
  /\ lock' = Free
  /\ pc' = [t \in Threads |-> IF t \in DaemonThreads THEN "done" ELSE pc[t]]
  /\ after' = [t \in Threads |-> "done"]
  /\ shut' = [c \in Clients |-> TRUE]

Exit ==
  /\ Alive
  /\ pc["reaper"] = "exit"
  /\ Ends
  /\ UNCHANGED <<hosted, conn, down, files, listings>>

(* Killed, or failed before it could start the hosted program: the files stay. *)
Crash ==
  /\ Crashes
  /\ Alive
  /\ Ends
  /\ hosted' = "exited"
  /\ UNCHANGED <<conn, down, files, listings>>

-----------------------------------------------------------------------------
(* The hosted program. *)

HostedExits ==
  /\ Alive
  /\ hosted = "running"
  /\ hosted' = "exited"
  /\ UNCHANGED <<daemon, slot, lock, pc, after, wire, files, listings>>

(* request_detach_from_host: a connection of its own, through the socket file. *)
RequestDetach(r) ==
  /\ Alive
  /\ hosted = "running"
  /\ pc[r] = "idle"
  /\ Go(r, IF socket THEN "release" ELSE "done")
  /\ UNCHANGED <<hosted, daemon, slot, lock, after, wire, files, listings>>

-----------------------------------------------------------------------------
(* The clients. *)

Becomes(c, state) == conn' = [conn EXCEPT ![c] = state]

(* client::attach of a named session, up to the Attach frame. *)
Attach(c) ==
  /\ conn[c] = "away"
  /\ \/ Readable /\ socket /\ Alive /\ Becomes(c, "waiting") /\ Go(c, "hello")
     \/ ~(Readable /\ socket /\ Alive) /\ Becomes(c, "failed") /\ UNCHANGED pc
  /\ UNCHANGED <<hosted, daemon, slot, lock, after, shut, down, files, listings>>

(* The first reply decides: Busy, Exited and, from the pump, Output are errors. *)
Answer(frame) ==
  IF frame = "Attached" THEN "attached" ELSE "failed"

(* output_loop *)
Show(frame) == IF frame = "Exited" THEN "ended" ELSE "attached"

Receive(c) ==
  /\ Open(c)
  /\ \/ /\ down[c] # <<>>
        /\ LET next == IF conn[c] = "waiting" THEN Answer(Head(down[c])) ELSE Show(Head(down[c]))
           IN /\ Becomes(c, next)
              /\ down' = [down EXCEPT ![c] = IF next = "attached" THEN Tail(@) ELSE <<>>]
     \/ /\ down[c] = <<>>
        /\ shut[c]
        /\ Becomes(c, IF conn[c] = "waiting" THEN "failed" ELSE "detached")
        /\ UNCHANGED down
  /\ UNCHANGED <<hosted, daemon, slot, lock, pc, after, shut, files, listings>>

(* The terminal is closed, or the emergency sequence is typed. *)
Leave(c) ==
  /\ Open(c)
  /\ Becomes(c, "detached")
  /\ down' = [down EXCEPT ![c] = <<>>]
  /\ UNCHANGED <<hosted, daemon, slot, lock, pc, after, shut, files, listings>>

-----------------------------------------------------------------------------
(* Another termide lists the sessions: prune_dead and scan. *)

Scan ==
  /\ pc["lister"] = "idle"
  /\ listings < MaxListings
  /\ listings' = listings + 1
  /\ Go("lister", IF socket /\ (~Readable \/ daemon = "gone") THEN "remove" ELSE "idle")
  /\ UNCHANGED <<hosted, daemon, slot, lock, after, wire, files>>

Remove ==
  /\ pc["lister"] = "remove"
  /\ RemoveFiles
  /\ Go("lister", "idle")
  /\ UNCHANGED <<hosted, daemon, slot, lock, after, wire, listings>>

-----------------------------------------------------------------------------
Launcher == Fork \/ WriteInfo
Pump == SetAttached("pump") \/ Send("pump")
Serve(t) == SetAttached(t) \/ Send(t) \/ DetachClient(t)
Serving ==
  \/ \E t \in DaemonThreads \ {"pump"} : Serve(t)
  \/ \E c \in Clients : Accept(c) \/ WriteTerm(c) \/ ClientLoopEnds(c)
  \/ Reap \/ Clean \/ Exit
Environment ==
  \/ Crash \/ HostedExits \/ Scan \/ Remove
  \/ \E r \in Requests : RequestDetach(r)
  \/ \E c \in Clients : Attach(c) \/ Receive(c) \/ Leave(c)

Next == Launcher \/ Pump \/ Serving \/ Environment

Spec == Init /\ [][Next]_vars

(***************************************************************************)
(* Threads are scheduled, a thread that waits for the mutex gets it when   *)
(* it is free often enough, and a client keeps reading: its terminal takes *)
(* the output.  (The server threads and the reaper take finitely many      *)
(* steps between them, so fairness of all together is fairness of each.)   *)
(* Nothing obliges the hosted program to write or to end, a client to come *)
(* or to go, or the daemon to crash.                                       *)
(***************************************************************************)
FairSpec ==
  /\ Spec
  /\ WF_vars(Launcher)
  /\ SF_vars(Serving)
  /\ WF_vars(pc["pump"] # "send" /\ Pump)
  /\ \A c \in Clients : WF_vars(Receive(c))

-----------------------------------------------------------------------------
Places ==
  {"idle", "fork", "read", "truncate", "fill", "release", "send", "blocked",
   "hello", "term", "loop", "clean", "exit", "remove", "done"}
ClientStates == {"away", "waiting", "attached", "failed", "detached", "ended"}
Frames == {"Attached", "Busy", "Output", "Exited"}

(* Every thread is at a place of its own code, and a frame fits its socket. *)
TypeOK ==
  /\ hosted \in {"running", "exited"}
  /\ daemon \in {"forking", "up", "gone"}
  /\ slot \in Clients \union {NoClient}
  /\ lock \in DaemonThreads \union {Free}
  /\ pc \in [Threads -> Places]
  /\ after \in [Threads -> {"send", "loop", "clean", "done"}]
  /\ conn \in [Clients -> ClientStates]
  /\ shut \in [Clients -> BOOLEAN]
  /\ down \in [Clients -> Seq(Frames)]
  /\ \A c \in Clients : Len(down[c]) <= Capacity
  /\ socket \in BOOLEAN /\ term \in BOOLEAN
  /\ info \in {"absent", "empty", "detached", "attached"}
  /\ listings \in 0 .. MaxListings

(* A client that shows the session and has not been closed is the one the daemon serves:  *)
(* there is never a second one, and none it has forgotten without closing its connection. *)
OneClient == \A c \in Clients : conn[c] = "attached" /\ ~shut[c] => slot = c

(* A client whose terminal is gone gives up the session, so that another can attach. *)
NoticesGone == \A c \in Clients : (slot = c /\ ~Open(c)) ~> (slot # c)

(* A client the daemon has let go of does not stay attached. *)
ReleasedLearns == \A c \in Clients : (conn[c] = "attached" /\ slot # c) ~> (conn[c] # "attached")

(* Every attach is accepted, refused or told that the session is over. *)
AttachAnswered == \A c \in Clients : (conn[c] = "waiting") ~> (conn[c] # "waiting")

(* When the hosted program ends, so does its host, whoever is attached. *)
SessionEnds == (hosted = "exited") ~> (daemon = "gone")
=============================================================================
