-------------------------- MODULE ConnectionProofs --------------------------
(***************************************************************************)
(* The two components that talk to another process.  DetachSession: its    *)
(* type invariant and the mutual exclusion of its clients, for any number  *)
(* of clients and requests and any socket capacity.  LspServer: its type   *)
(* invariant, and that the server's document mirrors the editor's, for     *)
(* any number of edits, requests and reports.                              *)
(***************************************************************************)
EXTENDS DetachSession, LspServer, SequenceTheorems, WellFoundedInduction, TLAPS

-----------------------------------------------------------------------------
(* The clients of a detached session. *)

LEMMA InitType == Init => TypeOK
  <1> SUFFICES ASSUME Init PROVE TypeOK
    OBVIOUS
  <1>1. down \in [Clients -> Seq(Frames)] /\ \A c \in Clients : Len(down[c]) = 0
    BY DEF Init
  <1>2. pc \in [Threads -> Places]
    BY DEF Init, Places
  <1>3. listings \in 0 .. MaxListings /\ \A c \in Clients : Len(down[c]) <= Capacity
    BY <1>1, DetachAssumption DEF Init, DetachAssumption
  <1> QED BY <1>1, <1>2, <1>3 DEF Init, TypeOK, ClientStates

(* What each kind of step leaves of the type invariant. *)
LEMMA LauncherType == TypeOK /\ Launcher => TypeOK'
  <1> SUFFICES ASSUME TypeOK, Launcher PROVE TypeOK'
    OBVIOUS
  <1>0. /\ "launcher" \in Threads /\ pc \in [Threads -> Places]
        /\ "truncate" \in Places /\ "fill" \in Places /\ "done" \in Places
    BY DEF TypeOK, Threads, Places
  <1>1. CASE Fork
    <2>1. pc' \in [Threads -> Places]
      BY <1>0, <1>1 DEF Fork, Go
    <2>2. /\ daemon' \in {"up", "gone"} /\ socket' \in {socket, FALSE}
          /\ UNCHANGED <<hosted, slot, lock, after, conn, shut, down, info, term, listings>>
      BY <1>1 DEF Fork, wire
    <2> QED BY <2>1, <2>2 DEF TypeOK
  <1>2. CASE WriteInfo
    <2>1. pc' \in [Threads -> Places]
      BY <1>0, <1>2 DEF WriteInfo, Go
    <2>2. /\ info' \in {"empty", "detached"}
          /\ UNCHANGED <<hosted, daemon, slot, lock, after, conn, shut, down, socket, term, listings>>
      BY <1>2 DEF WriteInfo, wire
    <2> QED BY <2>1, <2>2 DEF TypeOK
  <1> QED BY <1>1, <1>2 DEF Launcher

LEMMA SetAttachedType ==
  ASSUME TypeOK, NEW t \in DaemonThreads, SetAttached(t) PROVE TypeOK'
  <1>1. t \in Threads /\ after[t] \in Places
    BY DEF TypeOK, Threads, Places
  <1>2. pc' \in [Threads -> Places]
    BY <1>1 DEF TypeOK, SetAttached, Go, Places
  <1>3. after' \in [Threads -> {"send", "loop", "clean", "done"}]
    BY <1>1 DEF TypeOK, SetAttached
  <1>4. lock' \in DaemonThreads \union {Free}
    BY DEF TypeOK, SetAttached
  <1>5. info' \in {"absent", "empty", "detached", "attached"}
    BY DEF TypeOK, SetAttached
  <1>6. UNCHANGED <<hosted, daemon, slot, conn, shut, down, socket, term, listings>>
    BY DEF SetAttached, wire
  <1> QED BY <1>2, <1>3, <1>4, <1>5, <1>6 DEF TypeOK

LEMMA LetGoType ==
  ASSUME TypeOK, NEW t \in DaemonThreads, NEW next \in {"send", "loop", "clean", "done"},
         LetGo(t, next)
  PROVE  /\ slot' \in Clients \union {NoClient}
         /\ shut' \in [Clients -> BOOLEAN]
         /\ lock' \in DaemonThreads \union {Free}
         /\ pc' \in [Threads -> Places]
         /\ after' \in [Threads -> {"send", "loop", "clean", "done"}]
  BY DEF TypeOK, LetGo, Go, Threads, Places

LEMMA DetachClientType ==
  ASSUME TypeOK, NEW t \in DaemonThreads, DetachClient(t) PROVE TypeOK'
  <1>1. CASE slot # NoClient /\ LetGo(t, "done")
    BY <1>1, LetGoType DEF TypeOK, DetachClient, files
  <1>2. CASE slot = NoClient
    BY <1>2 DEF TypeOK, DetachClient, Go, files, Threads, Places
  <1> QED BY <1>1, <1>2 DEF DetachClient

LEMMA SendType ==
  ASSUME TypeOK, NEW t \in DaemonThreads, Send(t) PROVE TypeOK'
  <1>1. Sent(t) \in {"send", "loop", "clean", "done"} /\ Frame(t) \in Frames
    BY DEF Sent, Frame, Frames
  <1>2. CASE slot = NoClient /\ Go(t, Sent(t)) /\ UNCHANGED <<slot, lock, shut, down, after>>
    BY <1>1, <1>2 DEF TypeOK, Send, Go, files, Threads, Places
  <1>3. CASE slot # NoClient /\ ~Open(slot) /\ LetGo(t, Sent(t)) /\ UNCHANGED down
    BY <1>1, <1>3, LetGoType DEF TypeOK, Send, files
  <1>4. CASE /\ slot # NoClient /\ Open(slot) /\ Len(down[slot]) < Capacity
             /\ down' = [down EXCEPT ![slot] = Append(@, Frame(t))]
             /\ lock' = Free
             /\ Go(t, Sent(t))
             /\ UNCHANGED <<slot, shut, after>>
    <2>1. slot \in Clients /\ down[slot] \in Seq(Frames)
      BY <1>4 DEF TypeOK
    <2>2. /\ Append(down[slot], Frame(t)) \in Seq(Frames)
          /\ Len(Append(down[slot], Frame(t))) = Len(down[slot]) + 1
      BY <1>1, <2>1
    <2>3. down' \in [Clients -> Seq(Frames)]
      BY <1>4, <2>1, <2>2 DEF TypeOK
    <2>4. ASSUME NEW c \in Clients PROVE Len(down'[c]) <= Capacity
      BY <1>4, <2>1, <2>2, DetachAssumption DEF TypeOK
    <2> QED BY <1>1, <1>4, <2>3, <2>4 DEF TypeOK, Send, Go, files, Threads, Places
  <1>5. CASE /\ lock' = t /\ Go(t, "blocked") /\ UNCHANGED <<slot, shut, down, after>>
    BY <1>5 DEF TypeOK, Send, Go, files, Threads, Places
  <1> QED BY <1>2, <1>3, <1>4, <1>5 DEF Send

LEMMA AcceptType ==
  ASSUME TypeOK, NEW c \in Clients, Accept(c) PROVE TypeOK'
  <1>1. c \in Threads
    BY DEF Threads, DaemonThreads, Servers
  <1>2. /\ <<"Busy">> \in Seq(Frames)
        /\ Len(<<"Busy">>) <= Capacity
    BY DetachAssumption DEF Frames
  <1>3. down' \in [Clients -> Seq(Frames)]
    BY <1>2 DEF TypeOK, Accept
  <1>4. ASSUME NEW x \in Clients PROVE Len(down'[x]) <= Capacity
    <2> DEFINE busy == <<"Busy">>
    <2>1. Len(busy) <= Capacity
      BY <1>2
    <2>2. down' = down \/ down' = [down EXCEPT ![c] = busy]
      BY DEF Accept
    <2> HIDE DEF busy
    <2> QED BY <2>1, <2>2 DEF TypeOK
  <1>5. slot' \in Clients \union {NoClient} /\ shut' \in [Clients -> BOOLEAN]
    BY DEF TypeOK, Accept
  <1>6. pc' \in [Threads -> Places]
    BY <1>1 DEF TypeOK, Accept, Go, Places
  <1> QED BY <1>3, <1>4, <1>5, <1>6 DEF TypeOK, Accept, files

(* The other steps of the daemon, and those of the clients and of other processes. *)
LEMMA ServingType == TypeOK /\ Serving => TypeOK'
  <1> SUFFICES ASSUME TypeOK, Serving PROVE TypeOK'
    OBVIOUS
  <1>1. ASSUME NEW t \in DaemonThreads, Serve(t) PROVE TypeOK'
    BY <1>1, SetAttachedType, SendType, DetachClientType DEF Serve
  <1>2. ASSUME NEW c \in Clients, Accept(c) PROVE TypeOK'
    BY <1>2, AcceptType
  <1>3. ASSUME NEW c \in Clients, WriteTerm(c) PROVE TypeOK'
    BY <1>3 DEF TypeOK, WriteTerm, Go, wire, Threads, DaemonThreads, Servers, Places
  <1>4. ASSUME NEW c \in Clients, ClientLoopEnds(c) PROVE TypeOK'
    BY <1>4 DEF TypeOK, ClientLoopEnds, Go, wire, files, Threads, DaemonThreads, Servers, Places
  <1>5. CASE Reap
    BY <1>5 DEF TypeOK, Reap, Go, wire, files, Threads, DaemonThreads, Places
  <1>6. CASE Clean
    BY <1>6 DEF TypeOK, Clean, RemoveFiles, Go, wire, Threads, DaemonThreads, Places
  <1>7. CASE Exit
    BY <1>7 DEF TypeOK, Exit, Ends, files, Threads, Places
  <1> QED BY <1>1, <1>2, <1>3, <1>4, <1>5, <1>6, <1>7 DEF Serving

LEMMA ReceiveType ==
  ASSUME TypeOK, NEW c \in Clients, Receive(c) PROVE TypeOK'
  <1>1. conn' \in [Clients -> ClientStates]
    BY DEF TypeOK, Receive, Becomes, Answer, Show, ClientStates
  <1>2. down' = down \/ down' = [down EXCEPT ![c] = <<>>]
        \/ (down[c] # <<>> /\ down' = [down EXCEPT ![c] = Tail(@)])
    BY DEF Receive
  <1>3. down[c] \in Seq(Frames) /\ Len(down[c]) <= Capacity
    BY DEF TypeOK
  <1>4. down[c] # <<>> => Tail(down[c]) \in Seq(Frames) /\ Len(Tail(down[c])) <= Capacity
    BY <1>3, DetachAssumption, Len(down[c]) \in Nat
  <1>5. <<>> \in Seq(Frames) /\ Len(<<>>) <= Capacity
    BY DetachAssumption
  <1>6. down' \in [Clients -> Seq(Frames)] /\ \A x \in Clients : Len(down'[x]) <= Capacity
    <2>1. CASE down' = down
      BY <2>1 DEF TypeOK
    <2>2. CASE down' = [down EXCEPT ![c] = <<>>]
      BY <2>2, <1>5 DEF TypeOK
    <2>3. CASE down[c] # <<>> /\ down' = [down EXCEPT ![c] = Tail(@)]
      BY <2>3, <1>4 DEF TypeOK
    <2> QED BY <1>2, <2>1, <2>2, <2>3
  <1> QED BY <1>1, <1>6 DEF TypeOK, Receive, files

LEMMA EnvironmentType == TypeOK /\ Environment => TypeOK'
  <1> SUFFICES ASSUME TypeOK, Environment PROVE TypeOK'
    OBVIOUS
  <1>1. CASE Crash
    BY <1>1 DEF TypeOK, Crash, Ends, files, Threads, Places
  <1>2. CASE HostedExits
    BY <1>2 DEF TypeOK, HostedExits, wire, files
  <1>3. CASE Scan
    BY <1>3, DetachAssumption DEF TypeOK, Scan, Go, wire, files, Threads, Places
  <1>4. CASE Remove
    BY <1>4 DEF TypeOK, Remove, RemoveFiles, Go, wire, Threads, Places
  <1>5. ASSUME NEW r \in Requests, RequestDetach(r) PROVE TypeOK'
    BY <1>5 DEF TypeOK, RequestDetach, Go, wire, files, Threads, DaemonThreads, Servers, Places
  <1>6. ASSUME NEW c \in Clients, Attach(c) PROVE TypeOK'
    <2>1. pc' \in [Threads -> Places]
      BY <1>6 DEF TypeOK, Attach, Go, Threads, DaemonThreads, Servers, Places
    <2>2. conn' \in [Clients -> ClientStates]
      BY <1>6 DEF TypeOK, Attach, Becomes, ClientStates
    <2> QED BY <1>6, <2>1, <2>2 DEF TypeOK, Attach, files
  <1>7. ASSUME NEW c \in Clients, Receive(c) PROVE TypeOK'
    BY <1>7, ReceiveType
  <1>8. ASSUME NEW c \in Clients, Leave(c) PROVE TypeOK'
    <2>1. conn' \in [Clients -> ClientStates]
      BY <1>8 DEF TypeOK, Leave, Becomes, ClientStates
    <2>2. down' = [down EXCEPT ![c] = <<>>]
      BY <1>8 DEF Leave
    <2>3. <<>> \in Seq(Frames) /\ Len(<<>>) <= Capacity
      BY DetachAssumption
    <2>4. down' \in [Clients -> Seq(Frames)] /\ \A x \in Clients : Len(down'[x]) <= Capacity
      BY <2>2, <2>3 DEF TypeOK
    <2> QED BY <1>8, <2>1, <2>4 DEF TypeOK, Leave, files
  <1> QED BY <1>1, <1>2, <1>3, <1>4, <1>5, <1>6, <1>7, <1>8 DEF Environment

LEMMA StepType == TypeOK /\ [Next]_vars => TypeOK'
  <1>1. TypeOK /\ Pump => TypeOK'
    BY SetAttachedType, SendType DEF Pump, DaemonThreads
  <1>2. TypeOK /\ UNCHANGED vars => TypeOK'
    BY DEF TypeOK, vars, wire, files
  <1> QED BY <1>1, <1>2, LauncherType, ServingType, EnvironmentType DEF Next

(* Every thread stays in its code and no socket holds more than its capacity, for  *)
(* any number of clients and requests.                                             *)
THEOREM TypeOKHolds == Spec => []TypeOK
  BY InitType, StepType, PTL DEF Spec

-----------------------------------------------------------------------------
(* Holds a frame that tells client c it may show the session. *)
Promised(c) == \E i \in 1 .. Len(down[c]) : down[c][i] = "Attached"

(* OneClient is not inductive: a client shows the session only when it reads a frame  *)
(* sent earlier, so what is on the way counts too.                                    *)
Admitted == \A c \in Clients : ~shut[c] /\ (conn[c] = "attached" \/ Promised(c)) => slot = c

LEMMA AdmittedInit == Init => Admitted
  BY DEF Init, Admitted, Promised

(* A step that leaves the connections and the slot alone leaves Admitted alone. *)
LEMMA AdmittedFrame ==
  ASSUME Admitted, UNCHANGED <<slot, conn, shut, down>> PROVE Admitted'
  BY DEF Admitted, Promised

LEMMA AdmittedLetGo ==
  ASSUME TypeOK, Admitted, NEW t, NEW next, slot # NoClient, LetGo(t, next),
         UNCHANGED <<conn, down>>
  PROVE Admitted'
  BY DEF TypeOK, Admitted, Promised, LetGo

LEMMA AdmittedSend ==
  ASSUME TypeOK, Admitted, NEW t \in DaemonThreads, Send(t) PROVE Admitted'
  <1>1. UNCHANGED conn
    BY DEF Send
  <1>2. CASE UNCHANGED <<slot, shut, down>>
    BY <1>1, <1>2, AdmittedFrame
  <1>3. CASE slot # NoClient /\ LetGo(t, Sent(t)) /\ UNCHANGED down
    BY <1>1, <1>3, AdmittedLetGo
  <1>4. CASE /\ slot \in Clients
             /\ down' = [down EXCEPT ![slot] = Append(@, Frame(t))]
             /\ UNCHANGED <<slot, shut>>
    <2>1. SUFFICES ASSUME NEW c \in Clients, ~shut'[c], conn'[c] = "attached" \/ Promised(c)'
                   PROVE slot' = c
      BY DEF Admitted
    <2>2. CASE c = slot
      BY <1>4, <2>2
    <2>3. CASE c # slot
      <3>1. down'[c] = down[c]
        BY <1>4, <2>3 DEF TypeOK
      <3> QED BY <1>1, <1>4, <2>1, <3>1 DEF Admitted, Promised
    <2> QED BY <2>2, <2>3
  <1> QED BY <1>2, <1>3, <1>4 DEF Send, TypeOK

LEMMA AdmittedAccept ==
  ASSUME TypeOK, Admitted, NEW c \in Clients, Accept(c) PROVE Admitted'
  <1> SUFFICES ASSUME NEW x \in Clients, ~shut'[x], conn'[x] = "attached" \/ Promised(x)'
               PROVE slot' = x
    BY DEF Admitted
  <1>1. UNCHANGED conn
    BY DEF Accept
  <1>2. CASE slot = NoClient /\ UNCHANGED <<shut, down>>
    <2>1. slot = x
      BY <1>1, <1>2 DEF Admitted, Promised
    <2> QED BY <1>2, <2>1, DetachAssumption
  <1>3. CASE /\ slot # NoClient
             /\ UNCHANGED slot
             /\ shut' = [shut EXCEPT ![c] = TRUE]
             /\ \A y \in Clients : y # c => down'[y] = down[y]
    <2>1. x # c /\ ~shut[x]
      BY <1>3 DEF TypeOK
    <2>2. down'[x] = down[x]
      BY <1>3, <2>1
    <2> QED BY <1>1, <1>3, <2>1, <2>2 DEF Admitted, Promised
  <1>4. slot # NoClient => \A y \in Clients : y # c => down'[y] = down[y]
    BY DEF Accept, TypeOK
  <1> QED BY <1>2, <1>3, <1>4 DEF Accept

LEMMA AdmittedReceive ==
  ASSUME TypeOK, Admitted, NEW c \in Clients, Receive(c) PROVE Admitted'
  <1> SUFFICES ASSUME NEW x \in Clients, ~shut'[x], conn'[x] = "attached" \/ Promised(x)'
               PROVE slot' = x
    BY DEF Admitted
  <1>1. UNCHANGED <<slot, shut>>
    BY DEF Receive
  <1>2. CASE x # c
    <2>1. conn'[x] = conn[x] /\ down'[x] = down[x]
      BY <1>2 DEF TypeOK, Receive, Becomes
    <2> QED BY <1>1, <2>1 DEF Admitted, Promised
  <1>3. CASE x = c
    <2>1. down[c] # <<>>
      BY <1>1, <1>3 DEF Receive
    <2>2. down[c] \in Seq(Frames) /\ Len(down[c]) \in Nat \ {0}
      BY <2>1 DEF TypeOK
    <2>3. conn[c] = "attached" \/ Promised(c)
      <3>1. CASE conn'[c] = "attached"
        <4>1. conn[c] = "waiting" => Head(down[c]) = "Attached"
          BY <2>1, <3>1 DEF TypeOK, Receive, Becomes, Answer
        <4>2. Head(down[c]) = down[c][1] /\ 1 \in 1 .. Len(down[c])
          BY <2>1, <2>2
        <4>3. conn[c] \in {"waiting", "attached"}
          BY DEF Receive, Open
        <4> QED BY <4>1, <4>2, <4>3 DEF Promised
      <3>2. CASE Promised(c)'
        <4>1. down'[c] = <<>> \/ down'[c] = Tail(down[c])
          BY <2>1 DEF TypeOK, Receive
        <4>2. PICK i \in 1 .. Len(down'[c]) : down'[c][i] = "Attached"
          BY <3>2 DEF Promised
        <4>3. CASE down'[c] = Tail(down[c])
          <5>1. i + 1 \in 1 .. Len(down[c]) /\ down[c][i + 1] = "Attached"
            BY <2>1, <2>2, <4>2, <4>3
          <5> QED BY <5>1 DEF Promised
        <4>4. CASE down'[c] = <<>>
          BY <4>2, <4>4
        <4> QED BY <4>1, <4>3, <4>4
      <3> QED BY <1>3, <3>1, <3>2 DEF Promised
    <2> QED BY <1>1, <1>3, <2>3 DEF Admitted
  <1> QED BY <1>2, <1>3

LEMMA AdmittedLeave ==
  ASSUME TypeOK, Admitted, NEW c \in Clients,
         \/ Leave(c)
         \/ Attach(c)
  PROVE Admitted'
  <1> SUFFICES ASSUME NEW x \in Clients, ~shut'[x], conn'[x] = "attached" \/ Promised(x)'
               PROVE slot' = x
    BY DEF Admitted
  <1>1. UNCHANGED <<slot, shut>>
    BY DEF Leave, Attach
  <1>2. conn'[x] = "attached" => conn[x] = "attached"
    BY DEF TypeOK, Leave, Attach, Becomes
  <1>3. Promised(x)' => Promised(x)
    <2>1. down'[x] = down[x] \/ down'[x] = <<>>
      BY DEF TypeOK, Leave, Attach
    <2> QED BY <2>1 DEF Promised
  <1> QED BY <1>1, <1>2, <1>3 DEF Admitted

LEMMA AdmittedStep == TypeOK /\ Admitted /\ [Next]_vars => Admitted'
  <1> SUFFICES ASSUME TypeOK, Admitted, [Next]_vars PROVE Admitted'
    OBVIOUS
  <1>1. CASE Launcher
    BY <1>1, AdmittedFrame DEF Launcher, Fork, WriteInfo, wire
  <1>2. ASSUME NEW t \in DaemonThreads, SetAttached(t) PROVE Admitted'
    BY <1>2, AdmittedFrame DEF SetAttached, wire
  <1>3. ASSUME NEW t \in DaemonThreads, Send(t) PROVE Admitted'
    BY <1>3, AdmittedSend
  <1>4. ASSUME NEW t \in DaemonThreads, DetachClient(t) PROVE Admitted'
    BY <1>4, AdmittedLetGo, AdmittedFrame DEF DetachClient
  <1>5. ASSUME NEW c \in Clients, Accept(c) PROVE Admitted'
    BY <1>5, AdmittedAccept
  <1>6. ASSUME NEW c \in Clients, WriteTerm(c) \/ ClientLoopEnds(c) PROVE Admitted'
    BY <1>6, AdmittedFrame DEF WriteTerm, ClientLoopEnds, wire
  <1>7. CASE Reap \/ Clean \/ HostedExits \/ Scan \/ Remove
    BY <1>7, AdmittedFrame DEF Reap, Clean, HostedExits, Scan, Remove, wire
  <1>8. CASE Exit \/ Crash
    BY <1>8 DEF Exit, Crash, Ends, Admitted
  <1>9. ASSUME NEW r \in Requests, RequestDetach(r) PROVE Admitted'
    BY <1>9, AdmittedFrame DEF RequestDetach, wire
  <1>10. ASSUME NEW c \in Clients, Attach(c) \/ Leave(c) PROVE Admitted'
    BY <1>10, AdmittedLeave
  <1>11. ASSUME NEW c \in Clients, Receive(c) PROVE Admitted'
    BY <1>11, AdmittedReceive
  <1>12. CASE UNCHANGED vars
    BY <1>12, AdmittedFrame DEF vars, wire
  <1>13. CASE Pump
    BY <1>2, <1>3, <1>13 DEF Pump, DaemonThreads
  <1>14. CASE Serving
    BY <1>2, <1>3, <1>4, <1>5, <1>6, <1>7, <1>8, <1>14 DEF Serving, Serve
  <1>15. CASE Environment
    BY <1>7, <1>8, <1>9, <1>10, <1>11, <1>15 DEF Environment
  <1> QED BY <1>1, <1>12, <1>13, <1>14, <1>15 DEF Next

(* However many clients attach, at any moment and in any order, at most one shows the  *)
(* session, and it is the one in the daemon's slot (unless its connection is closed).  *)
THEOREM OneClientHolds == Spec => []OneClient
  <1>1. TypeOK /\ Admitted => OneClient
    BY DEF Admitted, OneClient
  <1> QED BY <1>1, InitType, StepType, AdmittedInit, AdmittedStep, PTL DEF Spec

-----------------------------------------------------------------------------
(* The client of a language server. *)

LEMMA Least ==
  ASSUME NEW T \in SUBSET Nat, T # {}
  PROVE  \E x \in T : \A y \in T : x <= y
<1> DEFINE R == OpToRel(<, Nat)
<1>1. PICK x \in T : \A y \in T : ~(<<y, x>> \in R)
  <2>1. IsWellFoundedOn(R, Nat)
    BY NatLessThanWellFounded
  <2> HIDE DEF R
  <2>2. QED
    BY <2>1, WFMin
<1>2. \A y \in T : <<y, x>> \in R <=> y < x
  BY DEF OpToRel
<1>3. x \in Nat /\ \A y \in T : y \in Nat
  OBVIOUS
<1> HIDE DEF R
<1>4. ASSUME NEW y \in T PROVE x <= y
  <2>1. ~(y < x)
    BY <1>1, <1>2
  <2>2. x \in Nat /\ y \in Nat
    BY <1>3
  <2>3. QED
    BY <2>1, <2>2
<1>5. QED
  BY <1>4


(* What holds of 0, and of each number when it holds of the one before. *)
LEMMA Upward ==
  ASSUME NEW T \in SUBSET Nat, 0 \in T, \A n \in Nat \ {0} : n - 1 \in T => n \in T
  PROVE  T = Nat
<1>1. SUFFICES ASSUME Nat \ T # {} PROVE FALSE
  OBVIOUS
<1>2. PICK m \in Nat \ T : \A y \in Nat \ T : m <= y
  BY <1>1, Least
<1>3. m \in Nat \ {0} /\ m - 1 \in Nat /\ ~(m <= m - 1)
  OBVIOUS
<1>4. m - 1 \in T
  BY <1>2, <1>3
<1>5. QED
  BY <1>2, <1>3, <1>4

(***************************************************************************)
(* What a server makes of messages, one after the other.                   *)
(***************************************************************************)
Reads(sync, start, ms, end) ==
  \E d : /\ \A n \in 1..Len(ms) : d[n] = DocAfter(sync, d[n - 1], ms[n])
         /\ d[0] = start /\ d[Len(ms)] = end

LEMMA ReadsOnce ==
  ASSUME NEW sync, NEW start, NEW ms, Len(ms) \in Nat, NEW end, Reads(sync, start, ms, end),
         NEW d, d = [n \in 0..Len(ms) |-> IF n = 0 THEN start ELSE DocAfter(sync, d[n - 1], ms[n])]
  PROVE  d[Len(ms)] = end
<1> DEFINE N == Len(ms)
<1>1. PICK e : /\ \A n \in 1..N : e[n] = DocAfter(sync, e[n - 1], ms[n])
               /\ e[0] = start /\ e[N] = end
  BY DEF Reads
<1>2. \A n \in 0..N : d[n] = IF n = 0 THEN start ELSE DocAfter(sync, d[n - 1], ms[n])
  OBVIOUS
<1>0. N \in Nat
  OBVIOUS
<1> HIDE DEF N
<1> DEFINE T == {n \in Nat : n <= N => d[n] = e[n]}
<1>3. 0 \in T
  BY <1>0, <1>1, <1>2
<1>4. ASSUME NEW n \in Nat \ {0}, n - 1 \in T PROVE n \in T
  <2>1. SUFFICES ASSUME n <= N PROVE d[n] = e[n]
    OBVIOUS
  <2>2. d[n - 1] = e[n - 1] /\ n \in 0..N /\ n \in 1..N /\ n # 0
    BY <1>0, <1>4, <2>1
  <2>3. QED
    BY <1>1, <1>2, <2>2
<1> HIDE DEF T
<1>5. T = Nat
  BY <1>3, <1>4, Upward DEF T
<1>6. d[N] = e[N]
  <2>1. N \in T /\ N <= N
    BY <1>0, <1>5
  <2>2. QED
    BY <2>1 DEF T
<1>7. QED
  BY <1>1, <1>6 DEF N

LEMMA HeardIs ==
  ASSUME NEW ms, Len(ms) \in Nat, NEW end, Reads(server.sync, server.doc, ms, end)
  PROVE  Heard(ms) = end
<1> DEFINE N == Len(ms)
<1>1. PICK e : /\ \A n \in 1..N : e[n] = DocAfter(server.sync, e[n - 1], ms[n])
               /\ e[0] = server.doc /\ e[N] = end
  BY DEF Reads
<1> DEFINE b == [n \in 0..N |-> e[n]]
<1>2. ASSUME NEW n \in 0..N
      PROVE  b[n] = IF n = 0 THEN server.doc ELSE DocAfter(server.sync, b[n - 1], ms[n])
  <2>1. CASE n = 0
    BY <1>1, <2>1
  <2>2. CASE n # 0
    <3>1. n \in 1..N /\ n - 1 \in 0..N
      BY <2>2
    <3>2. b[n] = e[n] /\ b[n - 1] = e[n - 1]
      BY <3>1
    <3>3. QED
      BY <1>1, <2>2, <3>1, <3>2
  <2>3. QED
    BY <2>1, <2>2
<1>3. b = [n \in 0..N |-> b[n]]
  OBVIOUS
<1> HIDE DEF b
<1>4. b = [n \in 0..N |-> IF n = 0 THEN server.doc ELSE DocAfter(server.sync, b[n - 1], ms[n])]
  BY <1>2, <1>3
<1> DEFINE c == CHOOSE d : d = [n \in 0..N |-> IF n = 0 THEN server.doc
                                              ELSE DocAfter(server.sync, d[n - 1], ms[n])]
<1>5. c = [n \in 0..N |-> IF n = 0 THEN server.doc ELSE DocAfter(server.sync, c[n - 1], ms[n])]
  BY <1>4
<1>6. Heard(ms) = c[N]
  BY Zenon DEF Heard
<1> HIDE DEF c
<1>7. c[N] = end
  BY <1>5, ReadsOnce
<1>8. QED
  BY <1>6, <1>7

LEMMA ReadsFew ==
  ASSUME NEW sync, NEW start
  PROVE  /\ Reads(sync, start, <<>>, start)
         /\ \A m : Reads(sync, start, <<m>>, DocAfter(sync, start, m))
<1>1. Reads(sync, start, <<>>, start)
  <2> DEFINE d == [n \in 0..0 |-> start]
  <2>1. d[0] = start /\ Len(<<>>) = 0 /\ \A n \in 1..0 : FALSE
    OBVIOUS
  <2> HIDE DEF d
  <2>2. QED
    BY <2>1 DEF Reads
<1>2. ASSUME NEW m PROVE Reads(sync, start, <<m>>, DocAfter(sync, start, m))
  <2> DEFINE e == DocAfter(sync, start, m)
             d == [n \in 0..1 |-> IF n = 0 THEN start ELSE e]
             ms == <<m>>
  <2>1. d[0] = start /\ d[1] = e /\ Len(ms) = 1 /\ ms[1] = m
    OBVIOUS
  <2> HIDE DEF d, ms
  <2>2. \A n \in 1..1 : d[n] = DocAfter(sync, d[n - 1], ms[n])
    <3>1. \A n \in 1..1 : n = 1 /\ 1 - 1 = 0
      OBVIOUS
    <3>2. d[1] = DocAfter(sync, d[0], ms[1])
      BY <2>1
    <3>3. QED
      BY <3>1, <3>2
  <2>3. Reads(sync, start, ms, e)
    BY <2>1, <2>2 DEF Reads
  <2>4. QED
    BY <2>3 DEF ms
<1>3. QED
  BY <1>1, <1>2

LEMMA ReadsMore ==
  ASSUME NEW S, NEW ms \in Seq(S), NEW ns \in Seq(S), NEW sync, NEW start, NEW mid, NEW end,
         Reads(sync, start, ms, mid), Reads(sync, mid, ns, end)
  PROVE  Reads(sync, start, ms \o ns, end)
<1> DEFINE l == Len(ms)
           k == Len(ns)
           os == ms \o ns
<1>1. /\ l \in Nat /\ k \in Nat /\ Len(os) = l + k
      /\ \A n \in 1..l + k : os[n] = IF n <= l THEN ms[n] ELSE ns[n - l]
  BY ConcatProperties, LenProperties
<1>2. PICK d : /\ \A n \in 1..l : d[n] = DocAfter(sync, d[n - 1], ms[n])
               /\ d[0] = start /\ d[l] = mid
  BY DEF Reads
<1>3. PICK e : /\ \A n \in 1..k : e[n] = DocAfter(sync, e[n - 1], ns[n])
               /\ e[0] = mid /\ e[k] = end
  BY DEF Reads
<1> HIDE DEF l, k, os
<1> DEFINE f == [n \in 0..l + k |-> IF n <= l THEN d[n] ELSE e[n - l]]
<1>4. \A n \in 0..l + k : f[n] = IF n <= l THEN d[n] ELSE e[n - l]
  OBVIOUS
<1> HIDE DEF f
<1>5. f[0] = start
  <2>1. 0 \in 0..l + k /\ 0 <= l
    BY <1>1
  <2>2. QED
    BY <1>2, <1>4, <2>1
<1>6. f[l + k] = end
  <2>1. l + k \in 0..l + k /\ l + k - l = k
    BY <1>1
  <2>2. CASE k = 0
    <3>1. l + k = l /\ l + k <= l
      BY <1>1, <2>2
    <3>2. QED
      BY <1>2, <1>3, <1>4, <2>1, <2>2, <3>1
  <2>3. CASE k # 0
    <3>1. ~(l + k <= l)
      BY <1>1, <2>3
    <3> DEFINE p == l + k
    <3>2. p \in 0..l + k /\ ~(p <= l) /\ p - l = k
      BY <1>1, <2>3
    <3> HIDE DEF p
    <3>3. f[p] = e[k]
      BY <1>4, <3>2
    <3>4. QED
      BY <1>3, <3>3 DEF p
  <2>4. QED
    BY <2>2, <2>3
<1>7. ASSUME NEW n \in 1..l + k PROVE f[n] = DocAfter(sync, f[n - 1], os[n])
  <2>0. n \in 0..l + k /\ n - 1 \in 0..l + k
    BY <1>1
  <2>1. CASE n <= l
    <3>1. n \in 1..l /\ n - 1 <= l
      BY <1>1, <2>1
    <3>2. f[n] = d[n] /\ f[n - 1] = d[n - 1] /\ os[n] = ms[n]
      BY <1>1, <1>4, <2>0, <2>1, <3>1
    <3>3. QED
      BY <1>2, <3>1, <3>2
  <2>2. CASE n = l + 1
    <3>1. ~(n <= l) /\ n - 1 <= l /\ n - l = 1 /\ n - 1 = l /\ 1 \in 1..k /\ 1 - 1 = 0
      BY <1>1, <2>2
    <3>2. f[n] = e[1] /\ f[n - 1] = e[0] /\ os[n] = ns[1]
      BY <1>1, <1>2, <1>3, <1>4, <2>0, <3>1
    <3>3. e[1] = DocAfter(sync, e[0], ns[1])
      BY <1>3, <3>1
    <3>4. QED
      BY <3>2, <3>3
  <2>3. CASE ~(n <= l) /\ n # l + 1
    <3>1. ~(n <= l) /\ ~(n - 1 <= l) /\ n - l \in 1..k /\ n - 1 - l = n - l - 1
      BY <1>1, <2>3
    <3>2. f[n] = e[n - l] /\ f[n - 1] = e[n - l - 1] /\ os[n] = ns[n - l]
      BY <1>1, <1>4, <2>0, <3>1
    <3>3. QED
      BY <1>3, <3>1, <3>2
  <2>4. QED
    BY <2>1, <2>2, <2>3
<1>8. Reads(sync, start, os, end)
  BY <1>1, <1>5, <1>6, <1>7 DEF Reads
<1>9. QED
  BY <1>8 DEF os

LEMMA ReadsRest ==
  ASSUME NEW S, NEW ms \in Seq(S), ms # <<>>, NEW sync, NEW start, NEW end, Reads(sync, start, ms, end)
  PROVE  Reads(sync, DocAfter(sync, start, Head(ms)), Tail(ms), end)
<1> DEFINE l == Len(ms)
           ts == Tail(ms)
           s == DocAfter(sync, start, Head(ms))
<1>1. /\ l \in Nat /\ l > 0 /\ Len(ts) = l - 1 /\ Head(ms) = ms[1]
      /\ \A n \in 1..l - 1 : ts[n] = ms[n + 1]
  <2>1. l \in Nat /\ l > 0
    BY EmptySeq, LenProperties
  <2>2. Len(ts) = l - 1 /\ \A n \in 1..Len(ts) : ts[n] = ms[n + 1]
    BY HeadTailProperties
  <2>3. QED
    BY <2>1, <2>2
<1>2. PICK d : /\ \A n \in 1..l : d[n] = DocAfter(sync, d[n - 1], ms[n])
               /\ d[0] = start /\ d[l] = end
  BY DEF Reads
<1> HIDE DEF l, ts
<1> DEFINE f == [n \in 0..l - 1 |-> d[n + 1]]
<1>3. f[0] = s
  <2>1. 0 \in 0..l - 1 /\ 0 + 1 = 1 /\ 1 \in 1..l /\ 1 - 1 = 0
    BY <1>1
  <2>2. f[0] = d[1]
    BY <2>1
  <2>3. d[1] = DocAfter(sync, d[0], ms[1])
    BY <1>2, <2>1
  <2>4. QED
    BY <1>1, <1>2, <2>2, <2>3
<1>4. f[l - 1] = end
  <2>1. l - 1 \in 0..l - 1 /\ l - 1 + 1 = l
    BY <1>1
  <2>2. QED
    BY <1>2, <2>1
<1>5. ASSUME NEW n \in 1..l - 1 PROVE f[n] = DocAfter(sync, f[n - 1], ts[n])
  <2>1. n \in 0..l - 1 /\ n - 1 \in 0..l - 1 /\ n + 1 \in 1..l /\ n + 1 - 1 = n - 1 + 1
    BY <1>1
  <2>2. f[n] = d[n + 1] /\ f[n - 1] = d[n + 1 - 1]
    BY <2>1
  <2>3. QED
    BY <1>1, <1>2, <2>1, <2>2
<1> HIDE DEF f, s
<1>6. Reads(sync, s, ts, end)
  BY <1>1, <1>3, <1>4, <1>5 DEF Reads
<1>7. QED
  BY <1>6 DEF s, ts

(***************************************************************************)
(* Types.                                                                  *)
(***************************************************************************)
EditorType ==
  [doc : Nat, told : Int, pending_change : BOOLEAN, broken : BOOLEAN, loading : BOOLEAN,
   rx : {"none", "waiting", "ready", "gone"}, rx_id : Nat]
ServerType == [alive : BOOLEAN, sync : Kinds, doc : Int, asked : SUBSET Nat, tokens : SUBSET Tokens]

(* The editor and the queue while the edits of the server are applied. *)
Pair == [editor : EditorType, queue : Seq(Message)]

LEMMA MessageTyped ==
  /\ \A kind \in {"initialized", "applied", "exit"} : Plainly(kind) \in Message
  /\ \A kind \in {"initialize", "ask", "shutdown"}, id \in Nat : Request(kind, id) \in Message
  /\ \A doc \in Int : Full(doc) \in Message
  /\ \A from, doc \in Int : Ranged(from, doc) \in Message
BY DEF Message, Plainly, Request, Full, Ranged

LEMMA EditorFields ==
  ASSUME NEW e \in EditorType
  PROVE  /\ Changed(e) \in EditorType /\ Changed(e).told = e.told /\ Changed(e).broken = e.broken
         /\ Changed(e).pending_change = e.pending_change /\ Changed(e).doc = e.doc + 1
         /\ Told(e) \in EditorType /\ Told(e).told = e.doc /\ Told(e).doc = e.doc
         /\ Told(e).pending_change = e.pending_change
         /\ e.doc \in Int /\ e.told \in Int
<1>1. e.doc \in Nat /\ e.doc + 1 \in Nat /\ e.told \in Int /\ e.doc \in Int
  BY DEF EditorType
<1>2. /\ Changed(e) \in EditorType /\ Changed(e).told = e.told /\ Changed(e).broken = e.broken
      /\ Changed(e).pending_change = e.pending_change /\ Changed(e).doc = e.doc + 1
  BY <1>1 DEF EditorType, Changed
<1>3. /\ Told(e) \in EditorType /\ Told(e).told = e.doc /\ Told(e).doc = e.doc
      /\ Told(e).pending_change = e.pending_change
  <2>1. e.doc \in Int
    BY <1>1
  <2> DEFINE d == e.doc
  <2>2. [e EXCEPT !.told = d, !.broken = FALSE] \in EditorType
    <3> HIDE DEF d
    <3>1. d \in Int
      BY <2>1 DEF d
    <3>2. QED
      BY <3>1 DEF EditorType
  <2>3. QED
    BY <2>2 DEF Told, EditorType
<1>4. QED
  BY <1>1, <1>2, <1>3

LEMMA FlushedFields ==
  ASSUME NEW e \in EditorType
  PROVE  /\ Flushed(e) \in EditorType /\ Flushed(e).doc = e.doc
         /\ e.pending_change => Flushed(e).told = e.doc /\ Flushed(e).pending_change = FALSE
         /\ ~e.pending_change => Flushed(e) = e
<1> DEFINE t == Told(e)
<1>1. t \in EditorType /\ t.told = e.doc /\ t.doc = e.doc
  BY EditorFields
<1>2. Flushed(e) = IF e.pending_change THEN [t EXCEPT !.pending_change = FALSE] ELSE e
  BY DEF Flushed
<1> HIDE DEF t
<1> DEFINE u == [t EXCEPT !.pending_change = FALSE]
<1>3. u \in EditorType /\ u.told = t.told /\ u.doc = t.doc /\ u.pending_change = FALSE
  BY <1>1 DEF EditorType
<1> HIDE DEF u
<1>4. CASE e.pending_change
  BY <1>1, <1>2, <1>3, <1>4 DEF u
<1>5. CASE ~e.pending_change
  BY <1>2, <1>5
<1>6. QED
  BY <1>4, <1>5

LEMMA LoadingFields ==
  ASSUME NEW e \in EditorType
  PROVE  /\ Loading(e) \in EditorType /\ Loading(e).told = e.told /\ Loading(e).doc = e.doc
         /\ Loading(e).pending_change = e.pending_change
         /\ Answered(e) \in EditorType /\ Answered(e).told = e.told /\ Answered(e).doc = e.doc
         /\ Answered(e).pending_change = e.pending_change
<1>1. IsReady \in BOOLEAN /\ IsIndexing \in BOOLEAN
  BY DEF IsReady, IsIndexing
<1>2. (IF e.loading THEN ~IsReady ELSE IsIndexing) \in BOOLEAN
  BY <1>1
<1>3. (IF e.rx = "ready" THEN FALSE ELSE e.loading) \in BOOLEAN
  BY DEF EditorType
<1>4. QED
  BY <1>2, <1>3 DEF EditorType, Loading, Answered

LEMMA QueuedTyped ==
  ASSUME NEW q \in Seq(Message), NEW ms \in Seq(Message)
  PROVE  Queued(q, ms) \in Seq(Message)
BY ConcatProperties DEF Queued

LEMMA SentTyped ==
  ASSUME writer_rx \in Seq(Message), NEW ms \in Seq(Message), Post(ms)
  PROVE  writer_rx' \in Seq(Message)
BY QueuedTyped DEF Post

LEMMA OneMessage ==
  /\ <<>> \in Seq(Message)
  /\ \A m \in Message : <<m>> \in Seq(Message)
  /\ \A m, n \in Message : <<m, n>> \in Seq(Message)
OBVIOUS

LEMMA ChangeTyped ==
  ASSUME NEW e \in EditorType
  PROVE  Change(e) \in Seq(Message) /\ Flush(e) \in Seq(Message)
<1>1. Full(e.doc) \in Message /\ Ranged(e.told, e.doc) \in Message
  BY MessageTyped, EditorFields
<1>2. Change(e) \in Seq(Message)
  BY <1>1, OneMessage DEF Change
<1>3. QED
  BY <1>2, OneMessage DEF Flush

LEMMA EditedTyped ==
  ASSUME NEW c \in Pair
  PROVE  Edited(c) \in Pair
<1> DEFINE e == Changed(c.editor)
<1>1. e \in EditorType /\ Told(e) \in EditorType /\ Change(e) \in Seq(Message)
  BY EditorFields, ChangeTyped DEF Pair
<1>2. Queued(c.queue, Change(e)) \in Seq(Message)
  BY <1>1, QueuedTyped DEF Pair
<1>3. Edited(c) = [editor |-> Told(e), queue |-> Queued(c.queue, Change(e))]
  BY DEF Edited
<1> HIDE DEF e
<1>4. QED
  BY <1>1, <1>2, <1>3 DEF Pair

LEMMA HeadTyped ==
  ASSUME NEW S, NEW q \in Seq(S), q # <<>>
  PROVE  Head(q) \in S /\ Tail(q) \in Seq(S)
BY HeadTailProperties

LEMMA DeadTyped == Dead \in ServerType /\ Dead.alive = FALSE
<1> DEFINE p == [alive |-> TRUE, sync |-> "full", doc |-> Lost, asked |-> {}, tokens |-> {}]
<1>1. Dead = [p EXCEPT !.alive = FALSE]
  BY DEF Dead, Process
<1>2. p \in ServerType
  BY DEF ServerType, Kinds, Lost
<1> HIDE DEF p
<1>3. [p EXCEPT !.alive = FALSE] \in ServerType /\ [p EXCEPT !.alive = FALSE].alive = FALSE
  BY <1>2 DEF ServerType
<1>4. QED
  BY <1>1, <1>3

LEMMA InitTyped == LspInit => LspTypeOK
<1> SUFFICES ASSUME LspInit PROVE LspTypeOK
  OBVIOUS
<1>1. <<>> \in Seq(Message) /\ <<>> \in Seq(Saying)
  OBVIOUS
<1>2. server \in ServerType
  BY DEF LspInit, Process, ServerType, Kinds, Lost
<1>3. editor \in EditorType
  BY DEF LspInit, NoEditor, EditorType, Lost
<1>4. QED
  BY <1>1, <1>2, <1>3 DEF LspInit, LspTypeOK, EditorType, ServerType

(* The steps of the main thread but Poll. *)
MainStep ==
  \/ Initialize \/ Initialized \/ Key \/ EditElsewhere \/ Ask
  \/ Shutdown \/ JoinWriter \/ JoinReader

LEMMA MainTyped ==
  ASSUME LspTypeOK, MainStep
  PROVE  LspTypeOK'
<1>0. /\ writer_rx \in Seq(Message) /\ editor \in EditorType /\ next_id \in Nat /\ pending \subseteq Nat
      /\ server \in ServerType /\ <<>> \in Seq(Message) /\ <<>> \in Seq(Saying)
  BY DEF LspTypeOK, EditorType, ServerType
<1>1. CASE Initialize
  <2>1. /\ next_id' = 2 /\ pending' = {1} /\ Post(<<Request("initialize", 1), Plainly("initialized")>>)
        /\ UNCHANGED <<main, status, active_progress, capabilities, writer, reader, apply_edit_rx, pipeVars,
                       server, editor, said, overwritten>>
    BY <1>1 DEF Initialize
  <2>2. writer_rx' \in Seq(Message)
    BY <1>0, <2>1, SentTyped, MessageTyped, OneMessage
  <2>3. QED
    BY <2>1, <2>2 DEF LspTypeOK, pipeVars
<1>2. CASE Initialized
  <2>1. /\ main' = "up" /\ status' = "Indexing"
        /\ editor' = [Told(editor) EXCEPT !.loading = TRUE]
        /\ Post(<<Full(editor.doc)>>)
        /\ UNCHANGED <<active_progress, capabilities, pending, next_id, writer, reader, apply_edit_rx, pipeVars,
                       server, said, overwritten>>
    BY <1>2 DEF Initialized
  <2>2. writer_rx' \in Seq(Message)
    <3>1. Full(editor.doc) \in Message
      BY <1>0, MessageTyped, EditorFields
    <3>2. QED
      BY <1>0, <2>1, <3>1, SentTyped, OneMessage
  <2>3. editor' \in EditorType
    <3>1. Told(editor) \in EditorType
      BY <1>0, EditorFields
    <3>2. QED
      BY <2>1, <3>1 DEF EditorType
  <2>4. QED
    BY <2>1, <2>2, <2>3 DEF LspTypeOK, pipeVars, EditorType
<1>3. CASE Key
  <2>1. PICK e \in {editor} \cup (IF editor.doc < MaxEdits
                                  THEN {[Changed(editor) EXCEPT !.pending_change = TRUE]} ELSE {}) :
          editor' = Flushed(e) /\ Post(Flush(e))
    BY <1>3 DEF Key
  <2>2. UNCHANGED <<pending, next_id, apply_edit_rx>> /\ MainElse
    BY <1>3 DEF Key
  <2>3. e \in EditorType
    <3>1. Changed(editor) \in EditorType
      BY <1>0, EditorFields
    <3>2. [Changed(editor) EXCEPT !.pending_change = TRUE] \in EditorType
      BY <3>1 DEF EditorType
    <3>3. QED
      BY <1>0, <3>2
  <2>4. editor' \in EditorType
    BY <2>1, <2>3, FlushedFields
  <2>5. writer_rx' \in Seq(Message)
    BY <1>0, <2>1, <2>3, ChangeTyped, SentTyped
  <2>6. QED
    BY <2>2, <2>4, <2>5 DEF LspTypeOK, MainElse, pipeVars, EditorType
<1>4. CASE EditElsewhere
  <2>1. PICK broken \in BOOLEAN :
          editor' = [Changed(editor) EXCEPT !.pending_change = TRUE, !.broken = @ \/ broken]
    BY <1>4 DEF EditElsewhere
  <2>2. UNCHANGED <<pending, next_id, apply_edit_rx, writer_rx>> /\ MainElse
    BY <1>4 DEF EditElsewhere
  <2>3. Changed(editor) \in EditorType
    BY <1>0, EditorFields
  <2>4. (Changed(editor).broken \/ broken) \in BOOLEAN
    OBVIOUS
  <2>5. editor' \in EditorType
    BY <2>1, <2>3, <2>4 DEF EditorType
  <2>6. QED
    BY <2>2, <2>5 DEF LspTypeOK, MainElse, pipeVars, EditorType
<1>5. CASE Ask
  <2>1. /\ next_id' = next_id + 1 /\ pending' = pending \cup {next_id}
        /\ Post(<<Request("ask", next_id)>>)
        /\ editor' = [editor EXCEPT !.rx_id = next_id, !.rx = IF writer = "over" THEN "gone" ELSE "waiting"]
        /\ apply_edit_rx' = apply_edit_rx /\ MainElse
    BY <1>5 DEF Ask
  <2>2. writer_rx' \in Seq(Message)
    BY <1>0, <2>1, SentTyped, MessageTyped, OneMessage
  <2>3. editor' \in EditorType
    BY <1>0, <2>1 DEF EditorType
  <2>4. next_id' \in Nat /\ pending' \subseteq Nat
    BY <1>0, <2>1
  <2>5. apply_edit_rx' = apply_edit_rx /\ MainElse
    BY <2>1
  <2>6. QED
    BY <2>2, <2>3, <2>4, <2>5 DEF LspTypeOK, MainElse, pipeVars, EditorType
<1>6. CASE Shutdown
  <2>1. /\ main' = "writer" /\ status' = "ShuttingDown"
        /\ Post(<<Request("shutdown", next_id), Plainly("exit")>>)
        /\ pending' = pending \cup {next_id}
        /\ editor' = NoEditor /\ apply_edit_rx' = <<>>
        /\ UNCHANGED <<active_progress, capabilities, next_id, writer, reader, pipeVars, server, said, overwritten>>
    BY <1>6 DEF Shutdown
  <2>2. writer_rx' \in Seq(Message)
    BY <1>0, <2>1, SentTyped, MessageTyped, OneMessage
  <2>3. editor' \in EditorType
    BY <2>1 DEF NoEditor, EditorType, Lost
  <2>4. pending' \subseteq Nat /\ apply_edit_rx' \in Seq(Saying)
    BY <1>0, <2>1
  <2>5. /\ main' = "writer" /\ status' = "ShuttingDown"
        /\ UNCHANGED <<active_progress, capabilities, next_id, writer, reader, pipeVars, server, said, overwritten>>
    BY <2>1
  <2>6. QED
    BY <2>2, <2>3, <2>4, <2>5 DEF LspTypeOK, pipeVars, EditorType
<1>7. CASE JoinWriter
  BY <1>7 DEF LspTypeOK, JoinWriter, JoinElse
<1>8. CASE JoinReader
  <2>1. /\ main' = "stopped" /\ status' = "Stopped" /\ server' = Dead /\ to_server' = <<>> /\ JoinElse
    BY <1>8 DEF JoinReader, Dies
  <2>2. Dead \in ServerType
    BY DeadTyped
  <2>3. QED
    BY <1>0, <2>1, <2>2 DEF LspTypeOK, JoinElse, ServerType
<1>9. QED
  BY <1>1, <1>2, <1>3, <1>4, <1>5, <1>6, <1>7, <1>8 DEF MainStep

(* Any number of edits by the server keep what one edit keeps. *)
PollStart == [editor |-> Loading(editor), queue |-> writer_rx]

IsEdited(d, n) == d = [k \in 0..n |-> IF k = 0 THEN PollStart ELSE Edited(d[k - 1])]

LEMMA EditedExists == \A n \in Nat : \E d : IsEdited(d, n)
<1> DEFINE T == {n \in Nat : \E d : IsEdited(d, n)}
<1>1. 0 \in T
  <2>1. IsEdited([k \in 0..0 |-> PollStart], 0)
    BY DEF IsEdited
  <2>2. QED
    BY <2>1
<1>2. ASSUME NEW n \in Nat \ {0}, n - 1 \in T
      PROVE  n \in T
  <2>1. PICK d : IsEdited(d, n - 1)
    BY <1>2
  <2> DEFINE g == [k \in 0..n |-> IF k = n THEN Edited(d[n - 1]) ELSE d[k]]
  <2>2. \A k \in 0..n - 1 : d[k] = IF k = 0 THEN PollStart ELSE Edited(d[k - 1])
    BY <2>1 DEF IsEdited
  <2>3. ASSUME NEW k \in 0..n PROVE g[k] = IF k = 0 THEN PollStart ELSE Edited(g[k - 1])
    <3>1. CASE k = n
      <4>1. n - 1 \in 0..n /\ n - 1 # n /\ n # 0
        OBVIOUS
      <4>2. g[n] = Edited(d[n - 1]) /\ g[n - 1] = d[n - 1]
        BY <4>1
      <4>3. QED
        BY <3>1, <4>1, <4>2
    <3>2. CASE k = 0
      <4>1. 0 \in 0..n - 1 /\ 0 \in 0..n /\ 0 # n
        OBVIOUS
      <4>2. g[0] = d[0] /\ d[0] = PollStart
        BY <2>2, <4>1
      <4>3. QED
        BY <3>2, <4>2
    <3>3. CASE k # n /\ k # 0
      <4>1. k \in 0..n - 1 /\ k - 1 \in 0..n /\ k - 1 # n
        BY <3>3
      <4>2. g[k] = d[k] /\ g[k - 1] = d[k - 1]
        BY <3>3, <4>1
      <4>3. QED
        BY <2>2, <3>3, <4>1, <4>2
    <3>4. QED
      BY <3>1, <3>2, <3>3
  <2>4. g = [k \in 0..n |-> g[k]]
    OBVIOUS
  <2> HIDE DEF g
  <2>5. IsEdited(g, n)
    BY <2>3, <2>4 DEF IsEdited
  <2>6. QED
    BY <2>5
<1> HIDE DEF T
<1>3. T = Nat
  BY <1>1, <1>2, Upward DEF T
<1>4. QED
  BY <1>3 DEF T

LEMMA AfterEditsIn ==
  ASSUME Len(apply_edit_rx) \in Nat, NEW P, PollStart \in P, \A c \in P : Edited(c) \in P
  PROVE  AfterEdits \in P
<1> DEFINE N == Len(apply_edit_rx)
           c == CHOOSE d : d = [k \in 0..N |-> IF k = 0 THEN [editor |-> Loading(editor), queue |-> writer_rx]
                                               ELSE Edited(d[k - 1])]
<1>1. \E d : d = [k \in 0..N |-> IF k = 0 THEN [editor |-> Loading(editor), queue |-> writer_rx]
                                  ELSE Edited(d[k - 1])]
  BY EditedExists DEF IsEdited, PollStart
<1>2. c = [k \in 0..N |-> IF k = 0 THEN [editor |-> Loading(editor), queue |-> writer_rx]
                          ELSE Edited(c[k - 1])]
  BY <1>1
<1>3. AfterEdits = c[N]
  BY Zenon DEF AfterEdits
<1> HIDE DEF c
<1>4. \A k \in 0..N : c[k] = IF k = 0 THEN PollStart ELSE Edited(c[k - 1])
  BY <1>2 DEF PollStart
<1>5. N \in Nat
  OBVIOUS
<1> HIDE DEF N
<1> DEFINE T == {k \in Nat : k <= N => c[k] \in P}
<1>6. 0 \in T
  BY <1>4, <1>5
<1>7. ASSUME NEW k \in Nat \ {0}, k - 1 \in T PROVE k \in T
  <2>1. SUFFICES ASSUME k <= N PROVE c[k] \in P
    OBVIOUS
  <2>2. c[k - 1] \in P /\ k \in 0..N /\ k # 0
    BY <1>5, <1>7, <2>1
  <2>3. c[k] = Edited(c[k - 1])
    BY <1>4, <2>2
  <2>4. QED
    BY <2>2, <2>3
<1> HIDE DEF T
<1>8. T = Nat
  BY <1>6, <1>7, Upward DEF T
<1>9. N \in T /\ N <= N
  BY <1>5, <1>8
<1>10. c[N] \in P
  BY <1>9 DEF T
<1>11. QED
  BY <1>3, <1>10

LEMMA PollTyped ==
  ASSUME LspTypeOK, Poll
  PROVE  LspTypeOK'
<1> DEFINE polled == IF editor.rx = "ready" THEN Edited(AfterEdits) ELSE AfterEdits
<1>1. /\ editor' = IF editor.rx = "waiting" THEN polled.editor ELSE Answered(polled.editor)
      /\ writer_rx' = polled.queue /\ apply_edit_rx' = <<>>
      /\ UNCHANGED <<pending, next_id>> /\ MainElse
  BY DEF Poll
<1>2. AfterEdits \in Pair
  <2>1. editor \in EditorType /\ writer_rx \in Seq(Message)
    BY DEF LspTypeOK, EditorType
  <2>2. PollStart \in Pair
    BY <2>1, LoadingFields DEF PollStart, Pair
  <2>3. Len(apply_edit_rx) \in Nat
    BY LenProperties DEF LspTypeOK
  <2>4. QED
    BY <2>2, <2>3, AfterEditsIn, EditedTyped
<1>3. polled \in Pair
  BY <1>2, EditedTyped
<1> HIDE DEF polled
<1>4. polled.editor \in EditorType /\ polled.queue \in Seq(Message)
  BY <1>3 DEF Pair
<1>5. editor' \in EditorType
  BY <1>1, <1>4, LoadingFields
<1>6. apply_edit_rx' \in Seq(Saying)
  BY <1>1
<1>7. QED
  BY <1>1, <1>4, <1>5, <1>6 DEF LspTypeOK, MainElse, pipeVars, EditorType

LEMMA WriteTyped ==
  ASSUME LspTypeOK, Write
  PROVE  LspTypeOK'
<1>1. /\ writer_rx # <<>>
      /\ IF MayWrite
         THEN /\ to_server' = Append(to_server, Head(writer_rx))
              /\ writer_rx' = Tail(writer_rx)
              /\ UNCHANGED writer
         ELSE writer' = "over" /\ writer_rx' = <<>> /\ UNCHANGED to_server
      /\ UNCHANGED <<main, clientVars, reader, apply_edit_rx, to_client, server, editor, said, overwritten>>
  BY DEF Write
<1>2. /\ writer_rx \in Seq(Message) /\ to_server \in Seq(Message) /\ <<>> \in Seq(Message)
      /\ writer \in {"recv", "over"}
  BY DEF LspTypeOK
<1>3. Head(writer_rx) \in Message /\ Tail(writer_rx) \in Seq(Message)
  BY <1>1, <1>2, HeadTyped
<1>4. Append(to_server, Head(writer_rx)) \in Seq(Message)
  BY <1>2, <1>3, AppendProperties
<1>5. to_server' \in Seq(Message) /\ writer_rx' \in Seq(Message) /\ writer' \in {"recv", "over"}
  BY <1>1, <1>2, <1>3, <1>4
<1>6. QED
  BY <1>1, <1>5 DEF LspTypeOK, clientVars

LEMMA SayingFields ==
  /\ \A m \in Saying : m.kind = "response" => m.id \in Nat
  /\ \A m \in Saying : m.kind \in {"begin", "end"} => m.token \in Tokens
BY DEF Saying

LEMMA ReceiveTyped ==
  ASSUME LspTypeOK, NEW kind, Dispatch(kind)
  PROVE  /\ Head(to_client) \in Saying /\ Head(to_client).kind = kind
         /\ to_client' \in Seq(Saying) /\ reader' = "head" /\ ReaderElse
<1>1. to_client \in Seq(Saying)
  BY DEF LspTypeOK
<1>2. /\ to_client # <<>> /\ Head(to_client).kind = kind
      /\ reader' = "head" /\ to_client' = Tail(to_client) /\ ReaderElse
  BY DEF Dispatch
<1>3. QED
  BY <1>1, <1>2, HeadTyped

LEMMA ReaderTyped ==
  ASSUME LspTypeOK, ReaderLoop
  PROVE  LspTypeOK'
<1>0. editor \in EditorType /\ server \in ServerType /\ server.sync \in Kinds
  BY DEF LspTypeOK, EditorType, ServerType
<1>1. CASE LoopHead
  BY <1>1 DEF LspTypeOK, LoopHead, ReaderElse
<1>2. CASE EndOfFile
  BY <1>2 DEF LspTypeOK, EndOfFile, ReaderElse
<1>3. CASE HandleResponse
  <2> DEFINE m == Head(to_client)
  <2>1. Dispatch("response")
    BY <1>3 DEF HandleResponse
  <2>2. /\ pending' = pending \ Release(m)
        /\ capabilities' = IF m.id = 1 THEN server.sync ELSE capabilities
        /\ editor' = IF editor.rx = "waiting" /\ editor.rx_id \in (pending \cap Release(m))
                     THEN [editor EXCEPT !.rx = IF m.ok THEN "ready" ELSE "gone"] ELSE editor
        /\ UNCHANGED <<status, active_progress, writer_rx, apply_edit_rx, overwritten>>
    BY <1>3 DEF HandleResponse
  <2>3. editor' \in EditorType
    BY <1>0, <2>2 DEF EditorType
  <2>4. to_client' \in Seq(Saying) /\ reader' = "head" /\ ReaderElse
    BY <2>1, ReceiveTyped
  <2>5. QED
    BY <1>0, <2>2, <2>3, <2>4 DEF LspTypeOK, ReaderElse, EditorType
<1>4. CASE Begin
  <2>1. /\ Dispatch("begin") /\ Report("Indexing")
        /\ active_progress' = active_progress \cup {Head(to_client).token}
    BY <1>4 DEF Begin
  <2>2. Head(to_client).token \in Tokens /\ to_client' \in Seq(Saying) /\ reader' = "head" /\ ReaderElse
    BY <2>1, ReceiveTyped, SayingFields
  <2>3. QED
    BY <2>1, <2>2 DEF LspTypeOK, ReaderElse, Report
<1>5. CASE End
  <2>1. /\ Dispatch("end") /\ active_progress' = active_progress \ {Head(to_client).token}
        /\ Report(IF active_progress' = {} THEN "Running" ELSE status)
    BY <1>5 DEF End
  <2>2. to_client' \in Seq(Saying) /\ reader' = "head" /\ ReaderElse
    BY <2>1, ReceiveTyped
  <2>3. QED
    BY <2>1, <2>2 DEF LspTypeOK, ReaderElse, Report
<1>6. CASE HandleServerRequest
  <2>1. /\ Dispatch("applyEdit")
        /\ apply_edit_rx' = IF main = "up" THEN Append(apply_edit_rx, Head(to_client)) ELSE apply_edit_rx
        /\ Post(<<Plainly("applied")>>)
        /\ UNCHANGED <<status, active_progress, capabilities, pending, editor, overwritten>>
    BY <1>6 DEF HandleServerRequest
  <2>2. Head(to_client) \in Saying /\ to_client' \in Seq(Saying) /\ reader' = "head" /\ ReaderElse
    BY <2>1, ReceiveTyped
  <2>3. apply_edit_rx \in Seq(Saying) /\ writer_rx \in Seq(Message)
    BY DEF LspTypeOK
  <2>4. apply_edit_rx' \in Seq(Saying)
    BY <2>1, <2>2, <2>3, AppendProperties
  <2>5. writer_rx' \in Seq(Message)
    BY <2>1, <2>3, SentTyped, MessageTyped, OneMessage
  <2>6. QED
    BY <2>1, <2>2, <2>4, <2>5 DEF LspTypeOK, ReaderElse
<1>7. QED
  BY <1>1, <1>2, <1>3, <1>4, <1>5, <1>6 DEF ReaderLoop

LEMMA SaysTyped ==
  ASSUME LspTypeOK, NEW m \in Saying, Says(m)
  PROVE  to_client' \in Seq(Saying)
BY AppendProperties DEF LspTypeOK, Says

LEMMA DiesTyped ==
  ASSUME LspTypeOK, Dies
  PROVE  server' \in ServerType /\ server'.alive = FALSE /\ to_server' \in Seq(Message)
BY DeadTyped DEF Dies

LEMMA DocAfterTyped ==
  ASSUME NEW sync, NEW doc \in Int, NEW m \in Message
  PROVE  DocAfter(sync, doc, m) \in Int
<1>1. m.kind = "full" => m.doc \in Int
  BY DEF Message
<1>2. m.kind = "ranged" => m.doc \in Int
  BY DEF Message
<1>3. Lost \in Int
  BY DEF Lost
<1>4. CASE m.kind = "full"
  BY <1>1, <1>4 DEF DocAfter
<1>5. CASE m.kind = "ranged"
  BY <1>2, <1>3, <1>5 DEF DocAfter
<1>6. CASE m.kind # "full" /\ m.kind # "ranged"
  BY <1>6 DEF DocAfter
<1>7. QED
  BY <1>4, <1>5, <1>6

(* The steps of the server. *)
ProcessStep ==
  \/ ServerReads \/ ServerAnswers \/ ServerEdits \/ ServerExits \/ ServerDies
  \/ \E t \in Tokens : ServerBegins(t) \/ ServerEnds(t)

LEMMA ServerReadsProperty ==
  ASSUME LspTypeOK, ServerReads
  PROVE  /\ to_server # <<>> /\ Head(to_server) \in Message
         /\ \/ Dies
            \/ /\ server' \in ServerType /\ server'.alive = server.alive /\ server'.sync = server.sync
               /\ server'.doc = DocAfter(server.sync, server.doc, Head(to_server))
               /\ to_server' = Tail(to_server)
<1> DEFINE m == Head(to_server)
           doc == DocAfter(server.sync, server.doc, m)
           asked == IF m.kind \in {"initialize", "ask"} THEN server.asked \cup {m.id} ELSE server.asked
<1>1. /\ to_server # <<>> /\ to_server \in Seq(Message) /\ server \in ServerType
  BY DEF LspTypeOK, ServerType, ServerReads
<1>2. m \in Message
  BY <1>1, HeadTyped
<1>3. \/ Dies
      \/ server' = [server EXCEPT !.doc = doc, !.asked = asked] /\ to_server' = Tail(to_server)
  BY DEF ServerReads
<1>4. doc \in Int
  BY <1>1, <1>2, DocAfterTyped DEF ServerType
<1>5. asked \in SUBSET Nat
  <2>1. m.kind \in {"initialize", "ask"} => m.id \in Nat
    BY <1>2 DEF Message
  <2>2. QED
    BY <1>1, <2>1 DEF ServerType
<1> HIDE DEF m, doc, asked
<1> DEFINE s == [server EXCEPT !.doc = doc, !.asked = asked]
<1>6. s \in ServerType /\ s.alive = server.alive /\ s.sync = server.sync /\ s.doc = doc
  BY <1>1, <1>4, <1>5 DEF ServerType
<1> HIDE DEF s
<1>7. QED
  BY <1>1, <1>2, <1>3, <1>6 DEF s, m, doc

LEMMA RestTyped ==
  ASSUME LspTypeOK, ServerElse,
         server' \in ServerType, to_server' \in Seq(Message), to_client' \in Seq(Saying), said' \in Nat
  PROVE  LspTypeOK'
BY DEF LspTypeOK, ServerElse, clientVars, ServerType

LEMMA ServerTyped ==
  ASSUME LspTypeOK, ProcessStep
  PROVE  LspTypeOK'
<1>0. /\ server \in ServerType /\ to_server \in Seq(Message) /\ said \in Nat
      /\ server.asked \subseteq Nat /\ server.tokens \subseteq Tokens
  BY DEF LspTypeOK, ServerType
<1>1. CASE ServerReads
  <2>1. UNCHANGED <<to_client, said>> /\ ServerElse
    BY <1>1 DEF ServerReads
  <2>2. server' \in ServerType /\ to_server' \in Seq(Message)
    BY <1>0, <1>1, ServerReadsProperty, DiesTyped, HeadTyped
  <2>3. QED
    BY <2>1, <2>2 DEF LspTypeOK, ServerElse, clientVars, ServerType
<1>2. CASE ServerAnswers
  <2>1. PICK id \in server.asked, ok \in BOOLEAN :
          /\ Says([kind |-> "response", id |-> id, ok |-> ok])
          /\ server' = [server EXCEPT !.asked = @ \ {id}]
    BY <1>2 DEF ServerAnswers
  <2>2. UNCHANGED <<to_server, said>> /\ ServerElse
    BY <1>2 DEF ServerAnswers
  <2>3. [kind |-> "response", id |-> id, ok |-> ok] \in Saying
    BY <1>0 DEF Saying
  <2>4. to_client' \in Seq(Saying)
    BY <2>1, <2>3, SaysTyped
  <2>5. server' \in ServerType
    BY <1>0, <2>1 DEF ServerType
  <2>6. QED
    BY <2>2, <2>4, <2>5 DEF LspTypeOK, ServerElse, clientVars, ServerType
<1>3. CASE ServerEdits
  <2>1. Plainly("applyEdit") \in Saying
    BY DEF Plainly, Saying
  <2>2. to_client' \in Seq(Saying)
    BY <1>3, <2>1, SaysTyped DEF ServerEdits
  <2>3. QED
    BY <1>0, <1>3, <2>2 DEF LspTypeOK, ServerEdits, ServerElse, clientVars
<1>4. CASE ServerExits \/ ServerDies
  <2>1. Dies /\ UNCHANGED <<to_client, said>> /\ ServerElse
    BY <1>4 DEF ServerExits, ServerDies
  <2>2. server' \in ServerType /\ to_server' \in Seq(Message)
    BY <2>1, DiesTyped
  <2>3. QED
    BY <2>1, <2>2 DEF LspTypeOK, ServerElse, clientVars, ServerType
<1>5. ASSUME NEW t \in Tokens, ServerBegins(t) PROVE LspTypeOK'
  <2>1. /\ Says([kind |-> "begin", token |-> t]) /\ said' = said + 1 /\ to_server' = to_server
        /\ server' = [server EXCEPT !.tokens = @ \cup {t}] /\ ServerElse
    BY <1>5 DEF ServerBegins
  <2>2. [kind |-> "begin", token |-> t] \in Saying
    BY DEF Saying
  <2>3. to_client' \in Seq(Saying)
    BY <2>1, <2>2, SaysTyped
  <2>4. server' \in ServerType
    BY <1>0, <2>1 DEF ServerType
  <2>5. to_server' \in Seq(Message) /\ said' \in Nat /\ ServerElse
    BY <1>0, <2>1
  <2>6. QED
    BY <2>3, <2>4, <2>5, RestTyped
<1>6. ASSUME NEW t \in Tokens, ServerEnds(t) PROVE LspTypeOK'
  <2>1. /\ Says([kind |-> "end", token |-> t]) /\ UNCHANGED <<to_server, said>>
        /\ server' = [server EXCEPT !.tokens = @ \ {t}] /\ ServerElse
    BY <1>6 DEF ServerEnds
  <2>2. [kind |-> "end", token |-> t] \in Saying
    BY DEF Saying
  <2>3. to_client' \in Seq(Saying)
    BY <2>1, <2>2, SaysTyped
  <2>4. server' \in ServerType
    BY <1>0, <2>1 DEF ServerType
  <2>5. to_server' \in Seq(Message) /\ said' \in Nat /\ ServerElse
    BY <1>0, <2>1
  <2>6. QED
    BY <2>3, <2>4, <2>5, RestTyped
<1>7. QED
  BY <1>1, <1>2, <1>3, <1>4, <1>5, <1>6 DEF ProcessStep

LEMMA NextTyped == LspTypeOK /\ [LspNext]_lspVars => LspTypeOK'
<1> SUFFICES ASSUME LspTypeOK, [LspNext]_lspVars PROVE LspTypeOK'
  OBVIOUS
<1>1. CASE UNCHANGED lspVars
  BY <1>1 DEF LspTypeOK, lspVars, clientVars, pipeVars
<1>2. QED
  BY <1>1, MainTyped, PollTyped, WriteTyped, ReaderTyped, ServerTyped DEF LspNext, MainStep, ProcessStep

(***************************************************************************)
(* The server's document.                                                  *)
(***************************************************************************)
Settled(e) == e.pending_change \/ e.told = e.doc
SyncKept == capabilities = "incremental" /\ server.alive => server.sync = "incremental"
Mirrors ==
  main \in {"start", "up"} /\ writer = "recv" /\ server.alive =>
    Reads(server.sync, server.doc, to_server \o writer_rx, editor.told)

LspInv == LspTypeOK /\ (main = "up" => Settled(editor)) /\ SyncKept /\ Mirrors

Plains == {"initialize", "ask", "shutdown", "initialized", "applied", "exit"}

LEMMA PlainReads ==
  ASSUME NEW sync, NEW start, NEW m, m.kind \in Plains
  PROVE  DocAfter(sync, start, m) = start /\ Reads(sync, start, <<m>>, start)
<1>1. DocAfter(sync, start, m) = start
  BY DEF DocAfter, Plains
<1>2. QED
  BY <1>1, ReadsFew

LEMMA FullReads ==
  ASSUME NEW sync, NEW start, NEW doc
  PROVE  Reads(sync, start, <<Full(doc)>>, doc)
<1>1. DocAfter(sync, start, Full(doc)) = doc
  BY DEF DocAfter, Full
<1>2. QED
  BY <1>1, ReadsFew

(* What is sent of a change brings a server that has what was told to the  *)
(* document.                                                               *)
LEMMA ChangeReads ==
  ASSUME NEW e, NEW sync, capabilities = "incremental" => sync = "incremental"
  PROVE  Reads(sync, e.told, Change(e), e.doc)
<1>1. CASE capabilities # "incremental" \/ e.broken
  BY <1>1, FullReads DEF Change
<1>2. CASE ~(capabilities # "incremental" \/ e.broken) /\ e.told = e.doc
  BY <1>2, ReadsFew DEF Change
<1>3. CASE ~(capabilities # "incremental" \/ e.broken) /\ e.told # e.doc
  <2> DEFINE m == Ranged(e.told, e.doc)
  <2>1. DocAfter(sync, e.told, m) = e.doc
    BY <1>3 DEF DocAfter, Ranged
  <2>2. Change(e) = <<m>>
    BY <1>3 DEF Change
  <2> HIDE DEF m
  <2>3. Reads(sync, e.told, <<m>>, DocAfter(sync, e.told, m))
    BY ReadsFew
  <2>4. QED
    BY <2>1, <2>2, <2>3
<1>4. QED
  BY <1>1, <1>2, <1>3

LEMMA FlushReads ==
  ASSUME NEW e \in EditorType, NEW sync, capabilities = "incremental" => sync = "incremental"
  PROVE  Reads(sync, e.told, Flush(e), Flushed(e).told)
<1>1. CASE e.pending_change
  <2>1. Flush(e) = Change(e) /\ Flushed(e).told = e.doc
    BY <1>1, FlushedFields DEF Flush
  <2>2. QED
    BY <2>1, ChangeReads
<1>2. CASE ~e.pending_change
  BY <1>2, FlushedFields, ReadsFew DEF Flush
<1>3. QED
  BY <1>1, <1>2

LEMMA ReadsQueued ==
  ASSUME NEW sent \in Seq(Message), NEW queue \in Seq(Message), NEW ms \in Seq(Message),
         NEW sync, NEW start, NEW mid, NEW end, writer = "recv",
         Reads(sync, start, sent \o queue, mid), Reads(sync, mid, ms, end)
  PROVE  Reads(sync, start, sent \o Queued(queue, ms), end)
<1>1. Queued(queue, ms) = queue \o ms
  BY DEF Queued
<1>2. sent \o (queue \o ms) = (sent \o queue) \o ms
  BY ConcatAssociative
<1>3. sent \o queue \in Seq(Message)
  BY ConcatProperties
<1>4. Reads(sync, start, (sent \o queue) \o ms, end)
  BY <1>3, ReadsMore
<1>5. QED
  BY <1>1, <1>2, <1>4

(* A step that puts messages in the queue. *)
LEMMA SentReads ==
  ASSUME LspTypeOK, Mirrors, main \in {"start", "up"}, NEW ms \in Seq(Message), Post(ms),
         UNCHANGED <<writer, server, to_server>>,
         Reads(server.sync, editor.told, ms, editor'.told)
  PROVE  Mirrors'
<1>1. SUFFICES ASSUME writer = "recv", server.alive
               PROVE  Reads(server.sync, server.doc, to_server \o writer_rx', editor'.told)
  BY DEF Mirrors
<1>2. Reads(server.sync, server.doc, to_server \o writer_rx, editor.told)
  BY <1>1 DEF Mirrors
<1>3. to_server \in Seq(Message) /\ writer_rx \in Seq(Message)
  BY DEF LspTypeOK
<1>4. Reads(server.sync, server.doc, to_server \o Queued(writer_rx, ms), editor'.told)
  BY <1>1, <1>2, <1>3, ReadsQueued
<1>5. QED
  BY <1>4 DEF Post

(* A pair that an edit of the server keeps. *)
Good(c) ==
  /\ Settled(c.editor)
  /\ writer = "recv" /\ server.alive =>
       Reads(server.sync, server.doc, to_server \o c.queue, c.editor.told)

LEMMA EditedGood ==
  ASSUME LspTypeOK, SyncKept, NEW c \in Pair, Good(c)
  PROVE  Good(Edited(c))
<1> DEFINE e == Changed(c.editor)
           d == Edited(c)
<1>1. c.editor \in EditorType /\ c.queue \in Seq(Message)
  BY DEF Pair
<1>2. e \in EditorType /\ e.told = c.editor.told
  BY <1>1, EditorFields
<1>3. d.editor = Told(e) /\ d.queue = Queued(c.queue, Change(e))
  BY DEF Edited
<1> HIDE DEF e, d
<1>4. d.editor.told = e.doc /\ d.editor.doc = e.doc
  BY <1>2, <1>3, EditorFields
<1>5. ASSUME writer = "recv", server.alive
      PROVE  Reads(server.sync, server.doc, to_server \o d.queue, d.editor.told)
  <2>1. Reads(server.sync, server.doc, to_server \o c.queue, e.told)
    BY <1>2, <1>5 DEF Good
  <2>2. Reads(server.sync, e.told, Change(e), e.doc)
    BY <1>5, ChangeReads DEF SyncKept
  <2>3. Change(e) \in Seq(Message) /\ to_server \in Seq(Message)
    BY <1>2, ChangeTyped DEF LspTypeOK
  <2>4. Reads(server.sync, server.doc, to_server \o Queued(c.queue, Change(e)), e.doc)
    BY <1>1, <1>5, <2>1, <2>2, <2>3, ReadsQueued
  <2>5. QED
    BY <1>3, <1>4, <2>4
<1>6. Good(d)
  BY <1>4, <1>5 DEF Good, Settled
<1>7. QED
  BY <1>6 DEF d

LEMMA PollMirrors ==
  ASSUME LspInv, Poll
  PROVE  Settled(editor)' /\ SyncKept' /\ Mirrors'
<1> DEFINE polled == IF editor.rx = "ready" THEN Edited(AfterEdits) ELSE AfterEdits
           P == {c \in Pair : Good(c)}
<1>1. /\ main = "up"
      /\ editor' = IF editor.rx = "waiting" THEN polled.editor ELSE Answered(polled.editor)
      /\ writer_rx' = polled.queue /\ MainElse
  BY DEF Poll
<1>2. PollStart \in P
  <2>1. editor \in EditorType /\ writer_rx \in Seq(Message)
    BY DEF LspInv, LspTypeOK, EditorType
  <2>2. PollStart \in Pair /\ PollStart.editor = Loading(editor) /\ PollStart.queue = writer_rx
    BY <2>1, LoadingFields DEF PollStart, Pair
  <2>3. Settled(editor) /\ (writer = "recv" /\ server.alive =>
          Reads(server.sync, server.doc, to_server \o writer_rx, editor.told))
    BY <1>1 DEF LspInv, Mirrors
  <2>4. /\ Loading(editor).told = editor.told /\ Loading(editor).doc = editor.doc
        /\ Loading(editor).pending_change = editor.pending_change
    BY <2>1, LoadingFields
  <2>5. Good(PollStart)
    BY <2>2, <2>3, <2>4 DEF Good, Settled
  <2>6. QED
    BY <2>2, <2>5
<1>3. \A c \in P : Edited(c) \in P
  BY EditedGood, EditedTyped DEF LspInv
<1>4. AfterEdits \in P
  <2>1. Len(apply_edit_rx) \in Nat
    BY LenProperties DEF LspInv, LspTypeOK
  <2> HIDE DEF P
  <2>2. QED
    BY <1>2, <1>3, <2>1, AfterEditsIn
<1>5. polled \in Pair /\ Good(polled)
  BY <1>3, <1>4
<1> HIDE DEF polled, P
<1>6. polled.editor \in EditorType
  BY <1>5 DEF Pair
<1>7. /\ editor'.told = polled.editor.told /\ editor'.doc = polled.editor.doc
      /\ editor'.pending_change = polled.editor.pending_change
  BY <1>1, <1>6, LoadingFields
<1>8. QED
  BY <1>1, <1>5, <1>7 DEF Good, Settled, Mirrors, MainElse, pipeVars, LspInv, SyncKept

LEMMA TwoMessages ==
  ASSUME NEW m \in Message, NEW n \in Message
  PROVE  <<m>> \o <<n>> = <<m, n>> /\ <<m>> \in Seq(Message) /\ <<n>> \in Seq(Message)
<1> DEFINE a == <<m>>
           b == <<n>>
           c == <<m, n>>
<1>1. /\ a \in Seq(Message) /\ b \in Seq(Message) /\ c \in Seq(Message)
      /\ Len(a) = 1 /\ Len(b) = 1 /\ Len(c) = 2 /\ a[1] = m /\ b[1] = n /\ c[1] = m /\ c[2] = n
  OBVIOUS
<1> HIDE DEF a, b, c
<1>2. a \o b \in Seq(Message) /\ Len(a \o b) = 2 /\ (a \o b)[1] = m /\ (a \o b)[2] = n
  <2>1. /\ a \o b \in Seq(Message) /\ Len(a \o b) = Len(a) + Len(b)
        /\ \A i \in 1..Len(a) + Len(b) : (a \o b)[i] = IF i <= Len(a) THEN a[i] ELSE b[i - Len(a)]
    BY <1>1, ConcatProperties
  <2>2. 1 \in 1..2 /\ 2 \in 1..2 /\ 1 <= 1 /\ ~(2 <= 1) /\ 2 - 1 = 1 /\ 1 + 1 = 2
    OBVIOUS
  <2>3. QED
    BY <1>1, <2>1, <2>2
<1>3. a \o b = c
  <2>1. \A i \in 1..2 : (a \o b)[i] = c[i]
    <3>1. \A i \in 1..2 : i = 1 \/ i = 2
      OBVIOUS
    <3>2. QED
      BY <1>1, <1>2, <3>1
  <2>2. QED
    BY <1>1, <1>2, <2>1, SeqEqual
<1>4. QED
  BY <1>1, <1>3 DEF a, b, c

LEMMA HeadTailOfConcat ==
  ASSUME NEW S, NEW s \in Seq(S), NEW t \in Seq(S), s # <<>>
  PROVE  /\ s \o t \in Seq(S) /\ s \o t # <<>>
         /\ Head(s \o t) = Head(s) /\ Tail(s \o t) = Tail(s) \o t
<1>1. Head(s) \in S /\ Tail(s) \in Seq(S) /\ s = <<Head(s)>> \o Tail(s)
  BY HeadTailProperties, ConcatSimplifications
<1>2. QED
  OBVIOUS

LEMMA MainMirrors ==
  ASSUME LspInv, MainStep
  PROVE  LspInv'
<1>0. /\ LspTypeOK /\ LspTypeOK' /\ SyncKept /\ Mirrors /\ (main = "up" => Settled(editor))
      /\ editor \in EditorType
  BY MainTyped DEF LspInv, LspTypeOK, EditorType
<1>1. CASE Initialize
  <2> DEFINE first == Request("initialize", 1)
             second == Plainly("initialized")
  <2>1. /\ main = "start" /\ Post(<<first, second>>)
        /\ UNCHANGED <<main, capabilities, writer, server, editor, to_server>>
    BY <1>1 DEF Initialize, pipeVars
  <2>2. /\ first.kind \in Plains /\ second.kind \in Plains /\ first \in Message /\ second \in Message
    BY MessageTyped DEF Plains, Request, Plainly
  <2> HIDE DEF first, second
  <2>3. <<first>> \o <<second>> = <<first, second>> /\ <<first>> \in Seq(Message) /\ <<second>> \in Seq(Message)
    BY <2>2, TwoMessages
  <2>4. Reads(server.sync, editor.told, <<first>>, editor.told)
    BY <2>2, PlainReads
  <2>5. Reads(server.sync, editor.told, <<second>>, editor.told)
    BY <2>2, PlainReads
  <2>6. Reads(server.sync, editor.told, <<first>> \o <<second>>, editor.told)
    BY <2>3, <2>4, <2>5, ReadsMore
  <2>7. <<first, second>> \in Seq(Message)
    BY <2>2
  <2>8. Reads(server.sync, editor.told, <<first, second>>, editor'.told)
    BY <2>1, <2>3, <2>6
  <2>9. Mirrors'
    BY <1>0, <2>1, <2>7, <2>8, SentReads
  <2>10. QED
    BY <1>0, <2>1, <2>9 DEF LspInv, SyncKept
<1>2. CASE Initialized
  <2>1. /\ main = "start" /\ Post(<<Full(editor.doc)>>)
        /\ editor' = [Told(editor) EXCEPT !.loading = TRUE]
        /\ UNCHANGED <<capabilities, writer, server, to_server>>
    BY <1>2 DEF Initialized, pipeVars
  <2>2. editor'.told = editor.doc /\ editor'.doc = editor.doc
    <3>1. Told(editor) \in EditorType /\ Told(editor).told = editor.doc /\ Told(editor).doc = editor.doc
      BY <1>0, EditorFields
    <3>2. QED
      BY <2>1, <3>1 DEF EditorType
  <2>3. Reads(server.sync, editor.told, <<Full(editor.doc)>>, editor'.told)
    BY <2>2, FullReads
  <2>4. <<Full(editor.doc)>> \in Seq(Message)
    BY <1>0, EditorFields, MessageTyped, OneMessage
  <2>5. Mirrors'
    BY <1>0, <2>1, <2>3, <2>4, SentReads
  <2>6. QED
    BY <1>0, <2>1, <2>2, <2>5 DEF LspInv, SyncKept, Settled
<1>3. CASE Key
  <2>1. PICK e \in {editor} \cup (IF editor.doc < MaxEdits
                                  THEN {[Changed(editor) EXCEPT !.pending_change = TRUE]} ELSE {}) :
          editor' = Flushed(e) /\ Post(Flush(e))
    BY <1>3 DEF Key
  <2>2. main = "up" /\ UNCHANGED <<main, capabilities, writer, server, to_server>>
    BY <1>3 DEF Key, MainElse, pipeVars
  <2>3. e \in EditorType /\ e.told = editor.told /\ Settled(e)
    <3> DEFINE c == Changed(editor)
    <3>1. c \in EditorType /\ c.told = editor.told
      BY <1>0, EditorFields
    <3> HIDE DEF c
    <3>2. /\ [c EXCEPT !.pending_change = TRUE] \in EditorType
          /\ [c EXCEPT !.pending_change = TRUE].told = editor.told
          /\ [c EXCEPT !.pending_change = TRUE].pending_change = TRUE
      BY <3>1 DEF EditorType
    <3>3. e = editor \/ e = [c EXCEPT !.pending_change = TRUE]
      BY <2>1 DEF c
    <3>4. QED
      BY <1>0, <2>2, <3>2, <3>3 DEF Settled
  <2>4. Settled(editor')
    BY <2>1, <2>3, FlushedFields DEF Settled
  <2>5. Flush(e) \in Seq(Message)
    BY <2>3, ChangeTyped
  <2>6. server.alive => Reads(server.sync, editor.told, Flush(e), editor'.told)
    BY <1>0, <2>1, <2>3, FlushReads DEF SyncKept
  <2>7. Mirrors'
    <3>1. CASE server.alive
      BY <1>0, <2>1, <2>2, <2>5, <2>6, <3>1, SentReads
    <3>2. CASE ~server.alive
      BY <2>2, <3>2 DEF Mirrors
    <3>3. QED
      BY <3>1, <3>2
  <2>8. QED
    BY <1>0, <2>2, <2>4, <2>7 DEF LspInv, SyncKept, Settled
<1>4. CASE EditElsewhere
  <2>1. PICK broken \in BOOLEAN :
          editor' = [Changed(editor) EXCEPT !.pending_change = TRUE, !.broken = @ \/ broken]
    BY <1>4 DEF EditElsewhere
  <2>2. UNCHANGED <<main, capabilities, writer, server, to_server, writer_rx>>
    BY <1>4 DEF EditElsewhere, MainElse, pipeVars
  <2>3. editor'.told = editor.told /\ editor'.pending_change = TRUE
    <3>1. Changed(editor) \in EditorType /\ Changed(editor).told = editor.told
      BY <1>0, EditorFields
    <3>2. QED
      BY <2>1, <3>1 DEF EditorType
  <2>4. QED
    BY <1>0, <2>2, <2>3 DEF LspInv, SyncKept, Settled, Mirrors
<1>5. CASE Ask
  <2> DEFINE m == Request("ask", next_id)
  <2>1. /\ main = "up" /\ Post(<<m>>)
        /\ editor' = [editor EXCEPT !.rx_id = next_id, !.rx = IF writer = "over" THEN "gone" ELSE "waiting"]
        /\ UNCHANGED <<main, capabilities, writer, server, to_server>>
    BY <1>5 DEF Ask, MainElse, pipeVars
  <2>2. m.kind \in Plains /\ m \in Message
    BY <1>0, MessageTyped DEF Plains, Request, LspTypeOK
  <2> HIDE DEF m
  <2>3. editor'.told = editor.told /\ editor'.doc = editor.doc /\ editor'.pending_change = editor.pending_change
    BY <1>0, <2>1 DEF EditorType
  <2>4. <<m>> \in Seq(Message)
    BY <2>2
  <2>5. Reads(server.sync, editor.told, <<m>>, editor'.told)
    BY <2>2, <2>3, PlainReads
  <2>6. Mirrors'
    BY <1>0, <2>1, <2>4, <2>5, SentReads
  <2>7. QED
    BY <1>0, <2>1, <2>3, <2>6 DEF LspInv, SyncKept, Settled
<1>6. CASE Shutdown \/ JoinWriter
  <2>1. main' \in {"writer", "reader"} /\ UNCHANGED <<capabilities, server>>
    BY <1>6 DEF Shutdown, JoinWriter, JoinElse
  <2>2. QED
    BY <1>0, <2>1 DEF LspInv, SyncKept, Mirrors
<1>7. CASE JoinReader
  <2>1. main' = "stopped" /\ server' = Dead
    BY <1>7 DEF JoinReader, Dies
  <2>2. QED
    BY <1>0, <2>1, DeadTyped DEF LspInv, SyncKept, Mirrors
<1>8. QED
  BY <1>1, <1>2, <1>3, <1>4, <1>5, <1>6, <1>7 DEF MainStep

LEMMA WriteMirrors ==
  ASSUME LspInv, Write
  PROVE  LspInv'
<1>1. /\ LspTypeOK /\ LspTypeOK' /\ SyncKept /\ Mirrors /\ (main = "up" => Settled(editor))
  BY WriteTyped DEF LspInv
<1>2. /\ writer = "recv" /\ writer_rx # <<>>
      /\ \/ to_server' = Append(to_server, Head(writer_rx)) /\ writer_rx' = Tail(writer_rx)
         \/ writer' = "over"
      /\ UNCHANGED <<main, capabilities, server, editor>>
  BY DEF Write, clientVars
<1>3. ASSUME to_server' = Append(to_server, Head(writer_rx)), writer_rx' = Tail(writer_rx)
      PROVE  to_server' \o writer_rx' = to_server \o writer_rx
  <2>1. to_server \in Seq(Message) /\ writer_rx \in Seq(Message)
    BY <1>1 DEF LspTypeOK
  <2> DEFINE h == Head(writer_rx)
             t == Tail(writer_rx)
  <2>2. h \in Message /\ t \in Seq(Message)
    BY <1>2, <2>1, HeadTyped
  <2>3. writer_rx = <<h>> \o t
    BY <1>2, <2>1, HeadTailProperties, ConcatSimplifications
  <2> HIDE DEF h, t
  <2>4. Append(to_server, h) = to_server \o <<h>> /\ <<h>> \in Seq(Message)
    BY <2>1, <2>2, AppendIsConcat
  <2>5. (to_server \o <<h>>) \o t = to_server \o (<<h>> \o t)
    BY <2>1, <2>2, <2>4, ConcatAssociative
  <2>6. QED
    BY <1>3, <2>3, <2>4, <2>5 DEF h, t
<1>4. Mirrors'
  BY <1>1, <1>2, <1>3 DEF Mirrors
<1>5. QED
  BY <1>1, <1>2, <1>4 DEF LspInv, SyncKept

LEMMA ReaderMirrors ==
  ASSUME LspInv, ReaderLoop
  PROVE  LspInv'
<1>1. /\ LspTypeOK /\ LspTypeOK' /\ SyncKept /\ Mirrors /\ (main = "up" => Settled(editor))
      /\ editor \in EditorType
  BY ReaderTyped DEF LspInv, LspTypeOK, EditorType
<1>2. CASE LoopHead \/ EndOfFile \/ Begin \/ End
  <2>1. UNCHANGED <<main, capabilities, writer, server, editor, to_server, writer_rx>>
    BY <1>2 DEF LoopHead, EndOfFile, Begin, End, Dispatch, Report, ReaderElse
  <2>2. QED
    BY <1>1, <2>1 DEF LspInv, SyncKept, Settled, Mirrors
<1>3. CASE HandleResponse
  <2>1. /\ UNCHANGED <<main, writer, server, to_server, writer_rx>>
        /\ capabilities' \in {capabilities, server.sync}
        /\ \/ editor' = editor
           \/ \E rx : editor' = [editor EXCEPT !.rx = rx]
    BY <1>3 DEF HandleResponse, Dispatch, ReaderElse
  <2>2. editor'.told = editor.told /\ editor'.doc = editor.doc /\ editor'.pending_change = editor.pending_change
    BY <1>1, <2>1 DEF EditorType
  <2>3. QED
    BY <1>1, <2>1, <2>2 DEF LspInv, SyncKept, Settled, Mirrors
<1>4. CASE HandleServerRequest
  <2> DEFINE m == Plainly("applied")
  <2>1. Post(<<m>>) /\ UNCHANGED <<main, capabilities, writer, server, editor, to_server>>
    BY <1>4 DEF HandleServerRequest, Dispatch, ReaderElse
  <2>2. m.kind \in Plains /\ m \in Message
    BY MessageTyped DEF Plains, Plainly
  <2> HIDE DEF m
  <2>3. <<m>> \in Seq(Message)
    BY <2>2
  <2>4. Reads(server.sync, editor.told, <<m>>, editor'.told)
    BY <2>1, <2>2, PlainReads
  <2>5. Mirrors'
    <3>1. CASE main \in {"start", "up"}
      BY <1>1, <2>1, <2>3, <2>4, <3>1, SentReads
    <3>2. CASE main \notin {"start", "up"}
      BY <2>1, <3>2 DEF Mirrors
    <3>3. QED
      BY <3>1, <3>2
  <2>6. QED
    BY <1>1, <2>1, <2>5 DEF LspInv, SyncKept, Settled
<1>5. QED
  BY <1>2, <1>3, <1>4 DEF ReaderLoop

LEMMA ServerMirrors ==
  ASSUME LspInv, ProcessStep
  PROVE  LspInv'
<1>1. /\ LspTypeOK /\ LspTypeOK' /\ SyncKept /\ Mirrors /\ (main = "up" => Settled(editor))
      /\ server \in ServerType
  BY ServerTyped DEF LspInv, LspTypeOK, ServerType
<1>2. UNCHANGED <<main, capabilities, writer_rx, writer, editor>>
  BY DEF ProcessStep, ServerReads, ServerAnswers, ServerEdits, ServerExits, ServerDies,
         ServerBegins, ServerEnds, ServerElse, clientVars
<1>3. CASE Dies
  BY <1>1, <1>2, <1>3, DeadTyped DEF Dies, LspInv, SyncKept, Mirrors
<1>4. CASE ServerReads /\ ~Dies
  <2>1. /\ to_server # <<>> /\ to_server \in Seq(Message) /\ writer_rx \in Seq(Message)
        /\ server'.alive = server.alive /\ server'.sync = server.sync
        /\ server'.doc = DocAfter(server.sync, server.doc, Head(to_server))
        /\ to_server' = Tail(to_server)
    BY <1>1, <1>4, ServerReadsProperty DEF LspTypeOK
  <2> DEFINE all == to_server \o writer_rx
  <2>2. /\ all \in Seq(Message) /\ all # <<>> /\ Head(all) = Head(to_server)
        /\ Tail(all) = Tail(to_server) \o writer_rx
    BY <2>1, HeadTailOfConcat
  <2> HIDE DEF all
  <2>3. ASSUME Reads(server.sync, server.doc, all, editor.told)
        PROVE  Reads(server.sync, DocAfter(server.sync, server.doc, Head(all)), Tail(all), editor.told)
    BY <2>2, <2>3, ReadsRest
  <2>4. Mirrors'
    BY <1>1, <1>2, <2>1, <2>2, <2>3 DEF Mirrors, all
  <2>5. QED
    BY <1>1, <1>2, <2>1, <2>4 DEF LspInv, SyncKept
<1>5. CASE ServerAnswers \/ ServerEdits \/ \E t \in Tokens : ServerBegins(t) \/ ServerEnds(t)
  <2>1. /\ to_server' = to_server
        /\ \/ server' = server
           \/ \E asked : server' = [server EXCEPT !.asked = asked]
           \/ \E tokens : server' = [server EXCEPT !.tokens = tokens]
    BY <1>5 DEF ServerAnswers, ServerEdits, ServerBegins, ServerEnds
  <2>2. server'.alive = server.alive /\ server'.sync = server.sync /\ server'.doc = server.doc
    BY <1>1, <2>1 DEF ServerType
  <2>3. QED
    BY <1>1, <1>2, <2>1, <2>2 DEF LspInv, SyncKept, Mirrors
<1>6. QED
  BY <1>3, <1>4, <1>5 DEF ProcessStep, ServerExits, ServerDies

LEMMA LspInvHolds == LspSpec => []LspInv
<1>1. LspInit => LspInv
  <2> SUFFICES ASSUME LspInit PROVE LspInv
    OBVIOUS
  <2>1. LspTypeOK
    BY InitTyped
  <2>2. /\ main = "start" /\ capabilities = "unreported" /\ to_server \o writer_rx = <<>>
        /\ server.doc = Lost /\ editor.told = Lost
    <3>1. <<>> \o <<>> = <<>>
      OBVIOUS
    <3>2. QED
      BY <3>1 DEF LspInit, Process, NoEditor, Unreported
  <2>3. Mirrors
    BY <2>2, ReadsFew DEF Mirrors
  <2>4. QED
    BY <2>1, <2>2, <2>3 DEF LspInv, SyncKept
<1>2. LspInv /\ [LspNext]_lspVars => LspInv'
  <2> SUFFICES ASSUME LspInv, [LspNext]_lspVars PROVE LspInv'
    OBVIOUS
  <2>1. CASE UNCHANGED lspVars
    <3>1. LspTypeOK'
      BY NextTyped DEF LspInv
    <3>2. UNCHANGED <<main, capabilities, writer_rx, writer, to_server, server, editor>>
      BY <2>1 DEF lspVars, clientVars, pipeVars
    <3>3. QED
      BY <3>1, <3>2 DEF LspInv, SyncKept, Mirrors, Settled
  <2>2. CASE Poll
    BY <2>2, PollTyped, PollMirrors DEF LspInv, Settled
  <2>3. QED
    BY <2>1, <2>2, MainMirrors, WriteMirrors, ReaderMirrors, ServerMirrors DEF LspNext, MainStep, ProcessStep
<1>3. QED
  BY <1>1, <1>2, PTL DEF LspSpec

(* What the threads of the client and the server hold and say to each other *)
(* has its type, for any number of edits, requests and reports.             *)
THEOREM LspTypeOKHolds == LspSpec => []LspTypeOK
<1>1. LspInv => LspTypeOK
  BY DEF LspInv
<1>2. QED
  BY <1>1, LspInvHolds, PTL

(* When everything that was sent has arrived, a language server that lives  *)
(* has the document of the editor, but for changes that wait for the next   *)
(* key, whether it takes ranges or whole documents and whatever it edits    *)
(* itself: the changes sent after each other lead from what it was told     *)
(* first to what it was told last.                                          *)
THEOREM MirrorKeptHolds == LspSpec => []MirrorKept
<1>1. LspInv => MirrorKept
  <2> SUFFICES ASSUME LspInv, main = "up", writer = "recv", server.alive
               PROVE  /\ editor.pending_change \/ editor.told = editor.doc
                      /\ Heard(to_server \o writer_rx) = editor.told
    BY DEF MirrorKept
  <2>1. to_server \o writer_rx \in Seq(Message)
    BY ConcatProperties DEF LspInv, LspTypeOK
  <2>2. Len(to_server \o writer_rx) \in Nat
    BY <2>1, LenProperties
  <2>3. Reads(server.sync, server.doc, to_server \o writer_rx, editor.told)
    BY DEF LspInv, Mirrors
  <2>4. QED
    BY <2>2, <2>3, HeardIs DEF LspInv, Settled
<1>2. QED
  BY <1>1, LspInvHolds, PTL
=============================================================================
