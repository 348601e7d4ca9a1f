----------------------------- MODULE SshSession -----------------------------
(***************************************************************************)
(* assetSSHWebsocket (ssh_terminal.go): one terminal in a browser, bridged *)
(* to a shell on an asset.                                                 *)
(*                                                                         *)
(* Five goroutines share the websocket and the SSH client: the handler     *)
(* itself ("main"), one forwarder for each output stream, a waiter for the *)
(* end of the shell, and a reader of the browser's messages.  writeMu      *)
(* serialises what the first three write; waitDone and readErrCh have room *)
(* for one value, messageCh for none.  When the handler returns it leaves  *)
(* the others to find out by themselves.                                   *)
(*                                                                         *)
(* gorilla/websocket: the first failed write and the first close frame     *)
(* make every later write fail.  x/crypto/ssh: a closed client ends every  *)
(* call on it, after what was buffered has been read.                      *)
(***************************************************************************)
EXTENDS Naturals

CONSTANTS Forwarder,    \* one for each output stream: stdout and stderr
          MaxPending,   \* chunks of output a stream buffers, at most
          NoOne

Writer    == Forwarder \cup {"main"}
Goroutine == Writer \cup {"waiter", "reader"}

ASSUME ForwarderAssumption == Forwarder \cap {"main", "waiter", "reader"} = {}
ASSUME PendingAssumption == MaxPending \in Nat \ {0}
ASSUME NoOneAssumption == NoOne \notin Goroutine

VARIABLES pc,        \* where each goroutine is
          frame,     \* the frame a writer passed to send or sendControl last
          holder,    \* who holds writeMu
          wire,      \* the writing side of the websocket
          browser,   \* whether there is a browser at the other end
          ssh,       \* the client: "none", "open", "exited" (remotely) or "closed"
          pending,   \* chunks of each stream that no forwarder has read
          message,   \* what the reader offers on messageCh
          waitDone,  \* whether there is a value in each buffered channel
          readErr,
          row        \* the session's row in remote_sessions

socket   == <<wire, browser>>
channels == <<message, waitDone, readErr>>
vars     == <<pc, frame, holder, socket, ssh, pending, channels, row>>

Sending      == {"lock", "write", "sent", "unsent"}
MainFrame    == {"ready", "ping", "waitError", "bye", "exit", "left", "inputError", "resizeError"}
ForwardFrame == {"output", "readError"}
Closing      == {"bye", "left"}   \* the two close frames

MainPlace    == Sending \cup {"opening", "select", "typing", "resizing", "returning", "row", "conn", "done"}
ForwardPlace == Sending \cup {"idle", "reading", "done"}
WaiterPlace  == {"idle", "waiting", "done"}
ReaderPlace  == {"idle", "reading", "offering", "done"}

TypeOK ==
  /\ pc \in [Goroutine -> MainPlace \cup ForwardPlace \cup WaiterPlace \cup ReaderPlace]
  /\ pc["main"] \in MainPlace /\ pc["waiter"] \in WaiterPlace /\ pc["reader"] \in ReaderPlace
  /\ \A f \in Forwarder : pc[f] \in ForwardPlace
  /\ frame \in [Writer -> MainFrame \cup ForwardFrame]
  /\ frame["main"] \in MainFrame
  /\ \A f \in Forwarder : frame[f] \in ForwardFrame
  /\ holder \in Writer \cup {NoOne}
  /\ wire \in {"open", "closed", "broken"}
  /\ browser \in {"here", "gone"}
  /\ ssh \in {"none", "open", "exited", "closed"}
  /\ pending \in [Forwarder -> 0 .. MaxPending]
  /\ message \in {"input", "resize", "other"}
  /\ waitDone \in BOOLEAN /\ readErr \in BOOLEAN
  /\ row \in {"none", "active", "ended"}

\* The websocket is upgraded.  A browser that gives no sessionId has no row.
Init == /\ pc = [g \in Goroutine |-> IF g = "main" THEN "opening" ELSE "idle"]
        /\ frame = [w \in Writer |-> IF w = "main" THEN "ready" ELSE "output"]
        /\ holder = NoOne
        /\ wire = "open" /\ browser = "here"
        /\ ssh = "none"
        /\ pending = [f \in Forwarder |-> 0]
        /\ message = "other" /\ waitDone = FALSE /\ readErr = FALSE
        /\ row \in {"none", "active"}

Goto(g, place) == pc' = [pc EXCEPT ![g] = place]
Send(w, f)     == Goto(w, "lock") /\ frame' = [frame EXCEPT ![w] = f]
closeAll       == ssh' = "closed"

Acquire_NoLock(w) == /\ pc[w] = "lock"
                     /\ holder' = w
                     /\ Goto(w, "write")
                     /\ UNCHANGED <<frame, socket, ssh, pending, channels, row>>

\* send and sendControl: take writeMu, write before the deadline, release it.
Acquire(w) == /\ pc[w] = "lock" /\ holder = NoOne
              /\ holder' = w
              /\ Goto(w, "write")
              /\ UNCHANGED <<frame, socket, ssh, pending, channels, row>>

Write(w) == /\ pc[w] = "write"
            /\ \/ /\ wire = "open"
                  /\ wire' = IF frame[w] \in Closing THEN "closed" ELSE "open"
                  /\ Goto(w, "sent")
               \/ /\ wire' = IF wire = "open" THEN "broken" ELSE wire
                  /\ Goto(w, "unsent")
            /\ holder' = NoOne
            /\ UNCHANGED <<frame, browser, ssh, pending, channels, row>>

Written(w, f) == pc[w] \in {"sent", "unsent"} /\ frame[w] = f

-----------------------------------------------------------------------------
(* The handler. *)

\* openSSHSession, and the ready frame after it; a failure is written to the
\* websocket directly, nobody else has it yet.
Opened == /\ pc["main"] = "opening"
          /\ ssh' = "open"
          /\ Send("main", "ready")
          /\ UNCHANGED <<holder, socket, pending, channels, row>>

OpenFails == /\ pc["main"] = "opening"
             /\ Goto("main", "row")
             /\ UNCHANGED <<frame, holder, socket, ssh, pending, channels, row>>

Start == /\ Written("main", "ready")
         /\ IF pc["main"] = "sent"
            THEN pc' = [g \in Goroutine |-> CASE g = "main" -> "select"
                                              [] g = "waiter" -> "waiting"
                                              [] OTHER -> "reading"]
            ELSE Goto("main", "returning")
         /\ UNCHANGED <<frame, holder, socket, ssh, pending, channels, row>>

\* The branches of the select.
Ping == /\ pc["main"] = "select"
        /\ Send("main", "ping")
        /\ UNCHANGED <<holder, socket, ssh, pending, channels, row>>

TakeWait == /\ pc["main"] = "select" /\ waitDone
            /\ waitDone' = FALSE
            /\ \E f \in {"waitError", "bye"} : Send("main", f)
            /\ UNCHANGED <<holder, socket, ssh, pending, message, readErr, row>>

TakeReadErr_Ignored == /\ pc["main"] = "select" /\ readErr
                       /\ readErr' = FALSE
                       /\ UNCHANGED <<pc, frame, holder, socket, ssh, pending, message, waitDone, row>>
TakeReadErr == /\ pc["main"] = "select" /\ readErr
               /\ readErr' = FALSE
               /\ Send("main", "left")
               /\ UNCHANGED <<holder, socket, ssh, pending, message, waitDone, row>>

\* messageCh: the reader hands over and reads on.
TakeMessage == /\ pc["main"] = "select" /\ pc["reader"] = "offering"
               /\ pc' = [pc EXCEPT !["reader"] = "reading",
                                   !["main"] = CASE message = "input" -> "typing"
                                                 [] message = "resize" -> "resizing"
                                                 [] OTHER -> "select"]
               /\ UNCHANGED <<frame, holder, socket, ssh, pending, channels, row>>

\* WriteString blocks while the shell does not read, and so may WindowChange.
RemoteTakes == /\ pc["main"] \in {"typing", "resizing"} /\ ssh = "open"
               /\ Goto("main", "select")
               /\ UNCHANGED <<frame, holder, socket, ssh, pending, channels, row>>

RemoteRefuses == /\ pc["main"] \in {"typing", "resizing"} /\ ssh # "open"
                 /\ Send("main", IF pc["main"] = "typing" THEN "inputError" ELSE "resizeError")
                 /\ UNCHANGED <<holder, socket, ssh, pending, channels, row>>

\* What the handler does after a frame, written or not.
GoesOn == /\ \/ Written("main", "ping") /\ pc["main"] = "sent"
             \/ Written("main", "resizeError")
          /\ Goto("main", "select")
          /\ UNCHANGED <<frame, holder, socket, ssh, pending, channels, row>>

SaysMore == /\ \/ Written("main", "waitError") /\ Send("main", "bye")
               \/ Written("main", "bye") /\ Send("main", "exit")
            /\ UNCHANGED <<holder, socket, ssh, pending, channels, row>>

GivesUp == /\ \/ Written("main", "ping") /\ pc["main"] = "unsent"
              \/ \E f \in {"exit", "left", "inputError"} : Written("main", f)
           /\ closeAll
           /\ Goto("main", "returning")
           /\ UNCHANGED <<frame, holder, socket, pending, channels, row>>

\* The deferred calls, the last one first: session and client, row, websocket.
CloseClient == /\ pc["main"] = "returning"
               /\ closeAll
               /\ Goto("main", "row")
               /\ UNCHANGED <<frame, holder, socket, pending, channels, row>>

\* The row's defer registered after those of the client.
EndRow_First == /\ pc["main"] \in {"returning", "row"}
                /\ \/ row = "active" /\ row' = "ended" /\ Goto("main", pc["main"])
                   \/ pc["main"] = "row" /\ row # "active" /\ UNCHANGED row /\ Goto("main", "conn")
                /\ UNCHANGED <<frame, holder, socket, ssh, pending, channels>>
EndRow == /\ pc["main"] = "row"
          /\ \/ row = "active" /\ row' = "ended"
             \/ UNCHANGED row      \* no row, or the UPDATE failed
          /\ Goto("main", "conn")
          /\ UNCHANGED <<frame, holder, socket, ssh, pending, channels>>

CloseConn == /\ pc["main"] = "conn"
             /\ wire' = IF wire = "open" THEN "broken" ELSE wire
             /\ Goto("main", "done")
             /\ UNCHANGED <<frame, holder, browser, ssh, pending, channels, row>>

-----------------------------------------------------------------------------
(* The other goroutines. *)

\* forward: read a chunk and send it.
ForwardRead(f) == /\ pc[f] = "reading" /\ pending[f] > 0
                  /\ pending' = [pending EXCEPT ![f] = @ - 1]
                  /\ Send(f, "output")
                  /\ UNCHANGED <<holder, socket, ssh, channels, row>>

\* Every forwarder announces the exit by itself.
ForwardEnd_Exit(f) == /\ pc[f] = "reading" /\ pending[f] = 0 /\ ssh \in {"exited", "closed"}
                      /\ Send(f, "exit")
                      /\ UNCHANGED <<holder, socket, ssh, pending, channels, row>>
ForwardEnd(f) == /\ pc[f] = "reading" /\ pending[f] = 0 /\ ssh \in {"exited", "closed"}
                 /\ \/ Goto(f, "done") /\ UNCHANGED frame   \* io.EOF
                    \/ Send(f, "readError")
                 /\ UNCHANGED <<holder, socket, ssh, pending, channels, row>>

ForwardOn(f) == /\ pc[f] \in {"sent", "unsent"}
                /\ IF frame[f] = "output" /\ pc[f] = "sent"
                   THEN Goto(f, "reading") ELSE Goto(f, "done")
                /\ IF frame[f] = "output" /\ pc[f] = "unsent"
                   THEN closeAll ELSE UNCHANGED ssh
                /\ UNCHANGED <<frame, holder, socket, pending, channels, row>>

\* waitDone without room for a value: somebody has to be there to take it.
WaitReturns_NoRoom == /\ pc["main"] = "select"
                      /\ pc["waiter"] = "waiting" /\ ssh \in {"exited", "closed"}
                      /\ waitDone' = TRUE
                      /\ Goto("waiter", "done")
                      /\ UNCHANGED <<frame, holder, socket, ssh, pending, message, readErr, row>>
WaitReturns == /\ pc["waiter"] = "waiting" /\ ssh \in {"exited", "closed"}
               /\ waitDone' = TRUE
               /\ Goto("waiter", "done")
               /\ UNCHANGED <<frame, holder, socket, ssh, pending, message, readErr, row>>

Receive == /\ pc["reader"] = "reading" /\ browser = "here" /\ pc["main"] # "done"
           /\ message' \in {"input", "resize", "other"}
           /\ Goto("reader", "offering")
           /\ UNCHANGED <<frame, holder, socket, ssh, pending, waitDone, readErr, row>>

\* ReadJSON fails: the connection, the deadline, the size limit, the JSON, or a
\* close frame, which the library answers with another.
ReadFails == /\ pc["reader"] = "reading"
             /\ wire' \in {wire, IF wire = "open" THEN "closed" ELSE wire}
             /\ readErr' = TRUE
             /\ Goto("reader", "done")
             /\ UNCHANGED <<frame, holder, browser, ssh, pending, message, waitDone, row>>

-----------------------------------------------------------------------------
(* The shell and the browser. *)

ShellWrites(f) == /\ ssh = "open" /\ pending[f] < MaxPending
                  /\ pending' = [pending EXCEPT ![f] = @ + 1]
                  /\ UNCHANGED <<pc, frame, holder, socket, ssh, channels, row>>

ShellExits == /\ ssh = "open"
              /\ ssh' = "exited"
              /\ UNCHANGED <<pc, frame, holder, socket, pending, channels, row>>

BrowserLeaves == /\ browser = "here"
                 /\ browser' = "gone"
                 /\ UNCHANGED <<pc, frame, holder, wire, ssh, pending, channels, row>>

SendStep    == \E w \in Writer : Acquire(w) \/ Write(w)
MainStep    == \/ Opened \/ OpenFails \/ Start
               \/ Ping \/ TakeWait \/ TakeReadErr \/ TakeMessage \/ RemoteTakes \/ RemoteRefuses
               \/ GoesOn \/ SaysMore \/ GivesUp \/ CloseClient \/ EndRow \/ CloseConn
ForwardStep == \E f \in Forwarder : ForwardRead(f) \/ ForwardEnd(f) \/ ForwardOn(f)
OtherStep   == WaitReturns \/ Receive \/ ReadFails
Environment == (\E f \in Forwarder : ShellWrites(f)) \/ ShellExits \/ BrowserLeaves

Next == SendStep \/ MainStep \/ ForwardStep \/ OtherStep \/ Environment

Spec == Init /\ [][Next]_vars

\* A goroutine that can go on does.  A waiter for writeMu gets it in the end
\* (sync.Mutex hands over to a starving one), and select chooses at random among
\* the ready branches, so neither passes one over for ever.  A read fails in the
\* end when the browser is gone (read deadline) or the websocket is closed.
\* Nothing makes the asset answer: opening and RemoteTakes have no fairness.
Fairness ==
  /\ \A w \in Writer : SF_vars(Acquire(w)) /\ WF_vars(Write(w))
  /\ SF_vars(TakeWait) /\ SF_vars(TakeReadErr) /\ SF_vars(TakeMessage)
  /\ WF_vars(Start \/ RemoteRefuses \/ GoesOn \/ SaysMore \/ GivesUp \/ CloseClient \/ EndRow \/ CloseConn)
  /\ WF_vars(WaitReturns)
  /\ WF_vars(ReadFails /\ (browser = "gone" \/ pc["main"] = "done"))
  /\ \A f \in Forwarder : WF_vars(ForwardRead(f) \/ ForwardEnd(f) \/ ForwardOn(f))

FairSpec == Spec /\ Fairness

-----------------------------------------------------------------------------
\* The websocket library allows one writer at a time: no two goroutines are
\* inside WriteJSON or WriteControl together, whatever they write.
OneWriter == \A v, w \in Writer : pc[v] = "write" /\ pc[w] = "write" => v = w

\* The audit row says the session has ended only when its client is closed, so
\* that no shell runs on behind an ended row.
RowEndsLast == row = "ended" => ssh \in {"none", "closed"}

\* Whatever ends first, browser, websocket or shell, the handler returns; unless
\* the asset never answers a call that has no timeout: the SSH handshake and
\* setup, or a write to a shell that does not read.
AtRemote        == pc["main"] \in {"opening", "typing", "resizing"}
Over            == browser = "gone" \/ ssh \in {"exited", "closed"}
SessionEnds     == []<>(~AtRemote) => (Over ~> pc["main"] = "done")

\* A returned handler leaves no goroutine behind, but a reader that holds a
\* message nobody will take from messageCh.
GoroutinesEnd == pc["main"] = "done"
                   ~> /\ \A g \in Goroutine \ {"main", "reader"} : pc[g] \in {"idle", "done"}
                      /\ pc["reader"] \in {"idle", "offering", "done"}
=============================================================================
