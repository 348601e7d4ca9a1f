-------------------------- MODULE SshSessionProofs --------------------------
(***************************************************************************)
(* Theorems about SshSession, for any set of output streams and any buffer.*)
(***************************************************************************)
EXTENDS SshSession, TLAPS

\* Who is inside a write holds writeMu.
LockHeld == \A w \in Writer : pc[w] = "write" => holder = w

\* Where the handler is tells what has been closed and recorded so far.
ClosedBehind ==
  /\ pc["main"] = "opening" => ssh = "none" /\ \A f \in Forwarder : pc[f] = "idle"
  /\ pc["main"] \in {"row", "conn", "done"} => ssh \in {"none", "closed"}
  /\ row = "ended" => pc["main"] \in {"conn", "done"}

IInv == TypeOK /\ LockHeld /\ ClosedBehind

USE ForwarderAssumption, NoOneAssumption, PendingAssumption
    DEF IInv, TypeOK, LockHeld, ClosedBehind, Goroutine, Writer, Sending, MainPlace,
        ForwardPlace, WaiterPlace, ReaderPlace, MainFrame, ForwardFrame,
        socket, channels, Goto, Send, closeAll, Written

LEMMA InitHolds == Init => IInv
<1> SUFFICES ASSUME Init PROVE IInv
  OBVIOUS
<1>1. /\ pc["main"] = "opening" /\ pc["waiter"] = "idle" /\ pc["reader"] = "idle"
      /\ \A f \in Forwarder : pc[f] = "idle" /\ frame[f] = "output"
      /\ frame["main"] = "ready"
  BY DEF Init
<1>2. pc \in [Goroutine -> MainPlace \cup ForwardPlace \cup WaiterPlace \cup ReaderPlace]
  BY DEF Init
<1>3. frame \in [Writer -> MainFrame \cup ForwardFrame]
  BY DEF Init
<1>4. /\ holder = NoOne /\ wire = "open" /\ browser = "here" /\ ssh = "none" /\ message = "other"
      /\ pending \in [Forwarder -> 0 .. MaxPending]
      /\ row \in {"none", "active"}
  BY DEF Init
<1>5. waitDone \in BOOLEAN /\ readErr \in BOOLEAN
  BY DEF Init
<1>6. TypeOK
  BY <1>1, <1>2, <1>3, <1>4, <1>5
<1>7. LockHeld
  BY <1>1
<1>8. ClosedBehind
  BY <1>1, <1>4
<1> QED BY <1>6, <1>7, <1>8

LEMMA SendKeeps == ASSUME IInv, SendStep PROVE IInv'
<1>1. ASSUME NEW w \in Writer, Acquire(w) PROVE IInv'
  BY <1>1 DEF Acquire
<1>2. ASSUME NEW w \in Writer, Write(w) PROVE IInv'
  BY <1>2 DEF Write
<1> QED BY <1>1, <1>2 DEF SendStep

LEMMA MainKeeps == ASSUME IInv, MainStep PROVE IInv'
<1>1. CASE Opened        BY <1>1 DEF Opened
<1>2. CASE OpenFails     BY <1>2 DEF OpenFails
<1>3. CASE Start
  <2>1. CASE pc["main"] = "sent"
    <3>1. /\ pc' \in [Goroutine -> {"select", "waiting", "reading"}]
          /\ pc'["main"] = "select" /\ pc'["waiter"] = "waiting" /\ pc'["reader"] = "reading"
          /\ \A f \in Forwarder : pc'[f] = "reading"
      BY <1>3, <2>1 DEF Start
    <3>2. UNCHANGED <<frame, holder, socket, ssh, pending, channels, row>>
      BY <1>3 DEF Start
    <3> QED BY <2>1, <3>1, <3>2
  <2>2. CASE pc["main"] # "sent"
    BY <1>3, <2>2 DEF Start
  <2> QED BY <2>1, <2>2
<1>4. CASE Ping          BY <1>4 DEF Ping
<1>5. CASE TakeWait
  <2>1. PICK f \in {"waitError", "bye"} : Send("main", f)
    BY <1>5 DEF TakeWait
  <2>2. /\ pc["main"] = "select" /\ waitDone' = FALSE
        /\ UNCHANGED <<holder, socket, ssh, pending, message, readErr, row>>
    BY <1>5 DEF TakeWait
  <2>3. waitDone' \in BOOLEAN /\ readErr' \in BOOLEAN
    BY <2>2
  <2>4. TypeOK'
    BY <2>1, <2>2, <2>3
  <2>5. LockHeld'
    BY <2>1, <2>2
  <2>6. ClosedBehind'
    BY <2>1, <2>2
  <2> QED BY <2>4, <2>5, <2>6
<1>6. CASE TakeReadErr
  <2>1. /\ pc["main"] = "select" /\ readErr' = FALSE /\ Send("main", "left")
        /\ UNCHANGED <<holder, socket, ssh, pending, message, waitDone, row>>
    BY <1>6 DEF TakeReadErr
  <2>2. waitDone' \in BOOLEAN /\ readErr' \in BOOLEAN
    BY <2>1
  <2>3. TypeOK'
    BY <2>1, <2>2
  <2>4. LockHeld'
    BY <2>1
  <2>5. ClosedBehind'
    BY <2>1
  <2> QED BY <2>3, <2>4, <2>5
<1>7. CASE TakeMessage   BY <1>7 DEF TakeMessage
<1>8. CASE RemoteTakes   BY <1>8 DEF RemoteTakes
<1>9. CASE RemoteRefuses BY <1>9 DEF RemoteRefuses
<1>10. CASE GoesOn       BY <1>10 DEF GoesOn
<1>11. CASE SaysMore     BY <1>11 DEF SaysMore
<1>12. CASE GivesUp      BY <1>12 DEF GivesUp
<1>13. CASE CloseClient  BY <1>13 DEF CloseClient
<1>14. CASE EndRow       BY <1>14 DEF EndRow
<1>15. CASE CloseConn    BY <1>15 DEF CloseConn
<1> QED BY <1>1, <1>2, <1>3, <1>4, <1>5, <1>6, <1>7, <1>8, <1>9, <1>10,
           <1>11, <1>12, <1>13, <1>14, <1>15 DEF MainStep

LEMMA ForwardKeeps == ASSUME IInv, ForwardStep PROVE IInv'
<1>1. ASSUME NEW f \in Forwarder, ForwardRead(f) PROVE IInv'
  BY <1>1 DEF ForwardRead
<1>2. ASSUME NEW f \in Forwarder, ForwardEnd(f) PROVE IInv'
  BY <1>2 DEF ForwardEnd
<1>3. ASSUME NEW f \in Forwarder, ForwardOn(f) PROVE IInv'
  BY <1>3 DEF ForwardOn
<1> QED BY <1>1, <1>2, <1>3 DEF ForwardStep

LEMMA OtherKeeps == ASSUME IInv, OtherStep PROVE IInv'
<1>1. CASE WaitReturns BY <1>1 DEF WaitReturns
<1>2. CASE Receive     BY <1>2 DEF Receive
<1>3. CASE ReadFails   BY <1>3 DEF ReadFails
<1> QED BY <1>1, <1>2, <1>3 DEF OtherStep

LEMMA EnvironmentKeeps == ASSUME IInv, Environment PROVE IInv'
<1>1. ASSUME NEW f \in Forwarder, ShellWrites(f) PROVE IInv'
  BY <1>1 DEF ShellWrites
<1>2. CASE ShellExits    BY <1>2 DEF ShellExits
<1>3. CASE BrowserLeaves BY <1>3 DEF BrowserLeaves
<1> QED BY <1>1, <1>2, <1>3 DEF Environment

LEMMA NextKeeps == IInv /\ [Next]_vars => IInv'
<1> SUFFICES ASSUME IInv, [Next]_vars PROVE IInv'
  OBVIOUS
<1>1. CASE UNCHANGED vars
  BY <1>1 DEF vars
<1> QED BY <1>1, SendKeeps, MainKeeps, ForwardKeeps, OtherKeeps, EnvironmentKeeps DEF Next

LEMMA Invariance == Spec => []IInv
  BY InitHolds, NextKeeps, PTL DEF Spec

\* The variables of a session keep their types.
THEOREM TypeCorrect == Spec => []TypeOK
<1>1. IInv => TypeOK
  OBVIOUS
<1> QED BY <1>1, Invariance, PTL

\* No two goroutines ever write to the websocket together: writeMu covers every
\* frame of the handler and of the forwarders.
THEOREM WritersExclude == Spec => []OneWriter
<1>1. IInv => OneWriter
  BY DEF OneWriter
<1> QED BY <1>1, Invariance, PTL

\* An ended row of remote_sessions never belongs to a session whose SSH client is
\* still open.
THEOREM EndedRowsAreClosed == Spec => []RowEndsLast
<1>1. IInv => RowEndsLast
  BY DEF RowEndsLast
<1> QED BY <1>1, Invariance, PTL
=============================================================================
