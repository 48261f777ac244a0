------------------------- MODULE VerdictGateProofs -------------------------
(***************************************************************************)
(* Proofs, for any number of requests, frames, actors and worker deaths,   *)
(* that the gate is fail-closed (a request is forwarded only if its id was *)
(* granted), that the decisions of one actor never overlap, and that with  *)
(* distinct ids a forwarded request was granted itself and not denied.     *)
(***************************************************************************)
EXTENDS VerdictGate, TLAPS

\* The types of the state after a step, one conjunct of TypeOK per variable:
\* the facts every leaf below needs about its sequences and functions.
USE GateAssumption

-----------------------------------------------------------------------------
\* Messages are built from ids and Booleans.
LEMMA MsgType ==
  ASSUME NEW i \in Ids, NEW b \in BOOLEAN
  PROVE  Awaiting(i) \in Msg /\ Answer(i, b) \in Msg
  BY DEF Awaiting, Answer, Msg

\* What the end of a queue looks like after Append, its front after Tail.
LEMMA AppendFacts ==
  ASSUME NEW S, NEW s \in Seq(S), NEW m \in S
  PROVE  /\ Append(s, m) \in Seq(S)
         /\ Len(Append(s, m)) = Len(s) + 1
         /\ \A i \in 1 .. Len(s) : Append(s, m)[i] = s[i]
         /\ Append(s, m)[Len(s) + 1] = m
  OBVIOUS

LEMMA TailFacts ==
  ASSUME NEW S, NEW s \in Seq(S), s # <<>>
  PROVE  /\ Head(s) = s[1] /\ Head(s) \in S
         /\ Len(s) \in Nat /\ Len(s) >= 1
         /\ Tail(s) \in Seq(S)
         /\ Len(Tail(s)) = Len(s) - 1
         /\ \A i \in 1 .. Len(s) - 1 : Tail(s)[i] = s[i + 1]
  OBVIOUS

LEMMA WriteType ==
  ASSUME TypeOK, NEW r \in Req, NEW m \in Msg, Write(r, m)
  PROVE  stream' \in [Frames -> Seq(Msg)]
<1>1. stream[FrameOf[r]] \in Seq(Msg)
  BY DEF TypeOK
<1>2. Append(stream[FrameOf[r]], m) \in Seq(Msg)
  BY <1>1, AppendFacts
<1> QED
  BY <1>2 DEF Write, TypeOK

LEMMA PostType ==
  ASSUME TypeOK, NEW r \in Req, NEW m \in Msg, Post(r, m)
  PROVE  port' \in [Req -> Seq(Msg)]
<1>1. port[r] \in Seq(Msg)
  BY DEF TypeOK
<1>2. Append(port[r], m) \in Seq(Msg)
  BY <1>1, AppendFacts
<1> QED
  BY <1>2 DEF Post, TypeOK

LEMMA InitInv == Init => Inv
<1> SUFFICES ASSUME Init PROVE Inv
  OBVIOUS
<1>1. TypeOK
  BY DEF Init, TypeOK, Empty, Map, Status, Waiting, Settled, PcStates, Live, Running, WinStates
<1>2. LockInv
  BY DEF Init, LockInv, Live, Running
<1>3. AnswerInv
  BY DEF Init, AnswerInv, PageInv, StreamInv, PortInv
<1>4. GrantInv
  BY DEF Init, GrantInv, OkInv, ChoiceInv, StoreInv, CopyInv, AskInv, Empty
<1> QED
  BY <1>1, <1>2, <1>3, <1>4 DEF Inv

-----------------------------------------------------------------------------
(* Types *)

LEMMA TypePage ==
  ASSUME TypeOK, NEW r \in Req, Page(r)
  PROVE  TypeOK'
<1> USE DEF TypeOK, workerVars, windowVars
<1>1. CASE PageSend(r)
  BY <1>1 DEF PageSend, Waiting
<1>2. CASE PageTimeout(r)
  BY <1>2 DEF PageTimeout, Settled
<1> QED
  BY <1>1, <1>2 DEF Page

LEMMA TypeReceive ==
  ASSUME TypeOK, NEW f \in Frames, PageReceive(f)
  PROVE  TypeOK'
<1>1. stream' \in [Frames -> Seq(Msg)]
  BY DEF TypeOK, PageReceive
<1>2. page' \in [Req -> {"new"} \cup Waiting \cup Settled]
  BY DEF TypeOK, PageReceive, Heard, Waiting, Settled
<1> QED
  BY <1>1, <1>2 DEF TypeOK, PageReceive, workerVars, windowVars

LEMMA TypeRelay ==
  ASSUME TypeOK, NEW r \in Req, Relay(r)
  PROVE  TypeOK'
<1> USE DEF TypeOK, workerVars, windowVars
<1>1. CASE RelayConnect(r)
  BY <1>1 DEF RelayConnect, Waiting
<1>2. CASE RelayConnectFails(r)
  <2>1. Answer(IdOf[r], FALSE) \in Msg
    BY MsgType
  <2>2. stream' \in [Frames -> Seq(Msg)]
    BY <1>2, <2>1, WriteType DEF RelayConnectFails
  <2>3. relay' \in [Req -> {"none", "closed", "failed"} \cup Waiting]
    BY <1>2 DEF RelayConnectFails
  <2> QED
    BY <1>2, <2>2, <2>3 DEF RelayConnectFails, Write
<1>3. CASE RelayReceive(r)
  <2>1. Head(port[r]) \in Msg
    BY <1>3 DEF RelayReceive
  <2>5. Write(r, Head(port[r]))
    BY <1>3 DEF RelayReceive, Write
  <2>2. stream' \in [Frames -> Seq(Msg)]
    BY <2>1, <2>5, WriteType
  <2>3. port' \in [Req -> Seq(Msg)]
    BY <1>3 DEF RelayReceive
  <2>4. relay' \in [Req -> {"none", "closed", "failed"} \cup Waiting]
    BY <1>3 DEF RelayReceive, Waiting
  <2> QED
    BY <1>3, <2>2, <2>3, <2>4 DEF RelayReceive, Write
<1>4. CASE RelayTimeout(r)
  <2>1. Answer(IdOf[r], FALSE) \in Msg
    BY MsgType
  <2>2. stream' \in [Frames -> Seq(Msg)]
    BY <1>4, <2>1, WriteType DEF RelayTimeout
  <2>3. /\ relay' \in [Req -> {"none", "closed", "failed"} \cup Waiting]
        /\ port' \in [Req -> Seq(Msg)]
    BY <1>4 DEF RelayTimeout
  <2> QED
    BY <1>4, <2>2, <2>3 DEF RelayTimeout, Write
<1> QED
  BY <1>1, <1>2, <1>3, <1>4 DEF Relay

\* The head of the chain of a decision that may end, or start, is there to
\* be removed.
LEMMA ChainHead ==
  ASSUME Inv, NEW r \in Req, ActorOf[r] # NoActor, pc[r] \in Live
  PROVE  /\ ActorOf[r] \in Actors
         /\ chain[ActorOf[r]] \in Seq(Req)
         /\ chain[ActorOf[r]] # <<>>
<1>1. ActorOf[r] \in Actors
  OBVIOUS
<1>2. chain[ActorOf[r]] \in Seq(Req)
  BY <1>1 DEF Inv, TypeOK
<1>3. InChain(r)
  BY DEF Inv, LockInv
<1> QED
  BY <1>1, <1>2, <1>3 DEF InChain

LEMMA UnlockType ==
  ASSUME Inv, NEW r \in Req, pc[r] \in Live, Unlock(r)
  PROVE  chain' \in [Actors -> Seq(Req)]
<1>1. CASE ActorOf[r] = NoActor
  BY <1>1 DEF Unlock, Inv, TypeOK
<1>2. CASE ActorOf[r] # NoActor
  <2>1. Tail(chain[ActorOf[r]]) \in Seq(Req)
    BY <1>2, ChainHead, TailFacts
  <2> QED
    BY <1>2, <2>1 DEF Unlock, Inv, TypeOK
<1> QED
  BY <1>1, <1>2

LEMMA TypeWorker ==
  ASSUME Inv, NEW r \in Req, Worker(r)
  PROVE  TypeOK'
<1> USE DEF TypeOK, pageVars, windowVars, PcStates, Live, Running
<1>0. TypeOK
  BY DEF Inv
<1>1. CASE HandleMessage(r)
  <2>1. chain' \in [Actors -> Seq(Req)]
    <3>1. CASE ActorOf[r] = NoActor
      BY <1>0, <1>1, <3>1 DEF HandleMessage
    <3>2. CASE ActorOf[r] # NoActor
      <4>1. ActorOf[r] \in Actors /\ chain[ActorOf[r]] \in Seq(Req)
        BY <1>0, <3>2
      <4>2. Append(chain[ActorOf[r]], r) \in Seq(Req)
        BY <4>1, AppendFacts
      <4> QED
        BY <1>0, <1>1, <3>2, <4>2 DEF HandleMessage
    <3> QED
      BY <3>1, <3>2
  <2> QED
    BY <1>0, <1>1, <2>1 DEF HandleMessage
<1>2. CASE Start(r)
  BY <1>0, <1>2 DEF Start
<1>3. ASSUME NEW v \in {"pass", "warn", "fail"}, NEW shown \in BOOLEAN, Branch(r, v, shown)
      PROVE  /\ pc' \in [Req -> PcStates]
             /\ verdict' \in [Req -> {"none", "pass", "warn", "fail"}]
             /\ ok' \in [Req -> BOOLEAN]
             /\ win' \in [Req -> WinStates]
             /\ approved' \subseteq Req
  BY <1>0, <1>3 DEF Branch, WinStates
<1>4. CASE LifecycleEnds(r)
  <2>1. PICK v \in Outcomes(KindOf[r]), shown \in BOOLEAN : Branch(r, v, shown)
    BY <1>4 DEF LifecycleEnds
  <2>2. v \in {"pass", "warn", "fail"}
    BY DEF Outcomes
  <2> QED
    BY <1>0, <1>3, <1>4, <2>1, <2>2 DEF LifecycleEnds
<1>5. CASE LifecycleTimesOut(r)
  <2>1. PICK shown \in BOOLEAN : Branch(r, IF KindOf[r] = "venue" THEN "fail" ELSE "warn", shown)
    BY <1>5 DEF LifecycleTimesOut
  <2> QED
    BY <1>0, <1>3, <1>5, <2>1 DEF LifecycleTimesOut
<1>7. CASE Throws(r)
  BY <1>0, <1>7 DEF Throws, Empty, Map, Status
<1>8. CASE ReadDecisions(r)
  BY <1>0, <1>8 DEF ReadDecisions
<1>9. CASE WriteAwaiting(r)
  BY <1>0, <1>9 DEF WriteAwaiting, Empty, Map, Status
<1>10. CASE CreateWindow(r)
  BY <1>0, <1>10 DEF CreateWindow, WinStates
<1>11. CASE CreateWindowFails(r)
  BY <1>0, <1>11 DEF CreateWindowFails
<1>12. CASE Listen(r)
  <2>1. port' \in [Req -> Seq(Msg)]
    BY <1>0, <1>12, MsgType, PostType DEF Listen
  <2> QED
    BY <1>0, <1>12, <2>1 DEF Listen
<1>13. CASE SettleByPoll(r)
  BY <1>0, <1>13 DEF SettleByPoll, Settle
<1>14. CASE SettleByDeadline(r)
  BY <1>0, <1>14 DEF SettleByDeadline, Settle
<1>15. CASE Audit(r)
  BY <1>0, <1>15 DEF Audit
<1>16. CASE Respond(r)
  <2>1. port' \in [Req -> Seq(Msg)]
    BY <1>0, <1>16, MsgType, PostType DEF Respond
  <2>2. chain' \in [Actors -> Seq(Req)]
    BY <1>16, UnlockType DEF Respond
  <2> QED
    BY <1>0, <1>16, <2>1, <2>2 DEF Respond
<1>17. CASE Rejects(r)
  <2>1. chain' \in [Actors -> Seq(Req)]
    BY <1>17, UnlockType DEF Rejects
  <2> QED
    BY <1>0, <1>17, <2>1 DEF Rejects
<1> QED
  BY <1>1, <1>2, <1>4, <1>5, <1>7, <1>8, <1>9, <1>10, <1>11, <1>12, <1>13,
     <1>14, <1>15, <1>16, <1>17 DEF Worker

LEMMA TypeDie ==
  ASSUME TypeOK, Die
  PROVE  TypeOK'
  BY DEF TypeOK, Die, pageVars, windowVars, PcStates, Live, Running, Empty, Map, Status

LEMMA TypeWindow ==
  ASSUME TypeOK, NEW r \in Req, Window(r)
  PROVE  TypeOK'
<1> USE DEF TypeOK, pageVars, workerVars, WinStates
<1>1. ASSUME NEW b \in BOOLEAN, Press(r, b) PROVE TypeOK'
  BY <1>1 DEF Press
<1>2. CASE ReplyWrite(r)
  <2>1. csnap[r] \in Map /\ IdOf[r] \in Ids /\ Empty \in Map
    BY DEF Map, Empty, Status
  <2>2. session' \in Map
    BY <1>2, <2>1 DEF ReplyWrite, Map, Status
  <2>3. csnap' \in [Req -> Map]
    BY <1>2, <2>1 DEF ReplyWrite
  <2> QED
    BY <1>2, <2>2, <2>3 DEF ReplyWrite
<1>3. CASE ReplySend(r)
  BY <1>3 DEF ReplySend, Settle, PcStates, Live, Running
<1>4. CASE Unload(r)
  BY <1>4 DEF Unload
<1>5. CASE WindowRemoved(r)
  BY <1>5 DEF WindowRemoved, Settle, PcStates, Live, Running
<1>6. CASE UnloadWrite(r)
  <2>1. csnap[r] \in Map /\ IdOf[r] \in Ids /\ Empty \in Map
    BY DEF Map, Empty, Status
  <2>2. [csnap[r] EXCEPT ![IdOf[r]] = "no"] \in Map
    BY <2>1 DEF Map, Status
  <2>3. session' \in Map
    BY <1>6, <2>2 DEF UnloadWrite
  <2>4. csnap' \in [Req -> Map]
    BY <1>6, <2>1 DEF UnloadWrite
  <2> QED
    BY <1>6, <2>3, <2>4 DEF UnloadWrite
<1> QED
  BY <1>1, <1>2, <1>3, <1>4, <1>5, <1>6 DEF Window, CloseWindow, RemoveWindow

-----------------------------------------------------------------------------
(* The lock *)

\* A step that leaves the chains alone and starts nothing keeps the lock.
LEMMA LockFrame ==
  ASSUME LockInv, chain' = chain,
         \A q \in Req : (pc'[q] \in Live => pc[q] \in Live)
                        /\ (pc'[q] \in Running => pc[q] \in Running)
  PROVE  LockInv'
  BY DEF LockInv, InChain

\* Removing the head of a chain keeps every other decision in it.
LEMMA LockUnlock ==
  ASSUME Inv, NEW r \in Req, pc[r] \in Live, HasLock(r), Unlock(r),
         pc' = [pc EXCEPT ![r] = "done"]
  PROVE  LockInv'
<1> SUFFICES ASSUME NEW q \in Req, ActorOf[q] # NoActor
             PROVE  /\ pc'[q] \in Live => InChain(q)'
                    /\ pc'[q] \in Running => chain'[ActorOf[q]][1] = q
  BY DEF LockInv
<1>0. pc'[r] \notin Live /\ pc'[r] \notin Running /\ \A p \in Req : p # r => pc'[p] = pc[p]
  BY DEF Inv, TypeOK, Live, Running
<1>1. CASE ActorOf[q] # ActorOf[r] \/ q = r
  <2>1. CASE q = r
    BY <1>0, <2>1
  <2>2. CASE ActorOf[q] # ActorOf[r]
    <3>1. chain'[ActorOf[q]] = chain[ActorOf[q]]
      BY <2>2 DEF Unlock, Inv, TypeOK
    <3>2. (pc[q] \in Live => InChain(q)) /\ (pc[q] \in Running => chain[ActorOf[q]][1] = q)
      BY DEF Inv, LockInv
    <3> QED
      BY <1>0, <2>2, <3>1, <3>2 DEF InChain
  <2> QED
    BY <1>1, <2>1, <2>2
<1>2. CASE ActorOf[q] = ActorOf[r] /\ q # r
  <2> DEFINE a == ActorOf[r]
  <2>1. a \in Actors /\ chain[a] \in Seq(Req) /\ chain[a] # <<>>
    BY <1>2, ChainHead
  <2>2. chain'[a] = Tail(chain[a])
    BY <1>2, <2>1 DEF Unlock, Inv, TypeOK
  <2>3. chain[a][1] = r
    BY <1>2, <2>1, TailFacts DEF HasLock
  <2>4. pc[q] \notin Running
    BY <1>2, <2>3 DEF Inv, LockInv
  <2>5. ASSUME pc[q] \in Live PROVE InChain(q)'
    <3>1. PICK i \in 1 .. Len(chain[a]) : chain[a][i] = q
      BY <1>2, <2>5 DEF Inv, LockInv, InChain
    <3>2. i # 1
      BY <1>2, <2>3, <3>1
    <3>3. i - 1 \in 1 .. Len(Tail(chain[a])) /\ Tail(chain[a])[i - 1] = q
      BY <2>1, <3>1, <3>2, TailFacts
    <3> QED
      BY <1>2, <2>2, <3>3 DEF InChain
  <2> QED
    BY <1>0, <1>2, <2>4, <2>5
<1> QED
  BY <1>1, <1>2

\* A new decision goes to the end of its chain.
LEMMA LockHandle ==
  ASSUME Inv, NEW r \in Req, HandleMessage(r)
  PROVE  LockInv'
<1> SUFFICES ASSUME NEW q \in Req, ActorOf[q] # NoActor
             PROVE  /\ pc'[q] \in Live => InChain(q)'
                    /\ pc'[q] \in Running => chain'[ActorOf[q]][1] = q
  BY DEF LockInv
<1> DEFINE a == ActorOf[q]
<1>0. a \in Actors /\ chain[a] \in Seq(Req)
  BY DEF Inv, TypeOK
<1>1. (pc[q] \in Live => InChain(q)) /\ (pc[q] \in Running => chain[a][1] = q)
  BY DEF Inv, LockInv
<1>2. /\ pc'[r] = "queued"
      /\ \A p \in Req : p # r => pc'[p] = pc[p]
  BY DEF Inv, TypeOK, HandleMessage
<1>3. CASE ActorOf[r] # a
  <2>1. chain'[a] = chain[a]
    BY <1>0, <1>3 DEF HandleMessage, Inv, TypeOK
  <2> QED
    BY <1>1, <1>2, <1>3, <2>1 DEF InChain, Running
<1>4. CASE ActorOf[r] = a
  <2>1. chain'[a] = Append(chain[a], r)
    BY <1>0, <1>4 DEF HandleMessage, Inv, TypeOK
  <2>2. /\ Len(chain[a]) \in Nat
        /\ Len(chain'[a]) = Len(chain[a]) + 1
        /\ \A i \in 1 .. Len(chain[a]) : chain'[a][i] = chain[a][i]
        /\ chain'[a][Len(chain[a]) + 1] = r
    BY <1>0, <2>1, AppendFacts
  <2>3. CASE q = r
    BY <1>2, <2>2, <2>3 DEF InChain, Running
  <2>4. CASE q # r
    <3>1. ASSUME pc[q] \in Live
          PROVE  InChain(q)' /\ (pc[q] \in Running => chain'[a][1] = q)
      <4>1. PICK i \in 1 .. Len(chain[a]) : chain[a][i] = q
        BY <1>1, <3>1 DEF InChain
      <4>2. i \in 1 .. Len(chain'[a]) /\ chain'[a][i] = q
        BY <2>2, <4>1
      <4>3. 1 \in 1 .. Len(chain[a])
        BY <2>2, <4>1
      <4> QED
        BY <1>1, <2>2, <4>2, <4>3 DEF InChain
    <3> QED
      BY <1>2, <2>4, <3>1 DEF Live
  <2> QED
    BY <2>3, <2>4
<1> QED
  BY <1>3, <1>4

\* The decision that starts is the first of its chain.
LEMMA LockStart ==
  ASSUME Inv, NEW r \in Req, Start(r)
  PROVE  LockInv'
<1> SUFFICES ASSUME NEW q \in Req, ActorOf[q] # NoActor
             PROVE  /\ pc'[q] \in Live => InChain(q)'
                    /\ pc'[q] \in Running => chain'[ActorOf[q]][1] = q
  BY DEF LockInv
<1>1. /\ (pc[q] \in Live => InChain(q)) /\ (pc[q] \in Running => chain[ActorOf[q]][1] = q)
      /\ chain' = chain
  BY DEF Inv, LockInv, Start
<1>2. CASE q # r
  BY <1>1, <1>2 DEF Start, InChain, Inv, TypeOK
<1>3. CASE q = r
  <2>1. pc[r] \in Live
    BY DEF Start, Live
  <2>2. chain[ActorOf[q]][1] = q
    BY <1>3, <2>1, ChainHead, TailFacts DEF Start, HasLock
  <2> QED
    BY <1>1, <1>3, <2>1, <2>2 DEF InChain
<1> QED
  BY <1>2, <1>3

LEMMA LockNext ==
  ASSUME Inv, Next
  PROVE  LockInv'
<1> USE DEF Inv
<1>1. ASSUME NEW r \in Req, Page(r) \/ Relay(r) PROVE LockInv'
  BY <1>1, LockFrame DEF Page, PageSend, PageTimeout, Relay, RelayConnect,
     RelayConnectFails, RelayReceive, RelayTimeout, workerVars
<1>2. ASSUME NEW f \in Frames, PageReceive(f) PROVE LockInv'
  BY <1>2, LockFrame DEF PageReceive, workerVars
<1>3. CASE Die
  BY <1>3 DEF Die, LockInv, Live, Running, TypeOK
<1>4. ASSUME NEW r \in Req, Worker(r) PROVE LockInv'
  <2>0. pc \in [Req -> PcStates]
    BY DEF TypeOK
  <2>1. CASE HandleMessage(r)
    BY <2>1, LockHandle
  <2>2. CASE Start(r)
    BY <2>2, LockStart
  <2>3. CASE Respond(r) \/ Rejects(r)
    <3>1. pc[r] \in Live
      BY <2>3 DEF Respond, Rejects, Live, Running
    <3>2. HasLock(r)
      <4>1. CASE pc[r] \in Running /\ ActorOf[r] # NoActor
        BY <3>1, <4>1, ChainHead, TailFacts DEF HasLock, LockInv
      <4> QED
        BY <2>3, <4>1 DEF Respond, Rejects, Running, HasLock
    <3> QED
      BY <2>3, <3>1, <3>2, LockUnlock DEF Respond, Rejects
  <2>4. CASE LifecycleEnds(r) \/ LifecycleTimesOut(r)
    BY <2>0, <2>4, LockFrame DEF LifecycleEnds, LifecycleTimesOut, Branch, Live, Running
  <2>5. CASE Throws(r) \/ ReadDecisions(r) \/ WriteAwaiting(r)
    BY <2>0, <2>5, LockFrame DEF Throws, ReadDecisions, WriteAwaiting, Live, Running
  <2>6. CASE CreateWindow(r) \/ CreateWindowFails(r) \/ Listen(r) \/ Audit(r)
    BY <2>0, <2>6, LockFrame DEF CreateWindow, CreateWindowFails, Listen, Audit, Live, Running
  <2>7. CASE SettleByPoll(r) \/ SettleByDeadline(r)
    BY <2>0, <2>7, LockFrame DEF SettleByPoll, SettleByDeadline, Settle, Live, Running
  <2> QED
    BY <1>4, <2>1, <2>2, <2>3, <2>4, <2>5, <2>6, <2>7 DEF Worker
<1>5. ASSUME NEW r \in Req, Window(r) PROVE LockInv'
  <2>1. CASE ReplySend(r) \/ WindowRemoved(r)
    BY <2>1, LockFrame DEF ReplySend, WindowRemoved, Settle, Live, Running
  <2>2. CASE \/ \E b \in BOOLEAN : Press(r, b)
             \/ ReplyWrite(r) \/ Unload(r) \/ UnloadWrite(r)
    BY <2>2, LockFrame DEF Press, ReplyWrite, Unload, UnloadWrite, workerVars
  <2> QED
    BY <1>5, <2>1, <2>2 DEF Window, CloseWindow, RemoveWindow
<1> QED
  BY <1>1, <1>2, <1>3, <1>4, <1>5 DEF Next

-----------------------------------------------------------------------------
(* Answers *)

\* A decision that ended with an approval is never revised.
LEMMA YesStable ==
  ASSUME Inv, Next, NEW q \in Req, AnsweredYes(q)
  PROVE  AnsweredYes(q)'
<1> USE DEF Inv, AnsweredYes, TypeOK
<1>1. ASSUME NEW r \in Req, Page(r) \/ Relay(r) PROVE AnsweredYes(q)'
  BY <1>1 DEF Page, PageSend, PageTimeout, Relay, RelayConnect,
     RelayConnectFails, RelayReceive, RelayTimeout, workerVars
<1>2. ASSUME NEW f \in Frames, PageReceive(f) PROVE AnsweredYes(q)'
  BY <1>2 DEF PageReceive, workerVars
<1>3. CASE Die
  BY <1>3 DEF Die, Live, Running
<1>4. ASSUME NEW r \in Req, Worker(r) PROVE AnsweredYes(q)'
  <2>1. CASE HandleMessage(r) \/ Start(r) \/ Respond(r) \/ Rejects(r)
    BY <2>1 DEF HandleMessage, Start, Respond, Rejects
  <2>2. CASE LifecycleEnds(r) \/ LifecycleTimesOut(r)
    BY ZenonT(60), SMTT(30), <2>2 DEF LifecycleEnds, LifecycleTimesOut, Branch
  <2>3. CASE Throws(r) \/ ReadDecisions(r) \/ WriteAwaiting(r)
    BY ZenonT(60), SMTT(30), <2>3 DEF Throws, ReadDecisions, WriteAwaiting
  <2>4. CASE CreateWindow(r) \/ CreateWindowFails(r) \/ Listen(r) \/ Audit(r)
    BY <2>4 DEF CreateWindow, CreateWindowFails, Listen, Audit
  <2>5. CASE SettleByPoll(r) \/ SettleByDeadline(r)
    BY <2>5 DEF SettleByPoll, SettleByDeadline, Settle
  <2> QED
    BY <1>4, <2>1, <2>2, <2>3, <2>4, <2>5 DEF Worker
<1>5. ASSUME NEW r \in Req, Window(r) PROVE AnsweredYes(q)'
  <2>1. CASE ReplySend(r) \/ WindowRemoved(r)
    <3>1. CASE ReplySend(r)
      <4>1. q \notin {p \in Req : pc[p] = "waiting" /\ IdOf[p] = IdOf[r]}
        OBVIOUS
      <4>2. pc'[q] = pc[q] /\ ok'[q] = ok[q] /\ verdict' = verdict
        BY <3>1, <4>1 DEF ReplySend, Settle
      <4> QED
        BY <4>2
    <3>2. CASE WindowRemoved(r)
      <4>1. q \notin {p \in {r} : pc[p] = "waiting"}
        OBVIOUS
      <4>2. pc'[q] = pc[q] /\ ok'[q] = ok[q] /\ verdict' = verdict
        BY <3>2, <4>1 DEF WindowRemoved, Settle
      <4> QED
        BY <4>2
    <3> QED
      BY <2>1, <3>1, <3>2
  <2>2. CASE \/ \E b \in BOOLEAN : Press(r, b)
             \/ ReplyWrite(r) \/ Unload(r) \/ UnloadWrite(r)
    BY <2>2 DEF Press, ReplyWrite, Unload, UnloadWrite, workerVars
  <2> QED
    BY <1>5, <2>1, <2>2 DEF Window, CloseWindow, RemoveWindow
<1> QED
  BY <1>1, <1>2, <1>3, <1>4, <1>5 DEF Next

\* Writing to the stream keeps StreamInv if the message is no approval or one
\* the worker gave.
LEMMA AnswerWrite ==
  ASSUME Inv, NEW r \in Req, NEW m \in Msg, Write(r, m),
         m.ok => m.kind = "data" /\ YesFor(m.id),
         \A q \in Req : AnsweredYes(q) => AnsweredYes(q)'
  PROVE  StreamInv'
<1> SUFFICES ASSUME NEW f \in Frames, NEW i \in 1 .. Len(stream'[f]), stream'[f][i].ok
             PROVE  (stream[f][i].kind = "data" /\ YesFor(stream[f][i].id))'
  BY DEF StreamInv
<1>0. stream \in [Frames -> Seq(Msg)]
  BY DEF Inv, TypeOK
<1>1. CASE f # FrameOf[r]
  BY <1>0, <1>1 DEF Write, Inv, AnswerInv, StreamInv, YesFor
<1>2. CASE f = FrameOf[r]
  <2>1. stream'[f] = Append(stream[f], m) /\ stream[f] \in Seq(Msg)
    BY <1>0, <1>2 DEF Write
  <2>2. /\ Len(stream[f]) \in Nat
        /\ Len(stream'[f]) = Len(stream[f]) + 1
        /\ \A j \in 1 .. Len(stream[f]) : stream'[f][j] = stream[f][j]
        /\ stream'[f][Len(stream[f]) + 1] = m
    BY <2>1, AppendFacts
  <2>3. CASE i \in 1 .. Len(stream[f])
    BY <2>2, <2>3 DEF Inv, AnswerInv, StreamInv, YesFor
  <2>4. CASE i = Len(stream[f]) + 1
    BY <2>2, <2>4 DEF YesFor
  <2> QED
    BY <2>2, <2>3, <2>4
<1> QED
  BY <1>1, <1>2

\* The same for a message to the port.
LEMMA AnswerPost ==
  ASSUME Inv, NEW r \in Req, NEW m \in Msg, Post(r, m),
         m.ok => m.kind = "data" /\ \E q \in Req : IdOf[q] = m.id /\ AnsweredYes(q)',
         \A q \in Req : AnsweredYes(q) => AnsweredYes(q)'
  PROVE  PortInv'
<1> SUFFICES ASSUME NEW p \in Req, NEW i \in 1 .. Len(port'[p]), port'[p][i].ok
             PROVE  (port[p][i].kind = "data" /\ YesFor(port[p][i].id))'
  BY DEF PortInv
<1>0. port \in [Req -> Seq(Msg)]
  BY DEF Inv, TypeOK
<1>1. CASE port'[p] = port[p]
  <2>1. i \in 1 .. Len(port[p]) /\ port[p][i].ok
    BY <1>1
  <2>2. port[p][i].kind = "data" /\ YesFor(port[p][i].id)
    BY <2>1 DEF Inv, AnswerInv, PortInv
  <2> QED
    BY <1>1, <2>2 DEF YesFor
<1>2. CASE port'[p] # port[p]
  <2>1. p = r /\ port'[p] = Append(port[p], m) /\ port[p] \in Seq(Msg)
    BY <1>0, <1>2 DEF Post
  <2>2. /\ Len(port[p]) \in Nat
        /\ Len(port'[p]) = Len(port[p]) + 1
        /\ \A j \in 1 .. Len(port[p]) : port'[p][j] = port[p][j]
        /\ port'[p][Len(port[p]) + 1] = m
    BY <2>1, AppendFacts
  <2>3. CASE i \in 1 .. Len(port[p])
    BY <2>2, <2>3 DEF Inv, AnswerInv, PortInv, YesFor
  <2>4. CASE i = Len(port[p]) + 1
    BY <2>2, <2>4 DEF YesFor
  <2> QED
    BY <2>2, <2>3, <2>4
<1> QED
  BY <1>1, <1>2

LEMMA AnswerNext ==
  ASSUME Inv, Next
  PROVE  AnswerInv'
<1>0. \A q \in Req : AnsweredYes(q) => AnsweredYes(q)'
  BY YesStable
<1>1. page' = page => PageInv'
  BY <1>0 DEF Inv, AnswerInv, PageInv, YesFor
<1>2. stream' = stream => StreamInv'
  BY <1>0 DEF Inv, AnswerInv, StreamInv, YesFor
<1>3. port' = port => PortInv'
  BY <1>0 DEF Inv, AnswerInv, PortInv, YesFor
<1>4. ASSUME NEW r \in Req, Page(r) PROVE AnswerInv'
  <2>1. stream' = stream /\ port' = port
    BY <1>4 DEF Page, PageSend, PageTimeout
  <2>2. PageInv'
    BY <1>0, <1>4 DEF Page, PageSend, PageTimeout, Inv, TypeOK, AnswerInv, PageInv, YesFor
  <2> QED
    BY <1>2, <1>3, <2>1, <2>2 DEF AnswerInv
<1>5. ASSUME NEW r \in Req, Relay(r) PROVE AnswerInv'
  <2>1. PageInv'
    BY <1>1, <1>5 DEF Relay, RelayConnect, RelayConnectFails, RelayReceive, RelayTimeout
  <2>2. PortInv'
    <3>1. CASE RelayConnect(r) \/ RelayConnectFails(r)
      BY <1>3, <3>1 DEF RelayConnect, RelayConnectFails
    <3>2. CASE RelayReceive(r) \/ RelayTimeout(r)
      <4> SUFFICES ASSUME NEW p \in Req, NEW i \in 1 .. Len(port'[p]), port'[p][i].ok
                   PROVE  (port[p][i].kind = "data" /\ YesFor(port[p][i].id))'
        BY DEF PortInv
      <4>1. port \in [Req -> Seq(Msg)]
        BY DEF Inv, TypeOK
      <4>2. CASE port'[p] = port[p]
        <5>1. i \in 1 .. Len(port[p]) /\ port[p][i].ok
          BY <4>2
        <5>2. port[p][i].kind = "data" /\ YesFor(port[p][i].id)
          BY <5>1 DEF Inv, AnswerInv, PortInv
        <5> QED
          BY <1>0, <4>2, <5>2 DEF YesFor
      <4>3. CASE port'[p] # port[p]
        <5>0. port'[p] # <<>>
          OBVIOUS
        <5>1. port[p] \in Seq(Msg) /\ port[p] # <<>> /\ port'[p] = Tail(port[p])
          BY <3>2, <4>1, <4>3, <5>0 DEF RelayReceive, RelayTimeout
        <5>2. i + 1 \in 1 .. Len(port[p]) /\ port'[p][i] = port[p][i + 1]
          BY <5>1, TailFacts
        <5> QED
          BY <1>0, <5>2 DEF Inv, AnswerInv, PortInv, YesFor
      <4> QED
        BY <4>2, <4>3
    <3> QED
      BY <1>5, <3>1, <3>2 DEF Relay
  <2>3. StreamInv'
    <3>1. CASE RelayConnect(r)
      BY <1>2, <3>1 DEF RelayConnect
    <3>2. CASE RelayConnectFails(r) \/ RelayTimeout(r)
      <4>1. Answer(IdOf[r], FALSE) \in Msg /\ ~Answer(IdOf[r], FALSE).ok
        BY MsgType DEF Answer
      <4>2. Write(r, Answer(IdOf[r], FALSE))
        BY <3>2 DEF RelayConnectFails, RelayTimeout
      <4> QED
        BY <1>0, <4>1, <4>2, AnswerWrite
    <3>3. CASE RelayReceive(r)
      <4>1. port[r] \in Seq(Msg) /\ port[r] # <<>> /\ Write(r, Head(port[r]))
        BY <3>3 DEF RelayReceive, Inv, TypeOK
      <4>2. Head(port[r]) \in Msg /\ Head(port[r]) = port[r][1] /\ 1 \in 1 .. Len(port[r])
        BY <4>1, TailFacts
      <4>3. Head(port[r]).ok => Head(port[r]).kind = "data" /\ YesFor(Head(port[r]).id)
        BY <4>2 DEF Inv, AnswerInv, PortInv
      <4> QED
        BY <1>0, <4>1, <4>2, <4>3, AnswerWrite
    <3> QED
      BY <1>5, <3>1, <3>2, <3>3 DEF Relay
  <2> QED
    BY <2>1, <2>2, <2>3 DEF AnswerInv
<1>6. ASSUME NEW f \in Frames, PageReceive(f) PROVE AnswerInv'
  <2>0. stream[f] \in Seq(Msg) /\ stream[f] # <<>> /\ stream \in [Frames -> Seq(Msg)]
    BY <1>6 DEF Inv, TypeOK, PageReceive
  <2>1. PortInv'
    BY <1>3, <1>6 DEF PageReceive
  <2>2. StreamInv'
    <3> SUFFICES ASSUME NEW g \in Frames, NEW i \in 1 .. Len(stream'[g]), stream'[g][i].ok
                 PROVE  (stream[g][i].kind = "data" /\ YesFor(stream[g][i].id))'
      BY DEF StreamInv
    <3>1. CASE g # f
      BY <1>0, <1>6, <2>0, <3>1 DEF PageReceive, Inv, AnswerInv, StreamInv, YesFor
    <3>2. CASE g = f
      <4>1. stream'[g] = Tail(stream[g])
        BY <1>6, <2>0, <3>2 DEF PageReceive
      <4>2. i + 1 \in 1 .. Len(stream[g]) /\ stream'[g][i] = stream[g][i + 1]
        BY <2>0, <3>2, <4>1, TailFacts
      <4> QED
        BY <1>0, <4>2 DEF Inv, AnswerInv, StreamInv, YesFor
    <3> QED
      BY <3>1, <3>2
  <2>3. PageInv'
    <3> SUFFICES ASSUME NEW r \in Req, page'[r] = "allowed"
                 PROVE  YesFor(IdOf[r])'
      BY DEF PageInv
    <3>1. CASE page[r] = "allowed"
      BY <1>0, <3>1 DEF Inv, AnswerInv, PageInv, YesFor
    <3>2. CASE page[r] # "allowed"
      <4>1. IdOf[r] = Head(stream[f]).id /\ Head(stream[f]).ok
        BY <1>6, <3>2 DEF PageReceive, Heard, Inv, TypeOK
      <4>2. Head(stream[f]) = stream[f][1] /\ 1 \in 1 .. Len(stream[f])
        BY <2>0, TailFacts
      <4>3. YesFor(IdOf[r])
        BY <4>1, <4>2 DEF Inv, AnswerInv, StreamInv
      <4> QED
        BY <1>0, <4>3 DEF YesFor
    <3> QED
      BY <3>1, <3>2
  <2> QED
    BY <2>1, <2>2, <2>3 DEF AnswerInv
<1>7. CASE Die
  BY <1>1, <1>2, <1>3, <1>7 DEF Die, AnswerInv, pageVars
<1>8. ASSUME NEW r \in Req, Worker(r) PROVE AnswerInv'
  <2>1. PageInv' /\ StreamInv'
    BY <1>1, <1>2, <1>8 DEF Worker, HandleMessage, Start, LifecycleEnds, LifecycleTimesOut,
       Throws, ReadDecisions, WriteAwaiting, CreateWindow, CreateWindowFails,
       Listen, SettleByPoll, SettleByDeadline, Audit, Respond, Rejects, pageVars
  <2>2. CASE Listen(r)
    <3>1. Awaiting(IdOf[r]) \in Msg /\ ~Awaiting(IdOf[r]).ok
      BY MsgType DEF Awaiting
    <3>2. Post(r, Awaiting(IdOf[r]))
      BY <2>2 DEF Listen
    <3>3. PortInv'
      BY <1>0, <3>1, <3>2, AnswerPost
    <3> QED
      BY <2>1, <3>3 DEF AnswerInv
  <2>3. CASE Respond(r)
    <3>1. ok[r] \in BOOLEAN /\ Answer(IdOf[r], ok[r]) \in Msg
      BY MsgType DEF Inv, TypeOK
    <3>2. Post(r, Answer(IdOf[r], ok[r]))
      BY <2>3 DEF Respond
    <3>3. ok[r] => AnsweredYes(r)'
      BY <2>3 DEF Respond, AnsweredYes, Inv, GrantInv, OkInv, TypeOK
    <3>4. Answer(IdOf[r], ok[r]).ok => /\ Answer(IdOf[r], ok[r]).kind = "data"
                                       /\ \E q \in Req : /\ IdOf[q] = Answer(IdOf[r], ok[r]).id
                                                         /\ AnsweredYes(q)'
      BY <3>3 DEF Answer
    <3>5. PortInv'
      BY <1>0, <3>1, <3>2, <3>4, AnswerPost
    <3> QED
      BY <2>1, <3>5 DEF AnswerInv
  <2>4. CASE ~Listen(r) /\ ~Respond(r)
    BY <1>3, <1>8, <2>1, <2>4 DEF AnswerInv, Worker, HandleMessage, Start, LifecycleEnds,
       LifecycleTimesOut, Throws, ReadDecisions, WriteAwaiting, CreateWindow,
       CreateWindowFails, SettleByPoll, SettleByDeadline, Audit, Rejects
  <2> QED
    BY <2>2, <2>3, <2>4
<1>9. ASSUME NEW r \in Req, Window(r) PROVE AnswerInv'
  BY <1>1, <1>2, <1>3, <1>9 DEF AnswerInv, Window, CloseWindow, RemoveWindow, Press, ReplyWrite,
     ReplySend, Unload, WindowRemoved, UnloadWrite, pageVars
<1> QED
  BY <1>4, <1>5, <1>6, <1>7, <1>8, <1>9 DEF Next

-----------------------------------------------------------------------------
(* Grants *)

LEMMA GrantWorker ==
  ASSUME Inv, NEW r \in Req, Worker(r)
  PROVE  GrantInv'
<1> USE DEF Inv, TypeOK, GrantInv, OkInv, ChoiceInv, StoreInv, CopyInv, AskInv, GrantedId
<1>1. CASE HandleMessage(r) \/ Start(r)
  BY <1>1 DEF HandleMessage, Start, windowVars
<1>2. CASE LifecycleEnds(r)
  <2>1. PICK v \in Outcomes(KindOf[r]), shown \in BOOLEAN : Branch(r, v, shown)
    BY <1>2 DEF LifecycleEnds
  <2>2. OkInv' /\ AskInv'
    BY ZenonT(60), SMTT(30), <1>2, <2>1 DEF LifecycleEnds, Branch
  <2>3. ChoiceInv' /\ StoreInv' /\ CopyInv'
    BY <1>2, <2>1 DEF LifecycleEnds, Branch
  <2> QED
    BY <2>2, <2>3
<1>3. CASE LifecycleTimesOut(r)
  <2>1. PICK shown \in BOOLEAN : Branch(r, IF KindOf[r] = "venue" THEN "fail" ELSE "warn", shown)
    BY <1>3 DEF LifecycleTimesOut
  <2>2. OkInv' /\ AskInv'
    BY <1>3, <2>1 DEF LifecycleTimesOut, Branch
  <2>3. ChoiceInv' /\ StoreInv' /\ CopyInv'
    BY <1>3, <2>1 DEF LifecycleTimesOut, Branch
  <2> QED
    BY <2>2, <2>3
<1>4. CASE Throws(r)
  BY <1>4 DEF Throws, Empty, windowVars
<1>5. CASE ReadDecisions(r)
  BY <1>5 DEF ReadDecisions, windowVars
<1>6. CASE WriteAwaiting(r)
  BY <1>6 DEF WriteAwaiting, Empty, Map, windowVars
<1>7. CASE CreateWindow(r) \/ Listen(r) \/ Audit(r)
  <2>1. UNCHANGED <<ok, verdict, choice, session, snap, csnap, approved>>
    BY <1>7 DEF CreateWindow, Listen, Audit, windowVars
  <2>2. AskInv'
    BY <1>7, <2>1 DEF CreateWindow, Listen, Audit
  <2> QED
    BY <2>1, <2>2
<1>8. CASE CreateWindowFails(r) \/ SettleByPoll(r) \/ SettleByDeadline(r)
  <2>1. UNCHANGED <<verdict, choice, session, snap, csnap, approved>>
    BY <1>8 DEF CreateWindowFails, SettleByPoll, SettleByDeadline, windowVars
  <2>2. /\ \A q \in Req \ {r} : pc'[q] = pc[q] /\ ok'[q] = ok[q]
        /\ pc'[r] = "auditing"
        /\ ok'[r] => pc[r] = "waiting" /\ session[IdOf[r]] = "yes"
    <3>1. CASE CreateWindowFails(r)
      BY <3>1 DEF CreateWindowFails
    <3>2. CASE SettleByPoll(r)
      BY <3>2 DEF SettleByPoll, Settle
    <3>3. CASE SettleByDeadline(r)
      BY <3>3 DEF SettleByDeadline, Settle
    <3> QED
      BY <1>8, <3>1, <3>2, <3>3
  <2>3. OkInv' /\ AskInv'
    BY ZenonT(60), SMTT(30), <2>1, <2>2, GateAssumption
  <2>4. ChoiceInv' /\ StoreInv' /\ CopyInv'
    BY <2>1
  <2> QED
    BY <2>3, <2>4
<1>9. CASE Respond(r) \/ Rejects(r)
  BY <1>9 DEF Respond, Rejects, windowVars
<1> QED
  BY <1>1, <1>2, <1>3, <1>4, <1>5, <1>6, <1>7, <1>8, <1>9 DEF Worker

LEMMA GrantWindow ==
  ASSUME Inv, NEW r \in Req, Window(r)
  PROVE  GrantInv'
<1> USE DEF Inv, TypeOK, GrantInv, OkInv, ChoiceInv, StoreInv, CopyInv, AskInv, GrantedId
<1>1. ASSUME NEW b \in BOOLEAN, Press(r, b) PROVE GrantInv'
  BY <1>1 DEF Press, workerVars
<1>2. CASE ReplyWrite(r)
  <2>1. OkInv' /\ AskInv' /\ ChoiceInv'
    BY <1>2 DEF ReplyWrite, workerVars
  <2>2. CopyInv'
    BY <1>2 DEF ReplyWrite, workerVars, Empty
  <2>3. StoreInv'
    <3>1. \/ session' = session
          \/ session' = [csnap[r] EXCEPT ![IdOf[r]] = IF choice[r] THEN "yes" ELSE "no"]
      BY <1>2 DEF ReplyWrite
    <3>2. csnap[r] \in Map /\ approved' = approved
      BY <1>2 DEF ReplyWrite
    <3> QED
      BY <3>1, <3>2 DEF Map
  <2> QED
    BY <2>1, <2>2, <2>3
<1>3. CASE ReplySend(r)
  BY <1>3 DEF ReplySend, Settle
<1>4. CASE Unload(r)
  BY <1>4 DEF Unload, workerVars
<1>5. CASE WindowRemoved(r)
  BY <1>5 DEF WindowRemoved, Settle
<1>6. CASE UnloadWrite(r)
  <2>1. OkInv' /\ AskInv' /\ ChoiceInv'
    BY <1>6 DEF UnloadWrite, workerVars
  <2>2. CopyInv'
    BY <1>6 DEF UnloadWrite, workerVars, Empty
  <2>3. StoreInv'
    <3>1. session' = session \/ session' = [csnap[r] EXCEPT ![IdOf[r]] = "no"]
      BY <1>6 DEF UnloadWrite
    <3>2. csnap[r] \in Map /\ approved' = approved
      BY <1>6 DEF UnloadWrite
    <3> QED
      BY <3>1, <3>2 DEF Map
  <2> QED
    BY <2>1, <2>2, <2>3
<1> QED
  BY <1>1, <1>2, <1>3, <1>4, <1>5, <1>6 DEF Window, CloseWindow, RemoveWindow

LEMMA GrantNext ==
  ASSUME Inv, Next
  PROVE  GrantInv'
<1>0. ASSUME UNCHANGED <<workerVars, windowVars, session, approved>>
      PROVE  GrantInv'
  BY <1>0 DEF Inv, GrantInv, OkInv, ChoiceInv, StoreInv, CopyInv, AskInv, GrantedId,
     workerVars, windowVars
<1>1. ASSUME NEW r \in Req, Page(r) \/ Relay(r) PROVE GrantInv'
  <2>1. UNCHANGED <<workerVars, windowVars, session, approved>>
    BY <1>1 DEF Page, PageSend, PageTimeout, Relay, RelayConnect, RelayConnectFails,
       RelayReceive, RelayTimeout
  <2> QED
    BY <1>0, <2>1
<1>2. ASSUME NEW f \in Frames, PageReceive(f) PROVE GrantInv'
  BY <1>0, <1>2 DEF PageReceive
<1>3. CASE Die
  BY <1>3 DEF Inv, GrantInv, OkInv, ChoiceInv, StoreInv, CopyInv, AskInv, GrantedId, Die, windowVars, TypeOK, Empty, Live, Running
<1> QED
  BY <1>1, <1>2, <1>3, GrantWorker, GrantWindow DEF Next

-----------------------------------------------------------------------------
(* The theorems *)

LEMMA NextInv ==
  ASSUME Inv, [Next]_vars
  PROVE  Inv'
<1>1. CASE UNCHANGED vars
  BY <1>1 DEF vars, Inv, TypeOK, LockInv, InChain, AnswerInv, PageInv, StreamInv, PortInv,
     YesFor, AnsweredYes, GrantInv, OkInv, ChoiceInv, StoreInv, CopyInv, AskInv, GrantedId
<1>2. CASE Next
  <2>1. TypeOK'
    BY <1>2, TypePage, TypeReceive, TypeRelay, TypeWorker, TypeDie, TypeWindow DEF Next, Inv
  <2> QED
    BY <1>2, <2>1, LockNext, AnswerNext, GrantNext DEF Inv
<1> QED
  BY <1>1, <1>2

LEMMA InvHolds == Spec => []Inv
<1> QED
  BY InitInv, NextInv, PTL DEF Spec

\* Every variable of the gate keeps its shape, in particular the chains are
\* never popped when empty.
THEOREM TypeCorrect == Spec => []TypeOK
<1>1. Inv => TypeOK
  BY DEF Inv
<1> QED
  BY <1>1, InvHolds, PTL

\* The gate is fail-closed: whatever is lost, late, closed, failing or dead, a
\* request is forwarded only if a request with its id was passed or trusted.
THEOREM FailClosed == Spec => []ForwardedIsGranted
<1>1. Inv => ForwardedIsGranted
  BY DEF Inv, ForwardedIsGranted, AnswerInv, PageInv, YesFor, AnsweredYes, GrantInv, OkInv
<1> QED
  BY <1>1, InvHolds, PTL

\* The decisions of one actor never overlap (withActorLock).
THEOREM ActorMutex == Spec => []OneDecisionPerActor
<1>1. Inv => OneDecisionPerActor
  BY DEF Inv, OneDecisionPerActor, LockInv
<1> QED
  BY <1>1, InvHolds, PTL

UniqueIds == \A q, r \in Req : IdOf[q] = IdOf[r] => q = r

\* When no two requests have one id, a forwarded request was passed, or
\* trusted in its own window, itself.
THEOREM UniqueIdsOwnApproval ==
  ASSUME UniqueIds
  PROVE  Spec => []ForwardedIsOwn
<1>1. Inv => ForwardedIsOwn
  BY DEF Inv, TypeOK, ForwardedIsOwn, AnswerInv, PageInv, YesFor, AnsweredYes, GrantInv, OkInv,
     GrantedId, UniqueIds
<1> QED
  BY <1>1, InvHolds, PTL

\* When no two requests have one id, a warn is overridden only by a Trust pressed
\* in the request's own window (confirm/index.ts).
THEOREM UniqueIdsOwnTrust ==
  ASSUME UniqueIds
  PROVE  Spec => []TrustIsOwn
<1>1. Inv => TrustIsOwn
  BY DEF Inv, TypeOK, TrustIsOwn, GrantInv, OkInv, GrantedId, UniqueIds
<1> QED
  BY <1>1, InvHolds, PTL

\* When no two requests have one id, a denied request is not forwarded.
THEOREM UniqueIdsDenyBlocks ==
  ASSUME UniqueIds
  PROVE  Spec => []DenyBlocks
<1>1. Inv => DenyBlocks
  BY DEF Inv, DenyBlocks, AnswerInv, PageInv, YesFor, AnsweredYes, UniqueIds
<1> QED
  BY <1>1, InvHolds, PTL

-----------------------------------------------------------------------------
(* Refinement *)

\* What the page sees of a promise that changes, and of one that does not.
LEMMA AnswerFrame ==
  ASSUME UNCHANGED <<page, approved>>
  PROVE  UNCHANGED <<PageAnswer, GrantedIds>>
  BY DEF PageAnswer, GrantedIds

\* A new approval of r, with every promise as it was, is a grant of its id.
LEMMA ApprovalGrants ==
  ASSUME NEW r \in Req, page' = page, approved' = approved \cup {r}
  PROVE  Gate!Grant(IdOf[r])
<1>1. PageAnswer' = PageAnswer
  BY DEF PageAnswer
<1>2. GrantedIds' = GrantedIds \cup {IdOf[r]}
  BY DEF GrantedIds
<1> QED
  BY <1>1, <1>2 DEF Gate!Grant

\* Only a new page request, a settled promise or an approval shows.
LEMMA RefineNext ==
  ASSUME Inv, Next
  PROVE  [Gate!Next]_<<PageAnswer, GrantedIds>>
<1>0. ASSUME UNCHANGED <<page, approved>>
      PROVE  UNCHANGED <<PageAnswer, GrantedIds>>
  BY <1>0, AnswerFrame
<1>1. ASSUME NEW r \in Req, PageSend(r) PROVE Gate!Next
  <2>1. PageAnswer[r] = "none" /\ PageAnswer' = [PageAnswer EXCEPT ![r] = "pending"]
    BY <1>1 DEF PageSend, PageAnswer, Inv, TypeOK, Waiting
  <2>2. GrantedIds' = GrantedIds
    BY <1>1 DEF PageSend, GrantedIds
  <2> QED
    BY <2>1, <2>2 DEF Gate!Next, Gate!Ask
<1>2. ASSUME NEW r \in Req, PageTimeout(r) PROVE Gate!Next
  <2>1. PageAnswer[r] = "pending"
        /\ PageAnswer' = [q \in Req |-> IF q \in {r} THEN "rejected" ELSE PageAnswer[q]]
    BY <1>2 DEF PageTimeout, PageAnswer, Inv, TypeOK, Waiting
  <2>2. GrantedIds' = GrantedIds
    BY <1>2 DEF PageTimeout, GrantedIds
  <2>3. Gate!Reply({r}, "rejected")
    BY <2>1, <2>2 DEF Gate!Reply
  <2> QED
    BY <2>3 DEF Gate!Next
<1>3. ASSUME NEW f \in Frames, PageReceive(f) PROVE [Gate!Next]_<<PageAnswer, GrantedIds>>
  <2> DEFINE m == Head(stream[f])
             S == {r \in Req : FrameOf[r] = f /\ page[r] \in Waiting /\ IdOf[r] = m.id}
             v == IF m.ok THEN "allowed" ELSE "rejected"
  <2>0. GrantedIds' = GrantedIds
    BY <1>3 DEF PageReceive, GrantedIds
  <2>1. page' = [r \in Req |-> IF r \in S THEN IF m.kind = "awaiting" THEN "phase2" ELSE v
                                ELSE page[r]]
    BY <1>3 DEF PageReceive, Heard, Inv, TypeOK
  <2>2. CASE m.kind = "awaiting"
    <3>1. PageAnswer' = PageAnswer
      BY <2>1, <2>2 DEF PageAnswer, Waiting
    <3> QED
      BY <2>0, <3>1
  <2>3. CASE m.kind # "awaiting"
    <3>1. \A r \in S : PageAnswer[r] = "pending"
      BY DEF PageAnswer, Waiting
    <3>2. PageAnswer' = [r \in Req |-> IF r \in S THEN v ELSE PageAnswer[r]]
      BY <2>1, <2>3 DEF PageAnswer, Waiting
    <3>3. ASSUME NEW r \in S, v = "allowed" PROVE IdOf[r] \in GrantedIds
      <4>1. stream[f] \in Seq(Msg) /\ stream[f] # <<>>
        BY <1>3 DEF PageReceive, Inv, TypeOK
      <4>2. m = stream[f][1] /\ 1 \in 1 .. Len(stream[f])
        BY <4>1, TailFacts
      <4>3. YesFor(m.id)
        BY <3>3, <4>2 DEF Inv, AnswerInv, StreamInv
      <4>4. GrantedId(m.id)
        BY <4>3 DEF YesFor, AnsweredYes, Inv, GrantInv, OkInv
      <4> QED
        BY <4>4 DEF GrantedId, GrantedIds
    <3>4. \A q, r \in S : IdOf[q] = IdOf[r]
      OBVIOUS
    <3> HIDE DEF S, v
    <3>5. Gate!Reply(S, v)
      BY <2>0, <3>1, <3>2, <3>3, <3>4 DEF Gate!Reply
    <3>6. S \in SUBSET Req /\ v \in {"allowed", "rejected"}
      BY DEF S, v
    <3> QED
      BY <3>5, <3>6 DEF Gate!Next
  <2> QED
    BY <2>2, <2>3
<1>4. ASSUME NEW r \in Req, Relay(r) PROVE UNCHANGED <<PageAnswer, GrantedIds>>
  BY <1>0, <1>4 DEF Relay, RelayConnect, RelayConnectFails, RelayReceive, RelayTimeout
<1>5. ASSUME NEW r \in Req, page' = page, approved' = approved \cup {r} PROVE Gate!Next
  BY <1>5, ApprovalGrants DEF Gate!Next
<1>6. ASSUME NEW r \in Req, Worker(r)
      PROVE  page' = page /\ (approved' = approved \/ approved' = approved \cup {r})
  <2>1. CASE LifecycleEnds(r) \/ LifecycleTimesOut(r)
    BY <2>1 DEF LifecycleEnds, LifecycleTimesOut, Branch, pageVars
  <2>2. CASE ~(LifecycleEnds(r) \/ LifecycleTimesOut(r))
    BY <1>6, <2>2 DEF Worker, HandleMessage, Start, Throws, ReadDecisions,
       WriteAwaiting, CreateWindow, CreateWindowFails, Listen, SettleByPoll, SettleByDeadline,
       Audit, Respond, Rejects, pageVars
  <2> QED
    BY <2>1, <2>2
<1>7. ASSUME NEW r \in Req, Window(r)
      PROVE  page' = page /\ (approved' = approved \/ approved' = approved \cup {r})
  BY <1>7 DEF Window, CloseWindow, RemoveWindow, Press, ReplyWrite, ReplySend, Unload,
     WindowRemoved, UnloadWrite, pageVars
<1>8. CASE Die
  BY <1>0, <1>8 DEF Die, pageVars
<1> QED
  BY <1>0, <1>1, <1>2, <1>3, <1>4, <1>5, <1>6, <1>7, <1>8 DEF Next, Page

\* The distributed path implements the abstract gate: each promise settles
\* once, and with "allowed" only after a grant of its id.
THEOREM GateRefinement == Spec => RefinesApprovalGate
<1>1. Init => Gate!Init
  BY DEF Init, Gate!Init, PageAnswer, GrantedIds
<1>2. ASSUME Inv, [Next]_vars PROVE [Gate!Next]_<<PageAnswer, GrantedIds>>
  <2>1. CASE UNCHANGED vars
    BY <2>1, AnswerFrame DEF vars
  <2>2. CASE Next
    BY <1>2, <2>2, RefineNext
  <2> QED
    BY <1>2, <2>1, <2>2
<1> QED
  BY <1>1, <1>2, InvHolds, PTL DEF Spec, RefinesApprovalGate, Gate!Spec, Gate!vars

=============================================================================
