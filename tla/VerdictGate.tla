---------------------------- MODULE VerdictGate ----------------------------
(***************************************************************************)
(* The path of a wallet request from the page to its answer:               *)
(*                                                                         *)
(*   page proxy  --stream-->  content script  --port-->  service worker    *)
(*       ^                         |  ^                      |             *)
(*       +----- stream[frame] -----+  +------ port[r] -------+             *)
(*                                                                         *)
(* The service worker serialises the decisions of one actor, evaluates the *)
(* request, and for a warn verdict asks the user in a confirm window; the  *)
(* window and the worker share the map requests:pending-decisions of       *)
(* storage.session, which both update by a get followed by a set.  The     *)
(* worker may die at any moment: its memory is lost, storage.session and   *)
(* the windows stay.  Every await of the code is a step boundary here.     *)
(*                                                                         *)
(* The rows a decision leaves behind (pending, audit, verdicts, deltas)    *)
(* never influence an answer except by failing: see module DecisionLogs.   *)
(* How a lifecycle arrives at its verdict is module VerdictPipeline.  A    *)
(* definition named after another one (StartUnlocked, RelayTimeoutOpen)    *)
(* and put before it is a slip the properties are tried against.           *)
(***************************************************************************)
EXTENDS Naturals, Sequences, FiniteSets

CONSTANTS Req,        \* calls of sendToStreamAndAwaitResponse, and bypassed sightings
          Ids,        \* request ids: objectHash of the payload, so not unique per call
          Frames,     \* frames, each with its own post-message stream
          Actors,     \* lower-cased wallet addresses
          NoActor,    \* inferActor() = undefined
          IdOf, FrameOf, ActorOf, KindOf,
          Bypassed,   \* requests seen by bypass-check.ts: evaluated, never answered
          MaxDeaths,  \* bound on service-worker deaths
          Faulty      \* bound: requests whose browser calls (storage, windows.create) may reject

Kinds == {"tx", "typed", "untyped", "venue"}

ASSUME GateAssumption ==
  /\ IdOf \in [Req -> Ids]
  /\ FrameOf \in [Req -> Frames]
  /\ ActorOf \in [Req -> Actors \cup {NoActor}]
  /\ KindOf \in [Req -> Kinds]
  /\ NoActor \notin Actors
  /\ \A r \in Req : KindOf[r] \in {"untyped", "venue"} => ActorOf[r] = NoActor
  /\ Bypassed \subseteq Req
  /\ MaxDeaths \in Nat
  /\ Faulty \subseteq Req

VARIABLES
  page,      \* the proxy's promise: which timer is armed, or how it resolved
  relay,     \* the content script's port for the request
  stream,    \* stream[f]: messages from the content script to the page of frame f
  port,      \* port[r]: messages from the worker to the content script
  pc,        \* the await the worker's handler for r is at
  verdict,   \* the verdict decideInner holds for r
  ok,        \* the answer decideInner will return for r
  chain,     \* actorChain: the decisions of an actor, the running one first
  session,   \* storage.session["requests:pending-decisions"]: status per id
  snap,      \* the copy of session the worker's handler holds across get / set
  win,       \* the confirm window of r
  choice,    \* the button pressed in that window
  csnap,     \* the copy of session the window holds across get / set
  deaths,    \* service-worker deaths so far
  approved   \* history: requests that were passed, or trusted in their own window

pageVars    == <<page, relay, stream>>
workerVars  == <<pc, verdict, ok, chain, snap>>
windowVars  == <<win, choice, csnap>>
vars == <<page, relay, stream, port, pc, verdict, ok, chain, session,
          snap, win, choice, csnap, deaths, approved>>

-----------------------------------------------------------------------------
(* Shapes *)

Status  == {"absent", "awaiting", "yes", "no"}
Map     == [Ids -> Status]
Empty   == [i \in Ids |-> "absent"]

\* A response carries its id; a port is per request, a stream per frame.
Msg     == [id : Ids, kind : {"awaiting", "data"}, ok : BOOLEAN]
Awaiting(i)  == [id |-> i, kind |-> "awaiting", ok |-> FALSE]
Answer(i, b) == [id |-> i, kind |-> "data", ok |-> b]

Waiting    == {"phase1", "phase2"}
Settled    == {"allowed", "rejected"}
\* The awaits of decideInner, in order; "caught" is its catch block.
Running    == {"evaluating", "reading", "writing", "opening", "creating",
               "waiting", "auditing", "caught", "answering"}
Live       == Running \cup {"queued"}
PcStates   == Live \cup {"idle", "done", "dead"}
\* "open" asks (warn), "info" only explains (fail).
WinStates  == {"none", "open", "info", "replying", "replied", "sent",
               "unloading", "removed", "closed"}

TypeOK ==
  /\ page     \in [Req -> {"new"} \cup Waiting \cup Settled]
  /\ relay    \in [Req -> {"none", "closed", "failed"} \cup Waiting]
  /\ stream   \in [Frames -> Seq(Msg)]
  /\ port     \in [Req -> Seq(Msg)]
  /\ pc       \in [Req -> PcStates]
  /\ verdict  \in [Req -> {"none", "pass", "warn", "fail"}]
  /\ ok       \in [Req -> BOOLEAN]
  /\ chain    \in [Actors -> Seq(Req)]
  /\ session  \in Map
  /\ snap     \in [Req -> Map]
  /\ win      \in [Req -> WinStates]
  /\ choice   \in [Req -> BOOLEAN]
  /\ csnap    \in [Req -> Map]
  /\ deaths   \in 0 .. MaxDeaths
  /\ approved \subseteq Req

Init ==
  /\ page     = [r \in Req |-> "new"]
  /\ relay    = [r \in Req |-> "none"]
  /\ stream   = [f \in Frames |-> <<>>]
  /\ port     = [r \in Req |-> <<>>]
  /\ pc       = [r \in Req |-> "idle"]
  /\ verdict  = [r \in Req |-> "none"]
  /\ ok       = [r \in Req |-> FALSE]
  /\ chain    = [a \in Actors |-> <<>>]
  /\ session  = Empty
  /\ snap     = [r \in Req |-> Empty]
  /\ win      = [r \in Req |-> "none"]
  /\ choice   = [r \in Req |-> FALSE]
  /\ csnap    = [r \in Req |-> Empty]
  /\ deaths   = 0
  /\ approved = {}

-----------------------------------------------------------------------------
(* The page: sendToStreamAndAwaitResponse *)

\* Register the listener, arm PHASE1 and write the request to the stream.
PageSend(r) ==
  /\ r \notin Bypassed
  /\ page[r] = "new"
  /\ page' = [page EXCEPT ![r] = "phase1"]
  /\ UNCHANGED <<relay, stream, port, workerVars, session, windowVars, deaths, approved>>

\* The armed timer fires: finish(false).
PageTimeout(r) ==
  /\ page[r] \in Waiting
  /\ page' = [page EXCEPT ![r] = "rejected"]
  /\ UNCHANGED <<relay, stream, port, workerVars, session, windowVars, deaths, approved>>

\* How a message of the stream moves the promise of a request of that frame:
\* every listener of the frame sees it and the ones with its id react.
Heard(r, m) == IF page[r] \in Waiting /\ IdOf[r] = m.id
               THEN IF m.kind = "awaiting" THEN "phase2"
                    ELSE IF m.ok THEN "allowed" ELSE "rejected"
               ELSE page[r]

PageReceive(f) ==
  /\ stream[f] # <<>>
  /\ stream' = [stream EXCEPT ![f] = Tail(@)]
  /\ page' = [r \in Req |-> IF FrameOf[r] = f THEN Heard(r, Head(stream[f])) ELSE page[r]]
  /\ UNCHANGED <<relay, port, workerVars, session, windowVars, deaths, approved>>

-----------------------------------------------------------------------------
(* The content script: the stream handler and sendToPortAndAwaitResponse *)

Write(r, m) == stream' = [stream EXCEPT ![FrameOf[r]] = Append(@, m)]

\* The request arrives, also when the page gave up meanwhile; connect a port.
RelayConnect(r) ==
  /\ page[r] # "new" /\ relay[r] = "none"
  /\ relay' = [relay EXCEPT ![r] = "phase1"]
  /\ UNCHANGED <<page, stream, port, workerVars, session, windowVars, deaths, approved>>

\* runtime.connect throws (extension reloaded): fail closed.
RelayConnectFails(r) ==
  /\ page[r] # "new" /\ relay[r] = "none"
  /\ relay' = [relay EXCEPT ![r] = "failed"]
  /\ Write(r, Answer(IdOf[r], FALSE))
  /\ UNCHANGED <<page, port, workerVars, session, windowVars, deaths, approved>>

\* awaiting-user re-arms the timer and is passed on; the answer is passed on
\* and the port is disconnected, which drops what it may still hold.
RelayReceive(r) ==
  /\ relay[r] \in Waiting /\ port[r] # <<>>
  /\ Write(r, Head(port[r]))
  /\ relay' = [relay EXCEPT ![r] = IF Head(port[r]).kind = "awaiting" THEN "phase2" ELSE "closed"]
  /\ port' = [port EXCEPT ![r] = IF Head(port[r]).kind = "awaiting" THEN Tail(@) ELSE <<>>]
  /\ UNCHANGED <<page, workerVars, session, windowVars, deaths, approved>>

\* A relay whose timer approves instead of failing closed.
RelayTimeoutOpen(r) ==
  /\ relay[r] \in Waiting
  /\ relay' = [relay EXCEPT ![r] = "closed"]
  /\ port' = [port EXCEPT ![r] = <<>>]
  /\ Write(r, Answer(IdOf[r], TRUE))
  /\ UNCHANGED <<page, workerVars, session, windowVars, deaths, approved>>

\* The timer fires: answer false and disconnect.
RelayTimeout(r) ==
  /\ relay[r] \in Waiting
  /\ relay' = [relay EXCEPT ![r] = "closed"]
  /\ port' = [port EXCEPT ![r] = <<>>]
  /\ Write(r, Answer(IdOf[r], FALSE))
  /\ UNCHANGED <<page, workerVars, session, windowVars, deaths, approved>>

-----------------------------------------------------------------------------
(* The service worker: handleMessage, withActorLock, decideInner *)

\* port.postMessage; it throws, and the throw is swallowed, on a closed port.
Post(r, m) == port' = IF relay[r] \in Waiting /\ r \notin Bypassed
                      THEN [port EXCEPT ![r] = Append(@, m)]
                      ELSE port

\* decideInner is over: the promise of the chain settles and the next may run.
\* (actorChain keeps the settled promise as its tail; it blocks nobody.)
Unlock(r) == chain' = IF ActorOf[r] = NoActor THEN chain
                      ELSE [chain EXCEPT ![ActorOf[r]] = Tail(@)]

\* The message reaches the worker.  A bypassed sighting comes straight from
\* bypass-check.ts, without a page promise or a relay.
HandleMessage(r) ==
  /\ pc[r] = "idle"
  /\ r \in Bypassed \/ relay[r] \in Waiting \cup {"closed"}
  /\ pc' = [pc EXCEPT ![r] = "queued"]
  /\ chain' = IF ActorOf[r] = NoActor THEN chain
              ELSE [chain EXCEPT ![ActorOf[r]] = Append(@, r)]
  /\ UNCHANGED <<pageVars, port, verdict, ok, snap, session, windowVars, deaths, approved>>

HasLock(r) == ActorOf[r] # NoActor => Head(chain[ActorOf[r]]) = r

\* Starting without waiting for the previous decision of the actor.
StartUnlocked(r) ==
  /\ pc[r] = "queued"
  /\ pc' = [pc EXCEPT ![r] = "evaluating"]
  /\ UNCHANGED <<pageVars, port, verdict, ok, chain, snap, session, windowVars, deaths, approved>>

\* pendingPut, then runLifecycle starts.
Start(r) ==
  /\ pc[r] = "queued" /\ HasLock(r)
  /\ pc' = [pc EXCEPT ![r] = "evaluating"]
  /\ UNCHANGED <<pageVars, port, verdict, ok, chain, snap, session, windowVars, deaths, approved>>

\* What becomes of a verdict: pass answers, fail shows a window and answers
\* (a failing windows.create is swallowed), warn goes on to ask the user.
Branch(r, v, shown) ==
  /\ verdict' = [verdict EXCEPT ![r] = v]
  /\ ok' = [ok EXCEPT ![r] = (v = "pass")]
  /\ pc' = [pc EXCEPT ![r] = IF v = "warn" THEN "reading" ELSE "auditing"]
  /\ win' = [win EXCEPT ![r] = IF v = "fail" /\ shown THEN "info" ELSE @]
  /\ approved' = IF v = "pass" THEN approved \cup {r} ELSE approved

\* The verdicts runLifecycle can return for a kind of request.
Outcomes(k) == IF k = "untyped" THEN {"warn"} ELSE {"pass", "warn", "fail"}

LifecycleEnds(r) ==
  /\ pc[r] = "evaluating"
  /\ \E v \in Outcomes(KindOf[r]), shown \in BOOLEAN : Branch(r, v, shown)
  /\ UNCHANGED <<pageVars, port, chain, snap, session, choice, csnap, deaths>>

\* HARD_TIMEOUT_MS wins the race: a venue order is denied, anything else becomes
\* an approvable warn.  The lifecycle runs on, but nobody looks at its verdict
\* (what it may still record is Simulate of module DecisionLogs).
LifecycleTimesOut(r) ==
  /\ pc[r] = "evaluating"
  /\ \E shown \in BOOLEAN :
        Branch(r, IF KindOf[r] = "venue" THEN "fail" ELSE "warn", shown)
  /\ UNCHANGED <<pageVars, port, chain, snap, session, choice, csnap, deaths>>

\* A catch block that keeps the answer of the try block.
ThrowsKeepsAnswer(r) ==
  /\ r \in Faulty /\ pc[r] \in {"evaluating", "reading", "writing", "auditing"}
  /\ pc' = [pc EXCEPT ![r] = "caught"]
  /\ verdict' = [verdict EXCEPT ![r] = "fail"]
  /\ snap' = [snap EXCEPT ![r] = Empty]
  /\ UNCHANGED <<pageVars, port, ok, chain, session, windowVars, deaths, approved>>

\* runLifecycle, a storage call or the audit throws: engineErrorVerdict.  The
\* errors that can get here are no EngineError (those are fenced inside the
\* lifecycle), so the verdict is always fail.
Throws(r) ==
  /\ r \in Faulty /\ pc[r] \in {"evaluating", "reading", "writing", "auditing"}
  /\ pc' = [pc EXCEPT ![r] = "caught"]
  /\ verdict' = [verdict EXCEPT ![r] = "fail"]
  /\ ok' = [ok EXCEPT ![r] = FALSE]
  /\ snap' = [snap EXCEPT ![r] = Empty]
  /\ UNCHANGED <<pageVars, port, chain, session, windowVars, deaths, approved>>

-----------------------------------------------------------------------------
(* openVerdictWindowAndAwait *)

ReadDecisions(r) ==
  /\ pc[r] = "reading"
  /\ pc' = [pc EXCEPT ![r] = "writing"]
  /\ snap' = [snap EXCEPT ![r] = session]
  /\ UNCHANGED <<pageVars, port, verdict, ok, chain, session, windowVars, deaths, approved>>

WriteAwaiting(r) ==
  /\ pc[r] = "writing"
  /\ pc' = [pc EXCEPT ![r] = "opening"]
  /\ session' = [snap[r] EXCEPT ![IdOf[r]] = "awaiting"]
  /\ snap' = [snap EXCEPT ![r] = Empty]
  /\ UNCHANGED <<pageVars, port, verdict, ok, chain, windowVars, deaths, approved>>

\* The window appears before windows.create resolves in the worker.
CreateWindow(r) ==
  /\ pc[r] = "opening"
  /\ pc' = [pc EXCEPT ![r] = "creating"]
  /\ win' = [win EXCEPT ![r] = "open"]
  /\ UNCHANGED <<pageVars, port, verdict, ok, chain, snap, session, choice, csnap, deaths, approved>>

\* windows.create throws: return false.
CreateWindowFails(r) ==
  /\ r \in Faulty /\ pc[r] = "opening"
  /\ pc' = [pc EXCEPT ![r] = "auditing"]
  /\ ok' = [ok EXCEPT ![r] = FALSE]
  /\ UNCHANGED <<pageVars, port, verdict, chain, snap, session, windowVars, deaths, approved>>

\* The listeners and the poll are installed and onAwaitingUser is called.
Listen(r) ==
  /\ pc[r] = "creating"
  /\ pc' = [pc EXCEPT ![r] = "waiting"]
  /\ Post(r, Awaiting(IdOf[r]))
  /\ UNCHANGED <<pageVars, verdict, ok, chain, snap, session, windowVars, deaths, approved>>

\* settle() of every request of S: the first call of each wins, its listeners
\* are removed (and its window is removed: see RemoveWindow).
Settle(S, b) ==
  /\ pc' = [r \in Req |-> IF r \in S THEN "auditing" ELSE pc[r]]
  /\ ok' = [r \in Req |-> IF r \in S THEN b ELSE ok[r]]

\* The 250 ms poll finds a decision in storage.session.
SettleByPoll(r) ==
  /\ pc[r] = "waiting" /\ session[IdOf[r]] \in {"yes", "no"}
  /\ Settle({r}, session[IdOf[r]] = "yes")
  /\ UNCHANGED <<pageVars, port, verdict, chain, snap, session, windowVars, deaths, approved>>

\* A deadline that approves.
SettleByDeadlineOpen(r) ==
  /\ pc[r] = "waiting"
  /\ Settle({r}, TRUE)
  /\ UNCHANGED <<pageVars, port, verdict, chain, snap, session, windowVars, deaths, approved>>

\* POLL_DEADLINE_MS passed.
SettleByDeadline(r) ==
  /\ pc[r] = "waiting"
  /\ Settle({r}, FALSE)
  /\ UNCHANGED <<pageVars, port, verdict, chain, snap, session, windowVars, deaths, approved>>

-----------------------------------------------------------------------------
(* The tail of decideInner, and handleMessage after it *)

\* appendAudit succeeded, in the try block or in the catch block.
Audit(r) ==
  /\ pc[r] \in {"auditing", "caught"}
  /\ pc' = [pc EXCEPT ![r] = "answering"]
  /\ UNCHANGED <<pageVars, port, verdict, ok, chain, snap, session, windowVars, deaths, approved>>

\* pendingDelete succeeded: decideMessage resolves, the answer is posted.
Respond(r) ==
  /\ pc[r] = "answering"
  /\ pc' = [pc EXCEPT ![r] = "done"]
  /\ Unlock(r)
  /\ Post(r, Answer(IdOf[r], ok[r]))
  /\ UNCHANGED <<pageVars, verdict, ok, snap, session, windowVars, deaths, approved>>

\* A rejection that keeps the actor's lock.
RejectsLocked(r) ==
  /\ r \in Faulty
  /\ pc[r] \in {"caught", "answering"} \/ (pc[r] = "queued" /\ HasLock(r))
  /\ pc' = [pc EXCEPT ![r] = "done"]
  /\ UNCHANGED <<pageVars, port, verdict, ok, chain, snap, session, windowVars, deaths, approved>>

\* pendingPut, the audit of the catch block or pendingDelete throws:
\* decideMessage rejects and nothing is posted.
Rejects(r) ==
  /\ r \in Faulty
  /\ pc[r] \in {"caught", "answering"} \/ (pc[r] = "queued" /\ HasLock(r))
  /\ pc' = [pc EXCEPT ![r] = "done"]
  /\ Unlock(r)
  /\ UNCHANGED <<pageVars, port, verdict, ok, snap, session, windowVars, deaths, approved>>

\* The worker is terminated; the next event starts a fresh one.
Die ==
  /\ deaths < MaxDeaths
  /\ deaths' = deaths + 1
  /\ pc' = [r \in Req |-> IF pc[r] \in Live THEN "dead" ELSE pc[r]]
  /\ chain' = [a \in Actors |-> <<>>]
  /\ snap' = [r \in Req |-> Empty]
  /\ UNCHANGED <<pageVars, port, verdict, ok, session, windowVars, approved>>

-----------------------------------------------------------------------------
(* The confirm window: frontend/confirm/index.ts *)

\* A button is pressed ("Trust and proceed" exists for warn verdicts only):
\* reply(b) gets the map.
Press(r, b) ==
  /\ win[r] = "open" \/ (win[r] = "info" /\ ~b)
  /\ win' = [win EXCEPT ![r] = "replying"]
  /\ choice' = [choice EXCEPT ![r] = b]
  /\ csnap' = [csnap EXCEPT ![r] = session]
  /\ approved' = IF b THEN approved \cup {r} ELSE approved
  /\ UNCHANGED <<pageVars, port, workerVars, session, deaths>>

\* reply sets the map, if it holds an entry for the id; a failing set is swallowed.
ReplyWrite(r) ==
  /\ win[r] = "replying"
  /\ win' = [win EXCEPT ![r] = "replied"]
  /\ \/ /\ csnap[r][IdOf[r]] # "absent"
        /\ session' = [csnap[r] EXCEPT ![IdOf[r]] = IF choice[r] THEN "yes" ELSE "no"]
     \/ /\ csnap[r][IdOf[r]] = "absent" \/ r \in Faulty
        /\ session' = session
  /\ csnap' = [csnap EXCEPT ![r] = Empty]
  /\ UNCHANGED <<pageVars, port, workerVars, choice, deaths, approved>>

\* reply sends verdict-decision: every waiting listener of that id settles.
\* reply awaits the delivery, so the window closes only afterwards.
ReplySend(r) ==
  /\ win[r] = "replied"
  /\ win' = [win EXCEPT ![r] = "sent"]
  /\ Settle({q \in Req : pc[q] = "waiting" /\ IdOf[q] = IdOf[r]}, choice[r])
  /\ UNCHANGED <<pageVars, port, verdict, chain, snap, session, choice, csnap, deaths, approved>>

\* beforeunload gets the map.
Unload(r) ==
  /\ win[r] \in {"open", "info", "replying", "replied", "sent"}
  /\ win' = [win EXCEPT ![r] = "unloading"]
  /\ csnap' = [csnap EXCEPT ![r] = session]
  /\ UNCHANGED <<pageVars, port, workerVars, session, choice, deaths, approved>>

\* The user closes the window.
CloseWindow(r) == Unload(r)

\* window.close() ends reply; windows.remove() ends settle.
RemoveWindow(r) ==
  /\ win[r] = "sent" \/ (win[r] = "open" /\ pc[r] \in {"auditing", "caught", "answering", "done"})
  /\ Unload(r)

\* windows.onRemoved: missed when the worker does not listen yet.
WindowRemoved(r) ==
  /\ win[r] = "unloading"
  /\ win' = [win EXCEPT ![r] = "removed"]
  /\ Settle({q \in {r} : pc[q] = "waiting"}, FALSE)
  /\ UNCHANGED <<pageVars, port, verdict, chain, snap, session, choice, csnap, deaths, approved>>

\* The set of beforeunload lands (or the page was gone too soon for it).
UnloadWrite(r) ==
  /\ win[r] = "removed"
  /\ win' = [win EXCEPT ![r] = "closed"]
  /\ session' \in IF csnap[r][IdOf[r]] = "awaiting"
                  THEN {session, [csnap[r] EXCEPT ![IdOf[r]] = "no"]}
                  ELSE {session}
  /\ csnap' = [csnap EXCEPT ![r] = Empty]
  /\ UNCHANGED <<pageVars, port, workerVars, choice, deaths, approved>>

-----------------------------------------------------------------------------
Page(r)    == PageSend(r) \/ PageTimeout(r)
Relay(r)   == RelayConnect(r) \/ RelayConnectFails(r) \/ RelayReceive(r) \/ RelayTimeout(r)
Worker(r)  == \/ HandleMessage(r) \/ Start(r)
              \/ LifecycleEnds(r) \/ LifecycleTimesOut(r)
              \/ Throws(r) \/ ReadDecisions(r) \/ WriteAwaiting(r)
              \/ CreateWindow(r) \/ CreateWindowFails(r) \/ Listen(r)
              \/ SettleByPoll(r) \/ SettleByDeadline(r)
              \/ Audit(r) \/ Respond(r) \/ Rejects(r)
Window(r)  == \/ (\E b \in BOOLEAN : Press(r, b))
              \/ ReplyWrite(r) \/ ReplySend(r)
              \/ CloseWindow(r) \/ RemoveWindow(r) \/ WindowRemoved(r) \/ UnloadWrite(r)

Next == \/ \E r \in Req : Page(r) \/ Relay(r) \/ Worker(r) \/ Window(r)
        \/ \E f \in Frames : PageReceive(f)
        \/ Die

Spec == Init /\ [][Next]_vars
-----------------------------------------------------------------------------
(* Safety *)

GrantedId(i) == \E q \in approved : IdOf[q] = i

\* The page forwards a request to the wallet only if a lifecycle passed a
\* request with that id or the user pressed Trust for one: no timeout, lost
\* message, closed window, failing call or dead worker ever turns into an
\* approval (the fail-closed branches of messages.ts, the content script and
\* decideInner taken together).
ForwardedIsGranted == \A r \in Req : page[r] = "allowed" => GrantedId(IdOf[r])

\* The stronger reading of "open the modal and await the user's choice": the
\* approval was given to this very request.
ForwardedIsOwn == \A r \in Req : page[r] = "allowed" => r \in approved

\* The worker's half of it: a warn is overridden only by a Trust pressed in
\* the window of this request.
TrustIsOwn == \A r \in Req : verdict[r] = "warn" /\ ok[r] => r \in approved

\* A request whose decision ended in a deny (engine deny, venue timeout, or a
\* throw after the user already pressed Trust) is not forwarded.
DenyBlocks == \A r \in Req : verdict[r] = "fail" => page[r] # "allowed"

\* withActorLock: the decisions of one actor never overlap.
OneDecisionPerActor ==
  \A q, r \in Req : q # r /\ ActorOf[q] = ActorOf[r] /\ ActorOf[r] # NoActor
                    => ~(pc[q] \in Running /\ pc[r] \in Running)

(* Refinement *)

\* What the page sees of the proxy's promises, and the ids granted so far.
PageAnswer == [r \in Req |-> IF page[r] = "new" THEN "none"
                             ELSE IF page[r] \in Waiting THEN "pending" ELSE page[r]]
GrantedIds == {IdOf[q] : q \in approved}
Gate == INSTANCE ApprovalGate WITH answer <- PageAnswer, grants <- GrantedIds

\* The path through content script, worker and window implements the promise
\* made to the page: a promise settles once and for all (finish() of messages.ts),
\* with "allowed" only once a request with its id has been granted, and one
\* message settles requests of one id only (onData compares the ids).
RefinesApprovalGate == Gate!Spec

(* An action property *)

\* While a request awaits a user who has not pressed Trust, its persisted
\* status turns to "yes" only by the step in which a window of its id stores
\* a Trust (confirm/index.ts: the poll reads the persisted decision).
AwaitingTurnsYesByReply ==
  [][\A r \in Req :
        /\ pc[r] = "waiting" /\ r \notin approved
        /\ session[IdOf[r]] = "awaiting" /\ session'[IdOf[r]] = "yes"
        => \E q \in Req : /\ IdOf[q] = IdOf[r] /\ choice[q]
                          /\ win[q] = "replying" /\ win'[q] = "replied"]_vars

(* Liveness *)

\* The worker's timers and browser calls return; the user, the page and the
\* death of the worker are not assumed to do anything.
Fairness == \A r \in Req : WF_vars(Worker(r)) /\ WF_vars(ReplyWrite(r)) /\ WF_vars(ReplySend(r))
FairSpec == Spec /\ Fairness

\* Every request the worker took up is decided, whatever waits in front of it
\* on its actor's chain and whether or not the user reacts.
DecisionEnds == \A r \in Req : pc[r] = "queued" ~> pc[r] \in {"done", "dead"}

\* What the comment on openVerdictWindowAndAwait says of a restart: a decision
\* the user persisted is answered.
DecisionSurvivesRestart ==
  \A r \in Req : (win[r] = "replied" /\ choice[r]) ~> pc[r] = "done"

-----------------------------------------------------------------------------
(* The inductive invariant behind the safety properties *)

\* The lock: a live decision stands in its actor's chain, a running one first.
InChain(r) == \E i \in 1 .. Len(chain[ActorOf[r]]) : chain[ActorOf[r]][i] = r
LockInv ==
  \A r \in Req : ActorOf[r] # NoActor =>
     /\ pc[r] \in Live => InChain(r)
     /\ pc[r] \in Running => chain[ActorOf[r]][1] = r

\* q's decision is over and was to allow.
AnsweredYes(q) == pc[q] = "done" /\ ok[q] /\ verdict[q] # "fail"
YesFor(i) == \E q \in Req : IdOf[q] = i /\ AnsweredYes(q)

\* Every positive answer on its way, or arrived, was given by the worker.
PageInv   == \A r \in Req : page[r] = "allowed" => YesFor(IdOf[r])
StreamInv == \A f \in Frames : \A i \in 1 .. Len(stream[f]) :
               stream[f][i].ok => stream[f][i].kind = "data" /\ YesFor(stream[f][i].id)
PortInv   == \A r \in Req : \A i \in 1 .. Len(port[r]) :
               port[r][i].ok => port[r][i].kind = "data" /\ YesFor(port[r][i].id)
AnswerInv == PageInv /\ StreamInv /\ PortInv

\* Every positive decision, stored, copied or taken, goes back to a grant.
OkInv     == \A r \in Req : ok[r] => GrantedId(IdOf[r]) /\ verdict[r] # "fail"
ChoiceInv == \A r \in Req : choice[r] => r \in approved
StoreInv  == \A i \in Ids : session[i] = "yes" => GrantedId(i)
CopyInv   == \A r \in Req, i \in Ids : snap[r][i] = "yes" \/ csnap[r][i] = "yes" => GrantedId(i)
AskInv    == \A r \in Req : pc[r] \in {"reading", "writing", "opening", "creating", "waiting"}
                            => verdict[r] = "warn"
GrantInv  == OkInv /\ ChoiceInv /\ StoreInv /\ CopyInv /\ AskInv

Inv == TypeOK /\ LockInv /\ AnswerInv /\ GrantInv

=============================================================================
