---------------------------- MODULE DesktopProofs ----------------------------
(***************************************************************************)
(* Theorems of Supervisor, for any set of requests and any number of       *)
(* processes, and of Campaign, for any number of jobs and of thread names. *)
(* The two share no state: neither's variables occur in the other's part.  *)
(***************************************************************************)
EXTENDS Supervisor, Campaign, TLAPS

-----------------------------------------------------------------------------
\* The supervisor

\* The piece of work in progress is where its kind can be, and has a process to talk to.
WorkPlaced ==
  /\ work.at \in {"stopping", "spawning"} => work.slot = "cur" /\ work.op # "none"
  /\ work.at = "spawning" => work.op # "shutdown"
  /\ work.op = "call" => work.call # None
  /\ work.slot = "next" => client.next.child # None /\ proc[client.next.child].life # "none"

\* What is to be replaced has been stopped, and a call or the startup never stops a blocked backend.
StoppedBefore ==
  /\ work.at = "spawning" => proc[client.cur.child].life = "exited"
  /\ work.at = "waiting" => client[work.slot].blocked = "none"
  /\ work.at \in {"stopping", "spawning"} /\ work.op # "retry" => work.op = "shutdown" \/ client.cur.blocked = "none"

\* Only a safe call goes on once its first attempt failed.
OnlySafeGoOn ==
  work.op = "call" /\ (work.again \/ work.slot = "next" \/ work.at \in {"stopping", "spawning", "discarding"})
    => work.call \in Safe

\* What a backend has executed is the first request of its inbox.
FirstExecuted == \A p \in Procs : proc[p].executed => proc[p].inbox # <<>>

HostInv == SupervisorTypeOK /\ WorkPlaced /\ StoppedBefore /\ OnlySafeGoOn /\ FirstExecuted

Holds(p, i, c) == i \in DOMAIN proc[p].inbox /\ proc[p].inbox[i] = c

\* Nobody has heard of the request.
Unheard(c) == ran[c] = 0 /\ \A p \in Procs : \A i \in Nat : ~Holds(p, i, c)

\* An unsafe request is in one place: still to be sent, in an inbox, or executed, once.
InOnePlace(c) ==
  /\ c \notin sent => Unheard(c) /\ work.call # c
  /\ work.op = "call" /\ work.call = c /\ work.at = "sending" => Unheard(c)
  /\ \A p, q \in Procs : \A i, j \in Nat : Holds(p, i, c) /\ Holds(q, j, c) => p = q /\ i = j
  /\ \A p \in Procs : \A i \in Nat : Holds(p, i, c) => ran[c] = 0 \/ (i = 1 /\ proc[p].executed)
  /\ ran[c] <= 1

-----------------------------------------------------------------------------
\* The host's side of a step: clients and work keep their types and what HostInv says of them.
HostNow ==
  /\ client \in [cur : Clients, next : Clients]
  /\ client.cur.child # None
  /\ work \in Works

LEMMA FinishKeeps ==
  ASSUME HostInv, NEW rec \in Clients, rec.child # None, proc'[rec.child].life # "none", Finish(rec)
  PROVE  HostNow' /\ WorkPlaced' /\ StoppedBefore' /\ OnlySafeGoOn' /\ proc'[client'.cur.child].life # "none"
  <1>1. Fresh(None) \in Clients /\ NoWork \in Works
    BY DEF Fresh, Clients, NoWork, Works, Reasons, Ops
  <1>2. client' = [cur |-> rec, next |-> Fresh(None)] /\ work' = NoWork
    BY DEF Finish
  <1>3. client'.cur = rec /\ work'.at = "idle" /\ work'.slot = "cur" /\ work'.op = "none"
    BY <1>2 DEF NoWork
  <1> QED BY <1>1, <1>2, <1>3 DEF HostNow, WorkPlaced, StoppedBefore, OnlySafeGoOn

\* What a returning call_once leaves behind, whatever its result and whoever called it.
LEMMA ReturnedKeeps ==
  ASSUME HostInv, NEW rec \in Clients, NEW result \in {"ok", "final", "restartable"},
         rec.child = client[work.slot].child,
         work.at \in {"sending", "waiting"},
         result = "restartable" => rec.blocked = "none",
         \A p \in Procs : proc'[p].life = proc[p].life,
         Returned(result, rec)
  PROVE  HostNow' /\ WorkPlaced' /\ StoppedBefore' /\ OnlySafeGoOn' /\ proc'[client'.cur.child].life # "none"
  <1> USE DEF HostInv
  <1>1. client \in [cur : Clients, next : Clients] /\ work \in Works /\ work.slot \in {"cur", "next"}
    BY DEF SupervisorTypeOK, Works
  <1>2. rec.child # None /\ rec.child \in Procs /\ proc[rec.child].life # "none"
    BY <1>1 DEF SupervisorTypeOK, WorkPlaced, Clients
  <1>3. proc'[rec.child].life # "none"
    BY <1>2
  <1>4. client.cur.child \in Procs /\ proc'[client.cur.child].life # "none"
    BY <1>1 DEF SupervisorTypeOK, Clients
  <1>5. /\ Lost(rec) \in Clients /\ Lost(rec).child = rec.child
        /\ [rec EXCEPT !.degraded = FALSE] \in Clients /\ [rec EXCEPT !.degraded = FALSE].child = rec.child
    BY DEF Lost, Clients
  <1>6. ASSUME Finish(rec) \/ Finish(Lost(rec)) \/ Finish([rec EXCEPT !.degraded = FALSE])
        PROVE  HostNow' /\ WorkPlaced' /\ StoppedBefore' /\ OnlySafeGoOn' /\ proc'[client'.cur.child].life # "none"
    BY <1>2, <1>3, <1>5, <1>6, FinishKeeps
  <1>7. ASSUME Continue("cur", rec, "stopping"), work.slot = "cur", work.op # "none", rec.blocked = "none",
               work.op = "call" => work.call \in Safe
        PROVE  HostNow' /\ WorkPlaced' /\ StoppedBefore' /\ OnlySafeGoOn' /\ proc'[client'.cur.child].life # "none"
    <2>1. client' = [client EXCEPT !.cur = rec] /\ work' = [work EXCEPT !.at = "stopping"]
      BY <1>7, <1>1 DEF Continue
    <2>2. client' \in [cur : Clients, next : Clients] /\ client'.cur = rec
      BY <2>1, <1>1
    <2>3. work' \in Works /\ work'.at = "stopping" /\ work'.slot = "cur" /\ work'.op = work.op /\ work'.call = work.call
      BY <2>1, <1>1, <1>7 DEF Works
    <2> QED BY <2>2, <2>3, <1>2, <1>3, <1>7 DEF HostNow, WorkPlaced, StoppedBefore, OnlySafeGoOn
  <1>8. ASSUME Continue("next", rec, "discarding"), work.slot = "next"
        PROVE  HostNow' /\ WorkPlaced' /\ StoppedBefore' /\ OnlySafeGoOn' /\ proc'[client'.cur.child].life # "none"
    <2>1. client' = [client EXCEPT !.next = rec] /\ work' = [work EXCEPT !.at = "discarding"]
      BY <1>8, <1>1 DEF Continue
    <2>2. client' \in [cur : Clients, next : Clients] /\ client'.cur = client.cur /\ client'.next = rec
      BY <2>1, <1>1
    <2>3. /\ work' \in Works /\ work'.at = "discarding" /\ work'.slot = "next"
          /\ work'.op = work.op /\ work'.call = work.call
      BY <2>1, <1>1, <1>8 DEF Works
    <2>4. work.op = "call" => work.call \in Safe
      BY <1>8 DEF OnlySafeGoOn
    <2>5. client.cur.child # None
      BY DEF SupervisorTypeOK
    <2> QED BY <2>2, <2>3, <2>4, <2>5, <1>2, <1>3, <1>4 DEF HostNow, WorkPlaced, StoppedBefore, OnlySafeGoOn
  <1>9. ASSUME work.op = "call", work.slot = "next", client' = [cur |-> rec, next |-> Fresh(None)],
               work' = [work EXCEPT !.slot = "cur", !.again = TRUE, !.at = "sending"]
        PROVE  HostNow' /\ WorkPlaced' /\ StoppedBefore' /\ OnlySafeGoOn' /\ proc'[client'.cur.child].life # "none"
    <2>1. client' \in [cur : Clients, next : Clients] /\ client'.cur = rec
      BY <1>9 DEF Fresh, Clients, Reasons
    <2>2. /\ work' \in Works /\ work'.at = "sending" /\ work'.slot = "cur" /\ work'.call = work.call
          /\ work'.op = work.op /\ work.call # None
      BY <1>9, <1>1 DEF Works, WorkPlaced
    <2>3. work.call \in Safe
      BY <1>9 DEF OnlySafeGoOn
    <2> QED BY <2>1, <2>2, <2>3, <1>2, <1>3 DEF HostNow, WorkPlaced, StoppedBefore, OnlySafeGoOn
  <1>10. CASE work.slot = "next" /\ ReplacementPinged(result, rec)
    BY <1>10, <1>6, <1>8, <1>9 DEF ReplacementPinged
  <1>11. CASE work.slot = "cur" /\ work.op = "startup" /\ StartupPinged(result, rec)
    BY <1>11, <1>6, <1>7 DEF StartupPinged
  <1>12. CASE work.slot = "cur" /\ work.op = "call" /\ CallReturned(result, rec)
    BY <1>12, <1>6, <1>7 DEF CallReturned, MayRetry
  <1> QED BY <1>10, <1>11, <1>12 DEF Returned

-----------------------------------------------------------------------------
\* The backends' side of a step.
BackendNow ==
  /\ proc \in [Procs -> Processes]
  /\ owner \in Procs \union {None, "elsewhere"}
  /\ sent \subseteq Calls
  /\ ran \in [Calls -> Nat]
  /\ FirstExecuted

\* A process that was started stays so, and one that exited stays so.
LivesGoForward ==
  \A p \in Procs :
    /\ proc[p].life # "none" => proc'[p].life # "none"
    /\ proc[p].life = "exited" => proc'[p].life = "exited"

\* The process the host talks to was started.
LEMMA TargetStarted ==
  ASSUME HostInv
  PROVE  /\ work.slot \in {"cur", "next"} /\ Target \in Clients /\ Child \in Procs /\ Child # None
         /\ proc[Child].life # "none" /\ client.cur.child \in Procs /\ client.cur \in Clients
  BY DEF HostInv, SupervisorTypeOK, WorkPlaced, Works, Target, Child, Clients

\* One backend changes: its new record and that of the others.
LEMMA OneChanges ==
  ASSUME HostInv, NEW p \in Procs, NEW rec \in Processes, proc' = [proc EXCEPT ![p] = rec],
         rec.executed => rec.inbox # <<>>,
         proc[p].life # "none" => rec.life # "none",
         proc[p].life = "exited" => rec.life = "exited"
  PROVE  proc' \in [Procs -> Processes] /\ FirstExecuted' /\ LivesGoForward
  BY DEF HostInv, SupervisorTypeOK, FirstExecuted, LivesGoForward

\* A step of a backend keeps the backends' types, and lives go forward.
LEMMA ProcessKeeps ==
  ASSUME HostInv, NEW p \in Procs, Process(p)
  PROVE  BackendNow' /\ LivesGoForward /\ UNCHANGED hostVars
  <1> DEFINE Old == proc[p]
  <1>1. /\ Old \in Processes /\ owner \in Procs \union {None, "elsewhere"} /\ sent \subseteq Calls
        /\ ran \in [Calls -> Nat] /\ proc \in [Procs -> Processes] /\ (Old.executed => Old.inbox # <<>>)
    BY DEF HostInv, SupervisorTypeOK, FirstExecuted
  <1>2. CASE TakeProfile(p)
    <2>1. CASE owner = None
      <3>1. proc' = [proc EXCEPT ![p] = [Old EXCEPT !.life = "serving"]] /\ owner' = p
        BY <1>2, <2>1 DEF TakeProfile
      <3>2. [Old EXCEPT !.life = "serving"] \in Processes
        BY <1>1 DEF Processes
      <3>3. proc' \in [Procs -> Processes] /\ FirstExecuted' /\ LivesGoForward
        BY <1>1, <1>2, <3>1, <3>2, OneChanges DEF TakeProfile, Processes
      <3> QED BY <1>1, <1>2, <3>1, <3>3 DEF TakeProfile, BackendNow, hostVars
    <2>2. CASE owner # None
      <3>1. proc' = [proc EXCEPT ![p] = [Old EXCEPT !.life = "closing", !.refused = TRUE]] /\ owner' = owner
        BY <1>2, <2>2 DEF TakeProfile
      <3>2. [Old EXCEPT !.life = "closing", !.refused = TRUE] \in Processes
        BY <1>1 DEF Processes
      <3>3. proc' \in [Procs -> Processes] /\ FirstExecuted' /\ LivesGoForward
        BY <1>1, <1>2, <3>1, <3>2, OneChanges DEF TakeProfile, Processes
      <3> QED BY <1>1, <1>2, <3>1, <3>3 DEF TakeProfile, BackendNow, hostVars
    <2> QED BY <2>1, <2>2
  <1>3. CASE Execute(p)
    <2>1. proc' = [proc EXCEPT ![p] = [Old EXCEPT !.executed = TRUE]]
      BY <1>3 DEF Execute
    <2>2. [Old EXCEPT !.executed = TRUE] \in Processes
      BY <1>1 DEF Processes
    <2>3. proc' \in [Procs -> Processes] /\ FirstExecuted' /\ LivesGoForward
      BY <1>1, <1>3, <2>1, <2>2, OneChanges DEF Execute, Processes
    <2>4. ran' \in [Calls -> Nat]
      BY <1>1, <1>3 DEF Execute
    <2> QED BY <1>1, <1>3, <2>3, <2>4 DEF Execute, BackendNow, hostVars
  <1>4. CASE Answer(p)
    <2>1. PICK answer \in {"none", "result", "error"} :
            proc' = [proc EXCEPT ![p].inbox = Tail(@), ![p].executed = FALSE, ![p].answer = answer]
      BY <1>4 DEF Answer
    <2> DEFINE New == [Old EXCEPT !.inbox = Tail(@), !.executed = FALSE, !.answer = answer]
    <2>2. proc' = [proc EXCEPT ![p] = New]
      BY <2>1, <1>1
    <2>3. Old.inbox \in Seq(Messages) /\ Old.inbox # <<>>
      BY <1>1, <1>4 DEF Answer, Processes
    <2>4. Tail(Old.inbox) \in Seq(Messages)
      BY <2>3
    <2>5. New \in Processes /\ New.executed = FALSE /\ New.life = Old.life
      BY <1>1, <2>4 DEF Processes
    <2>6. proc' \in [Procs -> Processes] /\ FirstExecuted' /\ LivesGoForward
      BY <2>2, <2>5, OneChanges
    <2> QED BY <1>1, <1>4, <2>6 DEF Answer, BackendNow, hostVars
  <1>5. CASE Close(p)
    <2>1. proc' = [proc EXCEPT ![p] = [Old EXCEPT !.life = "closing"]]
      BY <1>5 DEF Close
    <2>2. [Old EXCEPT !.life = "closing"] \in Processes
      BY <1>1 DEF Processes
    <2>3. proc' \in [Procs -> Processes] /\ FirstExecuted' /\ LivesGoForward
      BY <1>1, <1>5, <2>1, <2>2, OneChanges DEF Close, Processes
    <2> QED BY <1>1, <1>5, <2>3 DEF Close, BackendNow, hostVars
  <1>6. CASE Exit(p)
    <2>1. proc' = [proc EXCEPT ![p] = [Old EXCEPT !.life = "exited"]]
      BY <1>6 DEF Exit, Gone
    <2>2. [Old EXCEPT !.life = "exited"] \in Processes
      BY <1>1 DEF Processes
    <2>3. proc' \in [Procs -> Processes] /\ FirstExecuted' /\ LivesGoForward
      BY <1>1, <1>6, <2>1, <2>2, OneChanges DEF Exit, Gone, Processes
    <2> QED BY <1>1, <1>6, <2>3 DEF Exit, Gone, BackendNow, hostVars
  <1> QED BY <1>2, <1>3, <1>4, <1>5, <1>6 DEF Process

\* What no step of a backend touches, it keeps.
LEMMA HostRests ==
  ASSUME HostInv, BackendNow', LivesGoForward, UNCHANGED <<client, work>>
  PROVE  HostInv'
  <1>1. client.cur.child \in Procs
    BY DEF HostInv, SupervisorTypeOK, Clients
  <1>2. work.slot = "next" => client.next.child \in Procs
    BY DEF HostInv, SupervisorTypeOK, WorkPlaced, Clients
  <1>3. client' = client /\ work' = work
    OBVIOUS
  <1>4. SupervisorTypeOK'
    BY <1>1, <1>3 DEF HostInv, SupervisorTypeOK, BackendNow, LivesGoForward
  <1>5. WorkPlaced'
    BY <1>2, <1>3 DEF HostInv, WorkPlaced, LivesGoForward
  <1>6. StoppedBefore'
    BY <1>1, <1>3 DEF HostInv, StoppedBefore, LivesGoForward
  <1> QED BY <1>3, <1>4, <1>5, <1>6 DEF HostInv, OnlySafeGoOn, BackendNow

\* The backends as they were, and a host's side that keeps what it must.
LEMMA HostMoves ==
  ASSUME BackendNow', HostNow', WorkPlaced', StoppedBefore', OnlySafeGoOn', proc'[client'.cur.child].life # "none"
  PROVE  HostInv'
  BY DEF BackendNow, HostNow, HostInv, SupervisorTypeOK

-----------------------------------------------------------------------------
\* The steps of call_once keep what the host relies on.
LEMMA CallOnceKeeps ==
  ASSUME HostInv, CallOnce
  PROVE  HostInv' /\ LivesGoForward
  <1> DEFINE Shut == [Target EXCEPT !.shut = TRUE]
  <1>1. /\ Target \in Clients /\ Target.child = Child /\ Child \in Procs /\ Child # None /\ proc[Child].life # "none"
        /\ Target = client[work.slot] /\ work.slot \in {"cur", "next"}
    BY TargetStarted DEF Target, Child
  <1>2. /\ Shut \in Clients /\ Shut.child = Child /\ Shut.blocked = Target.blocked
        /\ [Shut EXCEPT !.blocked = "profile_in_use"] \in Clients
        /\ [Shut EXCEPT !.blocked = "profile_in_use"].child = Child
    BY <1>1 DEF Clients, Reasons
  <1>3. BackendNow
    BY DEF HostInv, SupervisorTypeOK, BackendNow
  <1>4. work.at = "waiting" => Target.blocked = "none"
    BY <1>1 DEF HostInv, StoppedBefore
  <1>5. ASSUME NEW rec \in Clients, rec.child = Child, NEW result \in {"ok", "final", "restartable"},
               work.at \in {"sending", "waiting"}, result = "restartable" => rec.blocked = "none",
               UNCHANGED <<procVars, sent>>, Returned(result, rec)
        PROVE  HostInv' /\ LivesGoForward
    <2>1. proc' = proc /\ owner' = owner /\ ran' = ran /\ sent' = sent
      BY <1>5 DEF procVars
    <2>2. BackendNow' /\ LivesGoForward
      BY <2>1, <1>3 DEF BackendNow, FirstExecuted, LivesGoForward
    <2>3. HostNow' /\ WorkPlaced' /\ StoppedBefore' /\ OnlySafeGoOn' /\ proc'[client'.cur.child].life # "none"
      BY <1>5, <1>1, <2>1, ReturnedKeeps
    <2> QED BY <2>2, <2>3, HostMoves
  <1>6. ASSUME FoundDead(Child), work.at \in {"sending", "waiting"}, Target.blocked = "none"
        PROVE  HostInv' /\ LivesGoForward
    <2>1. UNCHANGED <<procVars, sent>>
      BY <1>6 DEF FoundDead
    <2>2. Returned("final", [Shut EXCEPT !.blocked = "profile_in_use"]) \/ Returned("restartable", Shut)
      BY <1>6 DEF FoundDead
    <2> QED BY <1>2, <1>5, <1>6, <2>1, <2>2
  <1>7. CASE CallBlocked
    BY <1>7, <1>1, <1>5 DEF CallBlocked
  <1>8. CASE CallNotRunning
    BY <1>8, <1>1, <1>5 DEF CallNotRunning
  <1>9. CASE CallInspectFails
    BY <1>9, <1>1, <1>5 DEF CallInspectFails, Reachable
  <1>10. CASE CallFindsDead
    BY <1>10, <1>6 DEF CallFindsDead, Reachable
  <1>11. CASE CallUnanswered
    BY <1>11, <1>1, <1>4, <1>5, <1>6 DEF CallUnanswered
  <1>12. CASE CallSends
    <2> DEFINE Old == proc[Child]
               Message == IF work.slot = "cur" /\ work.op = "call" THEN work.call ELSE "ping"
               New == [Old EXCEPT !.answer = "none", !.inbox = Append(@, Message)]
    <2>1. Old \in Processes /\ (work.op = "call" => work.call \in Calls) /\ work \in Works
      BY <1>1 DEF HostInv, SupervisorTypeOK, WorkPlaced, Works
    <2>2. Message \in Messages
      BY <2>1 DEF Messages
    <2>3. Old.inbox \in Seq(Messages)
      BY <2>1 DEF Processes
    <2>4. Append(Old.inbox, Message) \in Seq(Messages) /\ Append(Old.inbox, Message) # <<>>
      BY <2>2, <2>3
    <2>5. New \in Processes /\ New.life = Old.life /\ New.inbox # <<>>
      BY <2>1, <2>4 DEF Processes
    <2>6. proc' = [proc EXCEPT ![Child] = New]
      BY <1>12, <1>1, <1>3 DEF CallSends, BackendNow
    <2>7. proc' \in [Procs -> Processes] /\ FirstExecuted' /\ LivesGoForward
      BY <1>1, <2>5, <2>6, OneChanges
    <2>8. BackendNow'
      BY <1>3, <1>12, <2>7 DEF CallSends, BackendNow
    <2>9. client' = client /\ work' = [work EXCEPT !.at = "waiting"] /\ Target.blocked = "none"
      BY <1>12 DEF CallSends, Reachable
    <2>10. /\ work' \in Works /\ work'.at = "waiting" /\ work'.slot = work.slot /\ work'.op = work.op
           /\ work'.call = work.call /\ work'.again = work.again
      BY <2>1, <2>9 DEF Works
    <2>11. client.cur.child \in Procs /\ client.cur.child # None /\ proc[client.cur.child].life # "none"
      BY TargetStarted DEF HostInv, SupervisorTypeOK
    <2>12. HostNow' /\ proc'[client'.cur.child].life # "none"
      BY <2>7, <2>9, <2>10, <2>11 DEF HostNow, HostInv, SupervisorTypeOK, LivesGoForward
    <2>13. WorkPlaced'
      BY <2>7, <2>9, <2>10, <1>1 DEF HostInv, WorkPlaced, LivesGoForward, Target, Child
    <2>14. StoppedBefore' /\ OnlySafeGoOn'
      BY <2>9, <2>10, <1>1 DEF HostInv, StoppedBefore, OnlySafeGoOn
    <2> QED BY <2>7, <2>8, <2>12, <2>13, <2>14, HostMoves
  <1>13. CASE CallAnswered
    <2> DEFINE New == [proc[Child] EXCEPT !.answer = "none"]
    <2>0. proc[Child] \in Processes /\ (proc[Child].executed => proc[Child].inbox # <<>>)
      BY <1>1, <1>3 DEF BackendNow, FirstExecuted
    <2>1. New \in Processes /\ New.life = proc[Child].life /\ (New.executed => New.inbox # <<>>)
      BY <2>0 DEF Processes
    <2>2. proc' = [proc EXCEPT ![Child] = New]
      BY <1>13 DEF CallAnswered
    <2>3. proc' \in [Procs -> Processes] /\ FirstExecuted' /\ LivesGoForward
      BY <1>1, <2>1, <2>2, OneChanges
    <2>4. BackendNow'
      BY <1>3, <1>13, <2>3 DEF CallAnswered, BackendNow
    <2>5. \A p \in Procs : proc'[p].life = proc[p].life
      BY <1>3, <2>1, <2>2 DEF BackendNow
    <2>6. work.at = "waiting" /\ (Returned("ok", Target) \/ Returned("final", Target))
      BY <1>13 DEF CallAnswered
    <2>7. HostNow' /\ WorkPlaced' /\ StoppedBefore' /\ OnlySafeGoOn' /\ proc'[client'.cur.child].life # "none"
      <3>1. CASE Returned("ok", Target)
        BY <3>1, <1>1, <2>5, <2>6, ReturnedKeeps
      <3>2. CASE Returned("final", Target)
        BY <3>2, <1>1, <2>5, <2>6, ReturnedKeeps
      <3> QED BY <2>6, <3>1, <3>2
    <2> QED BY <2>3, <2>4, <2>7, HostMoves
  <1> QED BY <1>7, <1>8, <1>9, <1>10, <1>11, <1>12, <1>13 DEF CallOnce

\* Stopping a backend and replacing it keeps what the host relies on.
LEMMA ReplaceKeeps ==
  ASSUME HostInv, Replace
  PROVE  HostInv' /\ LivesGoForward
  <1>1. /\ Target \in Clients /\ Target.child = Child /\ Child \in Procs /\ Child # None /\ proc[Child].life # "none"
        /\ Target = client[work.slot] /\ work.slot \in {"cur", "next"}
        /\ client.cur \in Clients /\ client.cur.child \in Procs
    BY TargetStarted DEF Target, Child
  <1>2. /\ client \in [cur : Clients, next : Clients] /\ work \in Works
        /\ client.cur.child # None /\ proc[client.cur.child].life # "none"
    BY DEF HostInv, SupervisorTypeOK
  <1>3. BackendNow
    BY DEF HostInv, SupervisorTypeOK, BackendNow
  <1>4. ASSUME NEW rec \in Clients, rec.child # None, rec.child \in Procs, proc[rec.child].life # "none",
               BackendNow', LivesGoForward, Finish(rec)
        PROVE  HostInv' /\ LivesGoForward
    <2>1. proc'[rec.child].life # "none"
      BY <1>4 DEF LivesGoForward
    <2> QED BY <1>4, <2>1, FinishKeeps, HostMoves
  <1>5. ASSUME UNCHANGED <<procVars, sent>>
        PROVE  BackendNow' /\ LivesGoForward
    <2>1. proc' = proc /\ owner' = owner /\ ran' = ran /\ sent' = sent
      BY <1>5 DEF procVars
    <2> QED BY <2>1, <1>3 DEF BackendNow, FirstExecuted, LivesGoForward
  <1>6. ASSUME StopConfirmed(Child)
        PROVE  BackendNow' /\ LivesGoForward /\ proc'[Child].life = "exited"
    <2> DEFINE New == [proc[Child] EXCEPT !.life = "exited"]
    <2>1. proc[Child] \in Processes /\ (proc[Child].executed => proc[Child].inbox # <<>>)
      BY <1>1, <1>3 DEF BackendNow, FirstExecuted
    <2>2. New \in Processes /\ New.life = "exited" /\ (New.executed => New.inbox # <<>>)
      BY <2>1 DEF Processes
    <2>3. proc' = [proc EXCEPT ![Child] = New]
      BY <1>6 DEF StopConfirmed, Gone
    <2>4. proc' \in [Procs -> Processes] /\ FirstExecuted' /\ LivesGoForward
      BY <1>1, <2>2, <2>3, OneChanges
    <2>5. proc'[Child].life = "exited"
      BY <1>1, <1>3, <2>2, <2>3 DEF BackendNow
    <2> QED BY <1>3, <1>6, <2>4, <2>5 DEF StopConfirmed, Gone, BackendNow
  <1>7. ASSUME NEW rec \in Clients
        PROVE  /\ Lost(rec) \in Clients /\ Lost(rec).child = rec.child
               /\ Stopped(rec) \in Clients /\ Stopped(rec).child = rec.child
               /\ Stopped(rec).blocked = rec.blocked
    BY <1>7 DEF Lost, Stopped, Clients
  <1>8. ASSUME NEW rec \in Clients, NEW why \in Reasons
        PROVE  [rec EXCEPT !.blocked = why] \in Clients /\ [rec EXCEPT !.blocked = why].child = rec.child
    BY <1>8 DEF Clients
  <1>9. "profile_in_use" \in Reasons /\ "stop_unconfirmed" \in Reasons
    BY DEF Reasons
  <1>10. work.at = "stopping" => work.slot = "cur" /\ work.op # "none" /\ Target = client.cur
    BY <1>1 DEF HostInv, WorkPlaced
  <1>11. CASE Stop
    <2>1. BackendNow' /\ LivesGoForward /\ proc'[Child].life = "exited"
      BY <1>11, <1>6 DEF Stop
    <2>2. Stopped(Target) \in Clients /\ Stopped(Target).child = Child /\ Stopped(Target).blocked = Target.blocked
      BY <1>1, <1>7
    <2>3. CASE work.op = "shutdown"
      BY <1>11, <2>1, <2>2, <2>3, <1>1, <1>4 DEF Stop
    <2>4. CASE work.op # "shutdown"
      <3>1. client' = [client EXCEPT !.cur = Stopped(Target)] /\ work' = [work EXCEPT !.at = "spawning"]
        BY <1>11, <2>4 DEF Stop, Continue
      <3>2. client' \in [cur : Clients, next : Clients] /\ client'.cur = Stopped(Target)
        BY <3>1, <2>2, <1>2
      <3>3. /\ work' \in Works /\ work'.at = "spawning" /\ work'.slot = "cur" /\ work'.op = work.op
            /\ work'.call = work.call /\ work.at = "stopping"
        BY <3>1, <1>2, <1>10, <1>11 DEF Works, Stop
      <3>4. work.op # "retry" => Target.blocked = "none"
        BY <3>3, <2>4, <1>10 DEF HostInv, StoppedBefore
      <3>5. work.op = "call" => work.call \in Safe /\ work.call # None
        BY <3>3 DEF HostInv, OnlySafeGoOn, WorkPlaced
      <3>6. HostNow' /\ WorkPlaced'
        BY <3>2, <3>3, <3>5, <2>2, <2>4, <1>1, <1>10 DEF HostNow, WorkPlaced
      <3>7. StoppedBefore' /\ OnlySafeGoOn'
        BY <3>2, <3>3, <3>4, <3>5, <2>1, <2>2 DEF StoppedBefore, OnlySafeGoOn
      <3> QED BY <3>2, <3>6, <3>7, <2>1, <2>2, HostMoves
    <2> QED BY <2>3, <2>4
  <1>12. CASE StopUnconfirmed
    <2>1. BackendNow' /\ LivesGoForward
      BY <1>12, <1>5 DEF StopUnconfirmed, StopFails
    <2>2. Stopped(Target) \in Clients /\ Stopped(Target).child = Child
      BY <1>1, <1>7
    <2>3. Lost(Stopped(Target)) \in Clients /\ Lost(Stopped(Target)).child = Child
      BY <2>2, <1>7
    <2>4. [Lost(Stopped(Target)) EXCEPT !.blocked = "stop_unconfirmed"] \in Clients
      BY <2>3, <1>8, <1>9
    <2>5. [Lost(Stopped(Target)) EXCEPT !.blocked = "stop_unconfirmed"].child = Child
      BY <2>3, <1>8, <1>9
    <2> QED BY <1>12, <2>1, <2>2, <2>4, <2>5, <1>1, <1>4 DEF StopUnconfirmed
  <1>13. CASE SpawnFails
    <2>1. BackendNow' /\ LivesGoForward
      BY <1>13, <1>5 DEF SpawnFails
    <2>2. CASE work.op = "startup"
      <3>1. client' = [client EXCEPT !.cur = client.cur] /\ work' = [work EXCEPT !.at = "aborted"]
        BY <1>13, <2>2 DEF SpawnFails, Continue
      <3>2. client' \in [cur : Clients, next : Clients] /\ client'.cur = client.cur
        BY <3>1, <1>1, <1>2
      <3>3. /\ work' \in Works /\ work'.at = "aborted" /\ work'.slot = "cur" /\ work'.op = "startup"
        BY <3>1, <1>2, <2>2, <1>13 DEF Works, SpawnFails, HostInv, WorkPlaced
      <3>4. HostNow' /\ WorkPlaced' /\ StoppedBefore' /\ OnlySafeGoOn'
        BY <3>2, <3>3, <1>2 DEF HostNow, WorkPlaced, StoppedBefore, OnlySafeGoOn
      <3>5. proc'[client'.cur.child].life # "none"
        BY <3>2, <2>1, <1>1, <1>2 DEF LivesGoForward
      <3> QED BY <3>4, <3>5, <2>1, HostMoves
    <2>3. CASE work.op # "startup"
      <3>1. Lost(client.cur) \in Clients /\ Lost(client.cur).child = client.cur.child
        BY <1>1, <1>7
      <3> QED BY <1>13, <2>1, <2>3, <3>1, <1>1, <1>2, <1>4 DEF SpawnFails
    <2> QED BY <2>2, <2>3
  <1>14. CASE Discard
    <2>1. BackendNow' /\ LivesGoForward
      BY <1>14, <1>6 DEF Discard
    <2>2. Lost(client.cur) \in Clients /\ Lost(client.cur).child = client.cur.child
      BY <1>1, <1>7
    <2>3. /\ [Lost(client.cur) EXCEPT !.blocked = "profile_in_use"] \in Clients
          /\ [Lost(client.cur) EXCEPT !.blocked = "profile_in_use"].child = client.cur.child
      BY <2>2, <1>8, <1>9
    <2> QED BY <1>14, <2>1, <2>2, <2>3, <1>1, <1>2, <1>4 DEF Discard
  <1>15. CASE DiscardUnconfirmed
    <2>1. BackendNow' /\ LivesGoForward
      BY <1>15, <1>5 DEF DiscardUnconfirmed, StopFails
    <2>2. Lost(client.cur) \in Clients /\ Lost(client.cur).child = client.cur.child
      BY <1>1, <1>7
    <2>3. /\ [Lost(client.cur) EXCEPT !.blocked = "stop_unconfirmed"] \in Clients
          /\ [Lost(client.cur) EXCEPT !.blocked = "stop_unconfirmed"].child = client.cur.child
      BY <2>2, <1>8, <1>9
    <2> QED BY <1>15, <2>1, <2>2, <2>3, <1>1, <1>2, <1>4 DEF DiscardUnconfirmed
  <1>16. ASSUME NEW p \in Procs, Spawn(p)
         PROVE  HostInv' /\ LivesGoForward
    <2> DEFINE New == [proc[p] EXCEPT !.life = "starting"]
    <2>1. proc[p] \in Processes /\ (proc[p].executed => proc[p].inbox # <<>>) /\ proc[p].life = "none"
      BY <1>3, <1>16 DEF BackendNow, FirstExecuted, Spawn
    <2>2. New \in Processes /\ New.life = "starting" /\ (New.executed => New.inbox # <<>>)
      BY <2>1 DEF Processes
    <2>3. proc' = [proc EXCEPT ![p] = New]
      BY <1>16 DEF Spawn
    <2>4. proc' \in [Procs -> Processes] /\ FirstExecuted' /\ LivesGoForward
      BY <2>1, <2>2, <2>3, OneChanges
    <2>5. proc'[p].life = "starting" /\ p # None
      BY <1>3, <2>2, <2>3, SupervisorAssumption DEF BackendNow
    <2>6. BackendNow'
      BY <1>3, <1>16, <2>4 DEF Spawn, BackendNow
    <2>7. client' = [client EXCEPT !.next = Fresh(p)] /\ work' = [work EXCEPT !.at = "sending", !.slot = "next"]
      BY <1>16 DEF Spawn
    <2>8. Fresh(p) \in Clients /\ Fresh(p).child = p
      BY DEF Fresh, Clients, Reasons
    <2>9. client' \in [cur : Clients, next : Clients] /\ client'.cur = client.cur /\ client'.next.child = p
      BY <2>7, <2>8, <1>2
    <2>10. /\ work' \in Works /\ work'.at = "sending" /\ work'.slot = "next" /\ work'.op = work.op
           /\ work'.call = work.call /\ work.at = "spawning"
      BY <2>7, <1>2, <1>16 DEF Works, Spawn
    <2>11. work.op = "call" => work.call \in Safe /\ work.call # None
      BY <2>10 DEF HostInv, OnlySafeGoOn, WorkPlaced
    <2>12. HostNow' /\ WorkPlaced' /\ StoppedBefore' /\ OnlySafeGoOn'
      BY <2>5, <2>9, <2>10, <2>11, <1>2 DEF HostNow, WorkPlaced, StoppedBefore, OnlySafeGoOn
    <2>13. proc'[client'.cur.child].life # "none"
      BY <2>4, <2>9, <1>1, <1>2 DEF LivesGoForward
    <2> QED BY <2>4, <2>6, <2>12, <2>13, HostMoves
  <1> QED BY <1>11, <1>12, <1>13, <1>14, <1>15, <1>16 DEF Replace

\* The commands of the view keep what the host relies on.
LEMMA CommandsKeep ==
  ASSUME HostInv, Commands
  PROVE  HostInv' /\ LivesGoForward
  <1>1. /\ client \in [cur : Clients, next : Clients] /\ work \in Works /\ client.cur \in Clients
        /\ client.cur.child # None /\ client.cur.child \in Procs /\ proc[client.cur.child].life # "none"
    BY TargetStarted DEF HostInv, SupervisorTypeOK
  <1>2. BackendNow
    BY DEF HostInv, SupervisorTypeOK, BackendNow
  <1>3. ASSUME UNCHANGED procVars, sent' \subseteq Calls
        PROVE  BackendNow' /\ LivesGoForward
    <2>1. proc' = proc /\ owner' = owner /\ ran' = ran
      BY <1>3 DEF procVars
    <2> QED BY <2>1, <1>2, <1>3 DEF BackendNow, FirstExecuted, LivesGoForward
  <1>4. ASSUME NEW op \in Ops, NEW call \in Calls \union {None}, NEW at \in {"sending", "stopping"},
               UNCHANGED <<procVars, client>>, sent' \subseteq Calls, Take(op, call, at),
               op = "call" => at = "sending" /\ call # None,
               at = "stopping" => op \in {"retry", "shutdown"}
        PROVE  HostInv' /\ LivesGoForward
    <2>1. client' = client /\ work' = [NoWork EXCEPT !.op = op, !.call = call, !.at = at]
      BY <1>4 DEF Take
    <2>2. /\ work' \in Works /\ work'.at = at /\ work'.op = op /\ work'.call = call /\ work'.slot = "cur"
          /\ work'.again = FALSE
      BY <2>1, <1>4 DEF NoWork, Works
    <2>3. BackendNow' /\ LivesGoForward
      BY <1>3, <1>4
    <2>4. HostNow' /\ proc'[client'.cur.child].life # "none"
      BY <2>1, <2>2, <2>3, <1>1 DEF HostNow, LivesGoForward
    <2>5. WorkPlaced' /\ StoppedBefore' /\ OnlySafeGoOn'
      BY <2>2, <1>4 DEF WorkPlaced, StoppedBefore, OnlySafeGoOn
    <2> QED BY <2>3, <2>4, <2>5, HostMoves
  <1>5. sent \subseteq Calls
    BY <1>2 DEF BackendNow
  <1>6. CASE RetryBackend
    BY <1>6, <1>4, <1>5 DEF RetryBackend, Ops
  <1>7. CASE ShutdownBackend
    BY <1>7, <1>4, <1>5 DEF ShutdownBackend, Ops
  <1>8. ASSUME NEW c \in Calls, RpcCall(c)
        PROVE  HostInv' /\ LivesGoForward
    <2>1. c # None
      BY SupervisorAssumption
    <2> QED BY <1>8, <2>1, <1>4, <1>5 DEF RpcCall, Ops
  <1>9. CASE AppStatus
    <2> DEFINE New == [client.cur EXCEPT !.shut = @ \/ proc[client.cur.child].life = "exited"]
    <2>1. client' = [client EXCEPT !.cur = New] /\ work' = work /\ work.at = "idle"
      BY <1>9, <1>1 DEF AppStatus
    <2>2. New \in Clients /\ New.child = client.cur.child
      BY <1>1 DEF Clients
    <2>3. client' \in [cur : Clients, next : Clients] /\ client'.cur = New /\ client'.next = client.next
      BY <2>1, <2>2, <1>1
    <2>4. BackendNow' /\ LivesGoForward
      BY <1>9, <1>3, <1>5 DEF AppStatus
    <2>5. HostNow' /\ proc'[client'.cur.child].life # "none"
      BY <2>1, <2>2, <2>3, <2>4, <1>1 DEF HostNow, LivesGoForward
    <2>6. client.next \in Clients
      BY <1>1
    <2>7. WorkPlaced'
      BY <2>1, <2>3, <2>4, <2>6 DEF HostInv, WorkPlaced, LivesGoForward, Clients
    <2>8. StoppedBefore' /\ OnlySafeGoOn'
      BY <2>1 DEF HostInv, StoppedBefore, OnlySafeGoOn
    <2> QED BY <2>4, <2>5, <2>7, <2>8, HostMoves
  <1> QED BY <1>6, <1>7, <1>8, <1>9 DEF Commands

\* No step stops short of what the host relies on.
LEMMA HostStep ==
  ASSUME HostInv, [SupervisorNext]_supervisorVars
  PROVE  HostInv' /\ LivesGoForward
  <1>1. ASSUME NEW p \in Procs, Process(p)
        PROVE  HostInv' /\ LivesGoForward
    <2>1. client' = client /\ work' = work
      BY <1>1, ProcessKeeps DEF hostVars
    <2> QED BY <1>1, <2>1, ProcessKeeps, HostRests
  <1>2. CASE OtherWindow
    <2>1. proc' = proc /\ ran' = ran /\ client' = client /\ work' = work /\ sent' = sent /\ owner' \in {None, "elsewhere"}
      BY <1>2 DEF OtherWindow, hostVars
    <2>2. BackendNow' /\ LivesGoForward
      BY <2>1 DEF HostInv, SupervisorTypeOK, BackendNow, FirstExecuted, LivesGoForward
    <2> QED BY <2>1, <2>2, HostRests
  <1>3. CASE UNCHANGED supervisorVars
    <2>1. /\ proc' = proc /\ ran' = ran /\ client' = client /\ work' = work /\ sent' = sent /\ owner' = owner
      BY <1>3 DEF supervisorVars
    <2>2. BackendNow' /\ LivesGoForward
      BY <2>1 DEF HostInv, SupervisorTypeOK, BackendNow, FirstExecuted, LivesGoForward
    <2> QED BY <2>1, <2>2, HostRests
  <1> QED BY <1>1, <1>2, <1>3, CallOnceKeeps, ReplaceKeeps, CommandsKeep DEF SupervisorNext

LEMMA HostStarts ==
  ASSUME SupervisorInit
  PROVE  HostInv
  <1>1. PICK p \in Procs :
          /\ proc = [q \in Procs |-> IF q = p THEN [Unborn EXCEPT !.life = "starting"] ELSE Unborn]
          /\ client = [cur |-> Fresh(p), next |-> Fresh(None)]
    BY DEF SupervisorInit
  <1>2. Unborn \in Processes /\ [Unborn EXCEPT !.life = "starting"] \in Processes
    <2>1. <<>> \in Seq(Messages)
      OBVIOUS
    <2> QED BY <2>1 DEF Unborn, Processes
  <1>3. Fresh(p) \in Clients /\ Fresh(None) \in Clients /\ Fresh(p).child = p
    BY DEF Fresh, Clients, Reasons
  <1>4. work = [NoWork EXCEPT !.op = "startup", !.at = "sending"] /\ sent = {} /\ owner \in {None, "elsewhere"}
    BY DEF SupervisorInit
  <1>5. work \in Works /\ work.op = "startup" /\ work.at = "sending" /\ work.slot = "cur"
    BY <1>4 DEF NoWork, Works, Ops
  <1>6. ran \in [Calls -> Nat]
    BY DEF SupervisorInit
  <1>7. proc \in [Procs -> Processes] /\ proc[p].life = "starting"
    BY <1>1, <1>2 DEF Unborn
  <1>8. client \in [cur : Clients, next : Clients] /\ client.cur.child = p /\ p # None
    BY <1>1, <1>3, SupervisorAssumption
  <1>9. SupervisorTypeOK
    BY <1>4, <1>5, <1>6, <1>7, <1>8 DEF SupervisorTypeOK
  <1>10. FirstExecuted
    BY <1>1 DEF FirstExecuted, Unborn
  <1> QED BY <1>5, <1>9, <1>10 DEF HostInv, WorkPlaced, StoppedBefore, OnlySafeGoOn

\* The types hold, and what a replacement is started after.
THEOREM HostTyped == SupervisorSpec => []HostInv
  <1>1. HostInv /\ [SupervisorNext]_supervisorVars => HostInv'
    BY HostStep
  <1> QED BY <1>1, HostStarts, PTL DEF SupervisorSpec

\* Only Spawn starts a process.
LEMMA OnlySpawnStarts ==
  ASSUME HostInv, [SupervisorNext]_supervisorVars, NEW p \in Procs, Started(p)
  PROVE  Spawn(p)
  <1>1. /\ proc \in [Procs -> Processes] /\ proc[p].life = "none" /\ proc'[p].life # "none"
        /\ Child \in Procs /\ proc[Child].life # "none"
    BY TargetStarted DEF HostInv, SupervisorTypeOK, Started
  <1>2. ASSUME NEW q \in Procs, Process(q)
        PROVE  FALSE
    <2>1. CASE TakeProfile(q) \/ Close(q) \/ Exit(q)
      BY <1>1, <2>1 DEF TakeProfile, Close, Exit, Gone, Processes
    <2>2. CASE Execute(q)
      BY <1>1, <2>2 DEF Execute, Processes
    <2>3. CASE Answer(q)
      BY <1>1, <2>3 DEF Answer, Processes
    <2> QED BY <1>2, <2>1, <2>2, <2>3 DEF Process
  <1>3. ASSUME proc' = proc
        PROVE  FALSE
    BY <1>1, <1>3
  <1>4. CASE OtherWindow \/ UNCHANGED supervisorVars \/ Commands
    BY <1>3, <1>4 DEF OtherWindow, supervisorVars, Commands, RetryBackend, ShutdownBackend, AppStatus, RpcCall, procVars
  <1>5. CASE CallOnce
    <2>1. CASE CallSends
      BY <1>1, <2>1 DEF CallSends, Processes
    <2>2. CASE CallAnswered
      BY <1>1, <2>2 DEF CallAnswered, Processes
    <2>3. CASE CallBlocked \/ CallNotRunning \/ CallInspectFails \/ CallFindsDead \/ CallUnanswered
      BY <1>3, <2>3 DEF CallBlocked, CallNotRunning, CallInspectFails, CallFindsDead, CallUnanswered, FoundDead, procVars
    <2> QED BY <1>5, <2>1, <2>2, <2>3 DEF CallOnce
  <1>6. ASSUME Gone(Child)
        PROVE  FALSE
    BY <1>1, <1>6 DEF Gone, Processes
  <1>7. CASE Stop \/ Discard
    BY <1>6, <1>7 DEF Stop, Discard, StopConfirmed
  <1>8. CASE StopUnconfirmed \/ SpawnFails \/ DiscardUnconfirmed
    BY <1>3, <1>8 DEF StopUnconfirmed, SpawnFails, DiscardUnconfirmed, StopFails, procVars
  <1>9. ASSUME NEW q \in Procs, Spawn(q)
        PROVE  Spawn(p)
    BY <1>1, <1>9 DEF Spawn, Processes
  <1> QED BY <1>2, <1>4, <1>5, <1>7, <1>8, <1>9 DEF SupervisorNext, Replace

\* No process is started in place of one that still runs, nor in place of a blocked one but at the user's
\* request: the host starts one only past its stop, which a call or the startup reaches unblocked.
THEOREM RestartsSafe == SupervisorSpec => RestartsAreSafe
  <1>1. ASSUME HostInv, [SupervisorNext]_supervisorVars
        PROVE  \A p \in Procs : /\ Started(p) => proc[client.cur.child].life = "exited"
                                /\ Started(p) /\ client.cur.blocked # "none" => work.op = "retry"
    <2>1. SUFFICES ASSUME NEW p \in Procs, Started(p)
                   PROVE  proc[client.cur.child].life = "exited" /\ (client.cur.blocked # "none" => work.op = "retry")
      OBVIOUS
    <2>2. work.at = "spawning"
      BY <1>1, <2>1, OnlySpawnStarts DEF Spawn
    <2> QED BY <1>1, <2>2 DEF HostInv, StoppedBefore, WorkPlaced
  <1>2. HostInv /\ [SupervisorNext]_supervisorVars
          => [\A p \in Procs : Started(p) => proc[client.cur.child].life = "exited"]_supervisorVars
    BY <1>1
  <1>3. HostInv /\ [SupervisorNext]_supervisorVars
          => [\A p \in Procs : Started(p) /\ client.cur.blocked # "none" => work.op = "retry"]_supervisorVars
    BY <1>1
  <1> QED BY <1>2, <1>3, HostTyped, PTL DEF SupervisorSpec, RestartsAreSafe, ReplacedIsGone, BlockedWaitsForUser

-----------------------------------------------------------------------------
\* The backends' side stays as it is when the inboxes, and what was executed, do.
LEMMA PlaceRests ==
  ASSUME NEW c \in Calls, InOnePlace(c),
         \A p \in Procs : proc'[p].inbox = proc[p].inbox /\ proc'[p].executed = proc[p].executed,
         ran' = ran, sent \subseteq sent',
         c \notin sent' => work'.call # c,
         work'.op = "call" /\ work'.call = c /\ work'.at = "sending" => Unheard(c)
  PROVE  InOnePlace(c)'
  <1>1. \A p \in Procs : \A i \in Nat : Holds(p, i, c)' <=> Holds(p, i, c)
    BY DEF Holds
  <1>2. Unheard(c)' <=> Unheard(c)
    BY <1>1 DEF Unheard
  <1> QED BY <1>1, <1>2 DEF InOnePlace

\* After a call_once returns, an unsafe request is not sent again.
LEMMA ReturnedEnds ==
  ASSUME HostInv, NEW rec, NEW result \in {"ok", "final", "restartable"}, Returned(result, rec)
  PROVE  \/ work' = NoWork
         \/ /\ work'.call = work.call
            /\ work'.at # "sending" \/ (work.op = "call" /\ work.call \in Safe)
  <1>1. work \in Works
    BY DEF HostInv, SupervisorTypeOK
  <1>2. ASSUME NEW slot \in {"cur", "next"}, NEW new, NEW at \in {"stopping", "discarding"}, Continue(slot, new, at)
        PROVE  work'.call = work.call /\ work'.at # "sending"
    BY <1>1, <1>2 DEF Continue, Works
  <1>3. CASE work.slot = "next" /\ ReplacementPinged(result, rec)
    <2>1. work.op = "call" => work.call \in Safe
      BY <1>3 DEF HostInv, OnlySafeGoOn
    <2>2. CASE work.op = "call" /\ work' = [work EXCEPT !.slot = "cur", !.again = TRUE, !.at = "sending"]
      BY <2>1, <2>2, <1>1 DEF Works
    <2> QED BY <1>2, <1>3, <2>2 DEF ReplacementPinged, Finish
  <1>4. CASE work.slot = "cur" /\ work.op = "startup" /\ StartupPinged(result, rec)
    BY <1>2, <1>4 DEF StartupPinged, Finish
  <1>5. CASE work.slot = "cur" /\ work.op = "call" /\ CallReturned(result, rec)
    BY <1>2, <1>5 DEF CallReturned, Finish
  <1> QED BY <1>3, <1>4, <1>5 DEF Returned

\* A step of a backend: it executes what it holds, once, and drops what it executed.
LEMMA PlaceProcess ==
  ASSUME HostInv, NEW c \in Calls \ Safe, InOnePlace(c), NEW p \in Procs, Process(p)
  PROVE  InOnePlace(c)'
  <1>1. /\ proc \in [Procs -> Processes] /\ proc[p] \in Processes /\ ran \in [Calls -> Nat] /\ c \in Calls
        /\ client' = client /\ work' = work /\ sent' = sent
    BY ProcessKeeps DEF HostInv, SupervisorTypeOK, hostVars
  <1>2. ran[c] \in Nat
    BY <1>1
  <1>3. CASE TakeProfile(p) \/ Close(p) \/ Exit(p)
    <2>1. ran' = ran
      BY <1>3 DEF TakeProfile, Close, Exit
    <2>2. \A q \in Procs : proc'[q].inbox = proc[q].inbox /\ proc'[q].executed = proc[q].executed
      <3>1. CASE TakeProfile(p)
        <4>1. CASE owner = None
          <5>1. proc' = [proc EXCEPT ![p].life = "serving"]
            BY <3>1, <4>1 DEF TakeProfile
          <5> QED BY <1>1, <5>1 DEF Processes
        <4>2. CASE owner # None
          <5>1. proc' = [proc EXCEPT ![p].life = "closing", ![p].refused = TRUE]
            BY <3>1, <4>2 DEF TakeProfile
          <5> QED BY <1>1, <5>1 DEF Processes
        <4> QED BY <4>1, <4>2
      <3>2. CASE Close(p)
        BY <1>1, <3>2 DEF Close, Processes
      <3>3. CASE Exit(p)
        BY <1>1, <3>3 DEF Exit, Gone, Processes
      <3> QED BY <1>3, <3>1, <3>2, <3>3
    <2>3. c \notin sent' => work'.call # c
      BY <1>1 DEF InOnePlace
    <2>4. work'.op = "call" /\ work'.call = c /\ work'.at = "sending" => Unheard(c)
      BY <1>1 DEF InOnePlace
    <2> QED BY <1>1, <2>1, <2>2, <2>3, <2>4, PlaceRests
  <1>4. CASE Execute(p)
    <2>1. /\ proc' = [proc EXCEPT ![p].executed = TRUE] /\ ~proc[p].executed
          /\ ran'[c] = IF c = Head(proc[p].inbox) THEN ran[c] + 1 ELSE ran[c]
          /\ proc[p].inbox # <<>> /\ proc[p].inbox \in Seq(Messages)
      BY <1>1, <1>4 DEF Execute, Processes
    <2>2. /\ \A q \in Procs : proc'[q].inbox = proc[q].inbox
          /\ \A q \in Procs : q # p => proc'[q].executed = proc[q].executed
          /\ proc'[p].executed = TRUE
      BY <1>1, <2>1 DEF Processes
    <2>3. \A q \in Procs : \A i \in Nat : Holds(q, i, c)' <=> Holds(q, i, c)
      BY <2>2 DEF Holds
    <2>4. CASE c = Head(proc[p].inbox)
      <3>1. Holds(p, 1, c)
        BY <2>1, <2>4 DEF Holds
      <3>2. ran[c] = 0 /\ ~Unheard(c)
        BY <2>1, <3>1 DEF InOnePlace, Unheard
      <3>3. ran'[c] = 1
        BY <2>1, <2>4, <3>2
      <3>4. \A q \in Procs : \A i \in Nat : Holds(q, i, c)' => q = p /\ i = 1
        BY <2>3, <3>1 DEF InOnePlace
      <3> QED BY <1>1, <2>2, <2>3, <3>2, <3>3, <3>4 DEF InOnePlace
    <2>5. CASE c # Head(proc[p].inbox)
      <3>1. ran'[c] = ran[c] /\ ~Holds(p, 1, c)
        BY <2>1, <2>5 DEF Holds
      <3>2. Unheard(c)' <=> Unheard(c)
        BY <2>3, <3>1 DEF Unheard
      <3>3. \A q \in Procs : \A i \in Nat : Holds(q, i, c)' => ran'[c] = 0 \/ (i = 1 /\ proc'[q].executed)
        BY <2>2, <2>3, <3>1 DEF InOnePlace
      <3> QED BY <1>1, <2>3, <3>1, <3>2, <3>3 DEF InOnePlace
    <2> QED BY <2>4, <2>5
  <1>5. CASE Answer(p)
    <2>1. PICK answer \in {"none", "result", "error"} :
            proc' = [proc EXCEPT ![p].inbox = Tail(@), ![p].executed = FALSE, ![p].answer = answer]
      BY <1>5 DEF Answer
    <2>2. proc[p].inbox \in Seq(Messages) /\ proc[p].inbox # <<>> /\ ran' = ran /\ proc[p].executed
      BY <1>1, <1>5 DEF Answer, HostInv, FirstExecuted, Processes
    <2>3. /\ proc'[p].inbox = Tail(proc[p].inbox)
          /\ \A q \in Procs : q # p => proc'[q] = proc[q]
      BY <1>1, <2>1 DEF Processes
    <2>4. \A i \in Nat : Holds(p, i, c)' => Holds(p, i + 1, c) /\ i + 1 # 1
      <3>1. \A i \in DOMAIN Tail(proc[p].inbox) :
              i + 1 \in DOMAIN proc[p].inbox /\ Tail(proc[p].inbox)[i] = proc[p].inbox[i + 1] /\ i + 1 # 1
        BY <2>2
      <3> QED BY <2>3, <3>1 DEF Holds
    <2>5. \A q \in Procs : \A i \in Nat : q # p => (Holds(q, i, c)' <=> Holds(q, i, c))
      BY <2>3 DEF Holds
    <2>6. Unheard(c) => Unheard(c)'
      BY <2>2, <2>4, <2>5 DEF Unheard
    <2>7. \A i \in Nat : Holds(p, i, c)' => ran'[c] = 0
      BY <2>2, <2>4 DEF InOnePlace
    <2>8. \A q \in Procs : \A i \in Nat : Holds(q, i, c)' => ran'[c] = 0 \/ (i = 1 /\ proc'[q].executed)
      BY <2>2, <2>3, <2>5, <2>7 DEF InOnePlace
    <2>9. \A q, r \in Procs : \A i, j \in Nat : Holds(q, i, c)' /\ Holds(r, j, c)' => q = r /\ i = j
      <3> SUFFICES ASSUME NEW q \in Procs, NEW r \in Procs, NEW i \in Nat, NEW j \in Nat, Holds(q, i, c)', Holds(r, j, c)'
                   PROVE  q = r /\ i = j
        OBVIOUS
      <3> DEFINE k == IF q = p THEN i + 1 ELSE i
                 l == IF r = p THEN j + 1 ELSE j
      <3>1. k \in Nat /\ l \in Nat /\ Holds(q, k, c) /\ Holds(r, l, c)
        BY <2>4, <2>5
      <3>2. q = r /\ k = l
        BY <3>1 DEF InOnePlace
      <3> QED BY <3>2
    <2> QED BY <1>1, <2>2, <2>6, <2>8, <2>9 DEF InOnePlace
  <1> QED BY <1>3, <1>4, <1>5 DEF Process

\* A step of call_once: only CallSends puts a request into an inbox, and only one nobody heard of.
LEMMA PlaceCall ==
  ASSUME HostInv, NEW c \in Calls \ Safe, InOnePlace(c), CallOnce
  PROVE  InOnePlace(c)'
  <1>1. /\ proc \in [Procs -> Processes] /\ work \in Works /\ c \in Calls /\ c # None /\ c # "ping"
        /\ Child \in Procs /\ proc[Child] \in Processes
    BY TargetStarted, SupervisorAssumption DEF HostInv, SupervisorTypeOK
  <1>2. ASSUME NEW rec, NEW result \in {"ok", "final", "restartable"}, Returned(result, rec), ran' = ran, sent' = sent,
               \A p \in Procs : proc'[p].inbox = proc[p].inbox /\ proc'[p].executed = proc[p].executed
        PROVE  InOnePlace(c)'
    <2>1. \/ work' = NoWork
          \/ /\ work'.call = work.call
             /\ work'.at # "sending" \/ (work.op = "call" /\ work.call \in Safe)
      BY <1>2, ReturnedEnds
    <2>2. c \notin sent' => work'.call # c
      BY <2>1, <1>1, <1>2 DEF InOnePlace, NoWork
    <2>3. ~(work'.call = c /\ work'.at = "sending")
      BY <2>1, <1>1 DEF NoWork
    <2> QED BY <1>1, <1>2, <2>2, <2>3, PlaceRests
  <1>3. ASSUME NEW rec, NEW result \in {"ok", "final", "restartable"}, Returned(result, rec), UNCHANGED <<procVars, sent>>
        PROVE  InOnePlace(c)'
    <2>1. proc' = proc /\ ran' = ran /\ sent' = sent
      BY <1>3 DEF procVars
    <2> QED BY <2>1, <1>2, <1>3
  <1>4. CASE CallBlocked \/ CallNotRunning \/ CallInspectFails
    BY <1>3, <1>4 DEF CallBlocked, CallNotRunning, CallInspectFails
  <1>5. CASE CallFindsDead
    BY <1>3, <1>5 DEF CallFindsDead, FoundDead
  <1>6. CASE CallUnanswered
    BY <1>3, <1>6 DEF CallUnanswered, FoundDead
  <1>7. CASE CallAnswered
    <2>1. \A p \in Procs : proc'[p].inbox = proc[p].inbox /\ proc'[p].executed = proc[p].executed
      BY <1>1, <1>7 DEF CallAnswered, Processes
    <2>2. ran' = ran /\ sent' = sent /\ (Returned("ok", Target) \/ Returned("final", Target))
      BY <1>7 DEF CallAnswered
    <2> QED BY <1>2, <2>1, <2>2
  <1>8. CASE CallSends
    <2>0. PICK q \in Procs : q = Child
      BY <1>1
    <2> DEFINE Message == IF work.slot = "cur" /\ work.op = "call" THEN work.call ELSE "ping"
               Old == proc[q].inbox
    <2>1. /\ proc' = [proc EXCEPT ![q].answer = "none", ![q].inbox = Append(@, Message)]
          /\ work.at = "sending" /\ work' = [work EXCEPT !.at = "waiting"] /\ ran' = ran /\ sent' = sent
      BY <1>8, <2>0 DEF CallSends, Reachable
    <2>2. Old \in Seq(Messages)
      BY <1>1, <2>0 DEF Processes
    <2>3. /\ proc'[q].inbox = Append(Old, Message)
          /\ \A p \in Procs : proc'[p].executed = proc[p].executed
          /\ \A p \in Procs : p # q => proc'[p].inbox = proc[p].inbox
      BY <1>1, <2>1 DEF Processes
    <2>4. \A p \in Procs : \A i \in Nat : p # q => (Holds(p, i, c)' <=> Holds(p, i, c))
      BY <2>3 DEF Holds
    <2>5. \A i \in Nat : Holds(q, i, c)' => Holds(q, i, c) \/ (i = Len(Old) + 1 /\ Message = c)
      <3>1. /\ DOMAIN Append(Old, Message) = 1..(Len(Old) + 1) /\ DOMAIN Old = 1..Len(Old) /\ Len(Old) \in Nat
            /\ Append(Old, Message)[Len(Old) + 1] = Message
            /\ \A i \in 1..Len(Old) : Append(Old, Message)[i] = Old[i]
        BY <2>2
      <3> QED BY <2>3, <3>1 DEF Holds
    <2>6. work'.call = work.call /\ work'.at = "waiting"
      BY <1>1, <2>1 DEF Works
    <2>7. CASE Message = c
      <3>1. Unheard(c) /\ c \in sent
        BY <1>1, <2>1, <2>7 DEF InOnePlace
      <3>2. \A p \in Procs : \A i \in Nat : Holds(p, i, c)' => p = q /\ i = Len(Old) + 1
        <4>1. \A p \in Procs : \A i \in Nat : ~Holds(p, i, c)
          BY <3>1 DEF Unheard
        <4> QED BY <1>1, <2>4, <2>5, <4>1 DEF Holds
      <3>3. ran'[c] = 0 /\ c \in sent'
        BY <2>1, <3>1 DEF Unheard
      <3> QED BY <2>6, <3>2, <3>3 DEF InOnePlace
    <2>8. CASE Message # c
      <3>1. \A p \in Procs : \A i \in Nat : Holds(p, i, c)' => Holds(p, i, c)
        <4>1. \A i \in Nat : Holds(q, i, c)' => Holds(q, i, c)
          BY <2>5, <2>8
        <4> QED BY <2>4, <4>1 DEF Holds
      <3>2. Unheard(c) => Unheard(c)'
        BY <2>1, <3>1 DEF Unheard
      <3>3. ran'[c] = ran[c] /\ sent' = sent
        BY <2>1
      <3> QED BY <2>3, <2>6, <3>1, <3>2, <3>3 DEF InOnePlace
    <2> QED BY <2>7, <2>8
  <1> QED BY <1>4, <1>5, <1>6, <1>7, <1>8 DEF CallOnce

\* Stopping and replacing a backend moves no request.
LEMMA PlaceReplace ==
  ASSUME HostInv, NEW c \in Calls \ Safe, InOnePlace(c), Replace
  PROVE  InOnePlace(c)'
  <1>1. /\ proc \in [Procs -> Processes] /\ work \in Works /\ c \in Calls /\ c # None
        /\ Child \in Procs /\ proc[Child] \in Processes
    BY TargetStarted, SupervisorAssumption DEF HostInv, SupervisorTypeOK
  <1>2. ran' = ran /\ sent' = sent
    BY DEF Replace, Stop, StopUnconfirmed, SpawnFails, Spawn, Discard, DiscardUnconfirmed,
           StopConfirmed, StopFails, procVars
  <1>3. \A p \in Procs : proc'[p].inbox = proc[p].inbox /\ proc'[p].executed = proc[p].executed
    <2>1. CASE Stop \/ Discard
      <3>1. proc' = [proc EXCEPT ![Child].life = "exited"]
        BY <2>1 DEF Stop, Discard, StopConfirmed, Gone
      <3> QED BY <1>1, <3>1 DEF Processes
    <2>2. CASE StopUnconfirmed \/ SpawnFails \/ DiscardUnconfirmed
      BY <2>2 DEF StopUnconfirmed, SpawnFails, DiscardUnconfirmed, StopFails, procVars
    <2>3. ASSUME NEW q \in Procs, Spawn(q)
          PROVE  \A p \in Procs : proc'[p].inbox = proc[p].inbox /\ proc'[p].executed = proc[p].executed
      BY <1>1, <2>3 DEF Spawn, Processes
    <2> QED BY <2>1, <2>2, <2>3 DEF Replace
  <1>4. work' = NoWork \/ (work'.call = work.call /\ (work'.at = "sending" /\ work'.op = "call" => work.call \in Safe))
    <2>1. CASE Stop \/ StopUnconfirmed \/ SpawnFails \/ Discard \/ DiscardUnconfirmed
      BY <1>1, <2>1 DEF Stop, StopUnconfirmed, SpawnFails, Discard, DiscardUnconfirmed, Finish, Continue, Works
    <2>2. ASSUME NEW q \in Procs, Spawn(q)
          PROVE  work'.call = work.call /\ (work'.op = "call" => work.call \in Safe)
      BY <1>1, <2>2 DEF Spawn, HostInv, OnlySafeGoOn, Works
    <2> QED BY <2>1, <2>2 DEF Replace
  <1>5. c \notin sent' => work'.call # c
    BY <1>1, <1>2, <1>4 DEF InOnePlace, NoWork
  <1>6. ~(work'.op = "call" /\ work'.call = c /\ work'.at = "sending")
    BY <1>1, <1>4 DEF NoWork
  <1> QED BY <1>1, <1>2, <1>3, <1>5, <1>6, PlaceRests

\* A command of the view: each request is taken once.
LEMMA PlaceCommands ==
  ASSUME HostInv, NEW c \in Calls \ Safe, InOnePlace(c), Commands
  PROVE  InOnePlace(c)'
  <1>1. proc' = proc /\ ran' = ran /\ sent \subseteq sent' /\ c # None /\ c \in Calls
    BY SupervisorAssumption DEF Commands, RetryBackend, ShutdownBackend, AppStatus, RpcCall, procVars
  <1>2. CASE RetryBackend \/ ShutdownBackend
    BY <1>1, <1>2, PlaceRests DEF RetryBackend, ShutdownBackend, Take, NoWork
  <1>3. CASE AppStatus
    <2>1. work' = work /\ sent' = sent
      BY <1>3 DEF AppStatus
    <2>2. c \notin sent' => work'.call # c
      BY <2>1 DEF InOnePlace
    <2>3. work'.op = "call" /\ work'.call = c /\ work'.at = "sending" => Unheard(c)
      BY <2>1 DEF InOnePlace
    <2> QED BY <1>1, <2>2, <2>3, PlaceRests
  <1>4. ASSUME NEW d \in Calls, RpcCall(d)
        PROVE  InOnePlace(c)'
    <2>1. work'.call = d /\ sent' = sent \union {d} /\ d \notin sent
      BY <1>4 DEF RpcCall, Take, NoWork
    <2>2. c = d => Unheard(c)
      BY <2>1 DEF InOnePlace
    <2> QED BY <1>1, <2>1, <2>2, PlaceRests
  <1> QED BY <1>2, <1>3, <1>4 DEF Commands

\* However its answer was lost, no backend executes a request that is not safe to repeat twice: it is still
\* to be sent, in one inbox, or executed.
THEOREM UnsafeOnce == SupervisorSpec => []UnsafeRunsOnce
  <1> DEFINE Placed == \A c \in Calls \ Safe : InOnePlace(c)
  <1>1. SupervisorInit => Placed
    <2> SUFFICES ASSUME SupervisorInit, NEW c \in Calls \ Safe
                 PROVE  InOnePlace(c)
      OBVIOUS
    <2>1. \A p \in Procs : proc[p].inbox = <<>>
      BY DEF SupervisorInit, Unborn
    <2>2. \A p \in Procs : \A i \in Nat : ~Holds(p, i, c)
      BY <2>1 DEF Holds
    <2>3. ran[c] = 0 /\ work.op = "startup" /\ work.call = None /\ c # None
      BY SupervisorAssumption DEF SupervisorInit, NoWork
    <2> QED BY <2>2, <2>3 DEF InOnePlace, Unheard
  <1>2. HostInv /\ Placed /\ [SupervisorNext]_supervisorVars => Placed'
    <2> SUFFICES ASSUME HostInv, [SupervisorNext]_supervisorVars, NEW c \in Calls \ Safe, InOnePlace(c)
                 PROVE  InOnePlace(c)'
      OBVIOUS
    <2>1. CASE OtherWindow \/ UNCHANGED supervisorVars
      <3>1. proc' = proc /\ ran' = ran /\ work' = work /\ sent' = sent
        BY <2>1 DEF OtherWindow, supervisorVars, hostVars
      <3>2. c \notin sent' => work'.call # c
        BY <3>1 DEF InOnePlace
      <3>3. work'.op = "call" /\ work'.call = c /\ work'.at = "sending" => Unheard(c)
        BY <3>1 DEF InOnePlace
      <3> QED BY <3>1, <3>2, <3>3, PlaceRests
    <2> QED BY <2>1, PlaceProcess, PlaceCall, PlaceReplace, PlaceCommands DEF SupervisorNext
  <1>3. Placed => UnsafeRunsOnce
    BY DEF InOnePlace, UnsafeRunsOnce
  <1> QED BY <1>1, <1>2, <1>3, HostTyped, PTL DEF SupervisorSpec

-----------------------------------------------------------------------------
\* Benchmark campaigns

Offered == {"draft", "queued", "paused", "interrupted"}
Over == {"completed", "completed_with_errors", "cancelled"}

\* Only the registered thread is alive, and none in a process that is down.
OneThread ==
  /\ \A t \in Threads : IsAlive(t) => t = worker
  /\ ~up => (rpc = "idle" /\ \A t \in Threads : ~IsAlive(t))

\* What a thread has in hand is where it left it, or was queued again, or is gone.
InHand ==
  \A t \in Threads :
    /\ thread[t].at \in {"claim", "eval"} => thread[t].job \in Sequence
    /\ thread[t].at = "claim" => jobs[thread[t].job] \in Waiting \union {"absent"}
    /\ thread[t].at = "eval" => jobs[thread[t].job] \in {"running", "queued", "absent"}

\* The rows of the jobs go with the row of the campaign, and nothing writes "error".
RowsTogether ==
  /\ \A j \in Sequence : jobs[j] = "absent" <=> status = "absent"
  /\ status # "error"

\* When the campaign is over, a thread is still at its start or past its last write.
OverIsIdle ==
  status \in Over => \A t \in Threads : thread[t].at \in {"dead", "begin", "leaving"}

\* What a thread has counted is still so when it writes, unless a retry was missed.
CountIsTrue ==
  \A t \in Threads : (~missed /\ Exists) =>
    /\ thread[t].at = "completed" => \A j \in Sequence : jobs[j] = "completed"
    /\ thread[t].at = "completed_with_errors" => \A j \in Sequence : jobs[j] \in Terminal

\* A thread past its last write leaves a status to go on from, if a job waits.
WaitingIsOffered ==
  (~missed /\ up /\ JobsIn(Waiting) # {} /\ \A t \in Threads : thread[t].at \in {"dead", "leaving"})
    => status \in Offered

\* A thread that is to look at requested_action finds the request, and one that has
\* looked before the request has not used its last start.
StopIsSeen ==
  /\ wish = "stop" => rpc # "ensuring"
  /\ wish # "stop" => late = 0
  /\ late \in {0, 1}
  /\ \A t \in Threads : wish = "stop" =>
       /\ thread[t].at \in {"begin", "loop", "pick", "claim", "eval"} => action # ""
       /\ thread[t].at \in {"pick", "claim"} => late = 0

CampaignInv ==
  /\ CampaignTypeOK
  /\ OneThread
  /\ InHand
  /\ RowsTogether
  /\ OverIsIdle
  /\ CountIsTrue
  /\ StatusesAgree
  /\ WaitingIsOffered
  /\ StopIsSeen

-----------------------------------------------------------------------------
\* The values the actions give to a thread and to late have the right types.
LEMMA Values ==
  /\ Dead \in Hands
  /\ \A j \in Sequence : [at |-> "claim", job |-> j] \in Hands
  /\ \A p \in Places : [at |-> p, job |-> 0] \in Hands
  /\ \A h \in Hands, p \in Places : [h EXCEPT !.at = p] \in Hands
  /\ 0 \in Lates
  /\ \A n \in Lates : n < MaxLate => n + 1 \in Lates
BY CampaignAssumption DEF Dead, Hands, Places, Sequence, Lates, MaxLate

\* A thread that moves takes one of these values, the others keep theirs.
LEMMA Moves ==
  ASSUME CampaignTypeOK, NEW t \in Threads, NEW h \in Hands, thread' = [thread EXCEPT ![t] = h]
  PROVE  thread' \in [Threads -> Hands]
BY DEF CampaignTypeOK

\* The same for a thread that keeps its job.
LEMMA Goes ==
  ASSUME CampaignTypeOK, NEW t \in Threads, NEW p \in Places, Goto(t, p)
  PROVE  /\ thread' \in [Threads -> Hands]
         /\ thread' = [thread EXCEPT ![t] = [thread[t] EXCEPT !.at = p]]
BY Values DEF CampaignTypeOK, Goto

\* An update of the jobs' rows keeps their type.
LEMMA JobsTyped ==
  ASSUME CampaignTypeOK, NEW s \in JobStatus, NEW js, SetJobs(js, s)
  PROVE  jobs' \in [Sequence -> JobStatus]
BY DEF CampaignTypeOK, SetJobs

\* Every action keeps the types.
LEMMA TypesKept ==
  ASSUME CampaignTypeOK, CampaignNext
  PROVE  CampaignTypeOK'
<1>a. {"queued", "interrupted", "running", "cancelled", "completed", "failed", "timed_out",
       "absent"} \subseteq JobStatus
  BY DEF JobStatus, Terminal, Waiting
<1>b. {"begin", "loop", "cancel", "pause", "pick", "final", "eval", "leaving"} \subseteq Places
  BY DEF Places
<1>c. Counted \subseteq CampaignStatus
  BY DEF Counted, CampaignStatus
<1>d. FinalStatus \in Places
  BY DEF FinalStatus, Places, Counted
<1>1. ASSUME NEW t \in Threads, WorkerStep(t)
      PROVE  CampaignTypeOK'
  <2>1. CASE Begin(t)
    BY <2>1, <1>b, Goes DEF CampaignTypeOK, Begin, SetStatus, CampaignStatus
  <2>2. CASE ReadAction(t)
    <3>1. PICK p \in Places : Goto(t, p)
      BY <2>2, <1>b DEF CampaignTypeOK, ReadAction
    <3> QED BY <2>2, <3>1, Goes DEF CampaignTypeOK, ReadAction
  <2>3. CASE CancelRemaining(t)
    BY <2>3, <1>a, <1>b, Goes, JobsTyped DEF CampaignTypeOK, CancelRemaining, SetStatus, CampaignStatus
  <2>4. CASE PauseNow(t)
    BY <2>4, <1>b, Goes DEF CampaignTypeOK, PauseNow, SetStatus, CampaignStatus
  <2>5. CASE NextJob(t)
    <3>1. CASE Goto(t, "final")
      BY <2>5, <3>1, <1>b, Goes DEF CampaignTypeOK, NextJob
    <3>2. ASSUME NEW j \in JobsIn(Waiting), thread' = [thread EXCEPT ![t] = [at |-> "claim", job |-> j]]
          PROVE  CampaignTypeOK'
      <4>1. [at |-> "claim", job |-> j] \in Hands
        BY <3>2, Values DEF JobsIn
      <4> QED BY <2>5, <3>2, <4>1, Moves DEF CampaignTypeOK, NextJob
    <3> QED BY <2>5, <3>1, <3>2 DEF NextJob
  <2>6. CASE Finalize(t)
    BY <2>6, <1>b, <1>c, Goes DEF CampaignTypeOK, Finalize, SetStatus
  <2>7. CASE Claim(t)
    <3>1. late' \in Lates
      BY <2>7, Values DEF CampaignTypeOK, Claim
    <3> QED BY <2>7, <3>1, <1>a, <1>b, Goes, JobsTyped DEF CampaignTypeOK, Claim, SetStatus, CampaignStatus
  <2>8. CASE EndJob(t)
    <3>1. PICK outcome \in JobStatus : SetJobs({thread[t].job}, outcome)
      BY <2>8, <1>a DEF EndJob, Outcomes
    <3>2. [at |-> "loop", job |-> 0] \in Hands
      BY <1>b, Values
    <3> QED BY <2>8, <3>1, <3>2, Moves, JobsTyped DEF CampaignTypeOK, EndJob
  <2>9. CASE Leave(t)
    BY <2>9, Values, Moves DEF CampaignTypeOK, Leave
  <2>10. CASE CountJobs(t)
    BY <2>10, <1>d, Goes DEF CampaignTypeOK, CountJobs
  <2> QED BY <1>1, <2>1, <2>2, <2>3, <2>4, <2>5, <2>6, <2>7, <2>8, <2>9, <2>10 DEF WorkerStep
<1>2. CASE Create
  BY <1>2, <1>a, Values DEF CampaignTypeOK, Create, GoOn, CampaignStatus
<1>3. CASE StartRead
  BY <1>3 DEF CampaignTypeOK, StartRead
<1>4. CASE StartWrite
  BY <1>4, Values DEF CampaignTypeOK, StartWrite, GoOn, CampaignStatus
<1>5. CASE Resume
  BY <1>5, <1>a, Values, JobsTyped DEF CampaignTypeOK, Resume, GoOn, CampaignStatus
<1>6. CASE EnsureWorker
  <2>1. CASE WorkerAlive
    BY <1>6, <2>1 DEF CampaignTypeOK, EnsureWorker
  <2>2. CASE ~WorkerAlive
    <3>1. PICK t \in Threads : thread' = [thread EXCEPT ![t] = [at |-> "begin", job |-> 0]] /\ worker' = t
      BY <1>6, <2>2 DEF EnsureWorker
    <3>2. [at |-> "begin", job |-> 0] \in Hands
      BY <1>b, Values
    <3> QED BY <1>6, <3>1, <3>2, Moves DEF CampaignTypeOK, EnsureWorker
  <2> QED BY <2>1, <2>2
<1>7. CASE Pause
  BY <1>7, Values DEF CampaignTypeOK, Pause, StopAsked, CampaignStatus
<1>8. CASE Cancel
  <2>1. jobs' \in [Sequence -> JobStatus]
    BY <1>8, <1>a, JobsTyped DEF CampaignTypeOK, Cancel
  <2> QED BY <1>8, <2>1, Values DEF CampaignTypeOK, Cancel, StopAsked, CampaignStatus
<1>9. CASE Delete
  BY <1>9, <1>a, Values DEF CampaignTypeOK, Delete, GoOn, CampaignStatus
<1>10. CASE Crash
  BY <1>10, Values DEF CampaignTypeOK, Crash
<1>11. CASE Recover
  <2>1. jobs' \in [Sequence -> JobStatus]
    BY <1>11, <1>a, JobsTyped DEF CampaignTypeOK, Recover
  <2> QED BY <1>11, <2>1 DEF CampaignTypeOK, Recover, CampaignStatus
<1>12. ASSUME NEW j \in Sequence, RetryJob(j)
       PROVE  CampaignTypeOK'
  BY <1>12, <1>a, Values, JobsTyped DEF CampaignTypeOK, RetryJob, GoOn, CampaignStatus
<1> QED BY <1>1, <1>2, <1>3, <1>4, <1>5, <1>6, <1>7, <1>8, <1>9, <1>10, <1>11, <1>12
         DEF CampaignNext, Rest

-----------------------------------------------------------------------------
\* A thread that goes to another place keeps its job, and the other threads stay.
LEMMA GoesAlone ==
  ASSUME CampaignTypeOK, NEW t \in Threads, NEW p, Goto(t, p)
  PROVE  /\ thread'[t].at = p /\ thread'[t].job = thread[t].job
         /\ \A u \in Threads \ {t} : thread'[u] = thread[u]
BY DEF CampaignTypeOK, Goto, Hands

\* A thread that takes another job, or none, leaves the other threads alone.
LEMMA MovesAlone ==
  ASSUME CampaignTypeOK, NEW t \in Threads, NEW p, NEW j,
         thread' = [thread EXCEPT ![t] = [at |-> p, job |-> j]]
  PROVE  /\ thread'[t].at = p /\ thread'[t].job = j
         /\ \A u \in Threads \ {t} : thread'[u] = thread[u]
BY DEF CampaignTypeOK

\* A step of a thread is the step of the only thread that is alive.
LEMMA WorkerAlone ==
  ASSUME CampaignTypeOK, OneThread, NEW t \in Threads, WorkerStep(t)
  PROVE  /\ UNCHANGED <<worker, rpc, up, wish>>
         /\ up /\ t = worker
         /\ \A u \in Threads \ {t} : thread[u].at = "dead" /\ thread'[u] = thread[u]
<1>1. UNCHANGED <<worker, rpc, up, wish>> /\ IsAlive(t)
  BY DEF WorkerStep, Begin, ReadAction, CancelRemaining, PauseNow, NextJob, CountJobs, Finalize,
         Claim, EndJob, Leave, Counted, IsAlive
<1>2. \A u \in Threads \ {t} : thread'[u] = thread[u]
  <2>1. CASE \E p \in Places : Goto(t, p)
    BY <2>1, GoesAlone
  <2>2. CASE \E p, j : thread' = [thread EXCEPT ![t] = [at |-> p, job |-> j]]
    BY <2>2, MovesAlone
  <2>3. CASE Begin(t) \/ CancelRemaining(t) \/ PauseNow(t) \/ Finalize(t) \/ Claim(t)
    BY <2>1, <2>3 DEF Begin, CancelRemaining, PauseNow, Finalize, Claim, Places
  <2>4. CASE ReadAction(t) \/ CountJobs(t)
    BY <2>1, <2>4 DEF ReadAction, CountJobs, FinalStatus, Counted, Places, CampaignTypeOK
  <2>5. CASE NextJob(t)
    BY <2>1, <2>2, <2>5 DEF NextJob, Places
  <2>6. CASE EndJob(t) \/ Leave(t)
    BY <2>2, <2>6 DEF EndJob, Leave, Dead
  <2> QED BY <2>3, <2>4, <2>5, <2>6 DEF WorkerStep
<1> QED BY <1>1, <1>2 DEF OneThread, IsAlive

\* Only the threads' own steps, a new thread and a crash move threads.
LEMMA ThreadsRest ==
  ASSUME CampaignNext
  PROVE  \/ \E t \in Threads : WorkerStep(t)
         \/ EnsureWorker
         \/ Crash
         \/ thread' = thread
BY DEF CampaignNext, Rest, Create, StartRead, StartWrite, Resume, Pause, Cancel, Delete, Recover,
       RetryJob

\* Every action keeps OneThread.
LEMMA OneThreadKept ==
  ASSUME CampaignTypeOK, OneThread, CampaignNext
  PROVE  OneThread'
<1>1. ASSUME NEW t \in Threads, WorkerStep(t)
      PROVE  OneThread'
  BY <1>1, WorkerAlone DEF OneThread, IsAlive
<1>2. CASE EnsureWorker
  <2>1. CASE WorkerAlive
    BY <1>2, <2>1 DEF EnsureWorker, OneThread, IsAlive
  <2>2. CASE ~WorkerAlive
    <3>1. PICK t \in Threads : thread' = [thread EXCEPT ![t] = [at |-> "begin", job |-> 0]] /\ worker' = t
      BY <1>2, <2>2 DEF EnsureWorker
    <3>2. \A u \in Threads : ~IsAlive(u)
      BY <2>2, CampaignAssumption DEF OneThread, WorkerAlive
    <3>3. \A u \in Threads \ {t} : thread'[u] = thread[u]
      BY <3>1, MovesAlone
    <3> QED BY <1>2, <3>1, <3>2, <3>3 DEF EnsureWorker, OneThread, IsAlive
  <2> QED BY <2>1, <2>2
<1>3. CASE Crash
  BY <1>3 DEF Crash, OneThread, IsAlive, Dead
<1>4. CASE Create
  BY <1>4 DEF Create, Serving, OneThread, IsAlive
<1>5. CASE StartRead \/ StartWrite \/ Resume \/ Pause \/ Cancel \/ Delete \/ \E j \in Sequence : RetryJob(j)
  <2>1. UNCHANGED <<thread, worker, up>>
    BY <1>5 DEF StartRead, StartWrite, Resume, Pause, Cancel, Delete, RetryJob
  <2>2. up
    BY <1>5 DEF StartRead, StartWrite, Resume, Pause, Cancel, Delete, RetryJob, Serving, OneThread
  <2> QED BY <2>1, <2>2 DEF OneThread, IsAlive
<1>6. CASE Recover
  BY <1>6 DEF Recover, OneThread, IsAlive
<1> QED BY <1>1, <1>2, <1>3, <1>4, <1>5, <1>6 DEF CampaignNext, Rest

\* Every action keeps RowsTogether.
LEMMA RowsTogetherKept ==
  ASSUME CampaignTypeOK, RowsTogether, CampaignNext
  PROVE  RowsTogether'
<1>1. ASSUME NEW s, s \notin {"absent", "error"}, SetStatus(s), UNCHANGED jobs
      PROVE  RowsTogether'
  BY <1>1 DEF SetStatus, Exists, RowsTogether
<1>2. ASSUME NEW s, s # "absent", NEW js, SetJobs(js, s), status' # "error",
             status' = "absent" <=> status = "absent"
      PROVE  RowsTogether'
  BY <1>2 DEF SetJobs, Exists, RowsTogether, CampaignTypeOK
<1>3. ASSUME NEW t \in Threads, WorkerStep(t)
      PROVE  RowsTogether'
  <2>1. CASE Begin(t) \/ PauseNow(t)
    BY <1>1, <2>1 DEF Begin, PauseNow
  <2>2. CASE Finalize(t)
    <3>1. thread[t].at \notin {"absent", "error"}
      BY <2>2 DEF Finalize, Counted
    <3> QED BY <1>1, <2>2, <3>1 DEF Finalize
  <2>3. CASE CancelRemaining(t)
    BY <1>2, <2>3 DEF CancelRemaining, SetStatus, Exists, RowsTogether
  <2>4. CASE Claim(t)
    BY <1>2, <2>4 DEF Claim, SetStatus, Exists, RowsTogether
  <2>5. CASE EndJob(t)
    BY <1>2, <2>5 DEF EndJob, Outcomes, RowsTogether
  <2>6. CASE ReadAction(t) \/ NextJob(t) \/ CountJobs(t) \/ Leave(t)
    BY <2>6 DEF ReadAction, NextJob, CountJobs, Leave, RowsTogether
  <2> QED BY <1>3, <2>1, <2>2, <2>3, <2>4, <2>5, <2>6 DEF WorkerStep
<1>4. CASE Create \/ Delete
  BY <1>4 DEF Create, Delete, RowsTogether
<1>5. CASE StartRead \/ StartWrite \/ EnsureWorker \/ Pause \/ Crash
  BY <1>5 DEF StartRead, StartWrite, EnsureWorker, Pause, Crash, Exists, RowsTogether
<1>6. CASE Resume
  BY <1>2, <1>6 DEF Resume, RowsTogether
<1>7. CASE Cancel
  <2>1. CASE WorkerAlive
    BY <1>7, <2>1 DEF Cancel, RowsTogether
  <2>2. CASE ~WorkerAlive
    BY <1>2, <1>7, <2>2 DEF Cancel, Exists
  <2> QED BY <2>1, <2>2
<1>8. CASE Recover
  <2>1. CASE status = "running"
    BY <1>2, <1>8, <2>1 DEF Recover
  <2>2. CASE status # "running"
    BY <1>8, <2>2 DEF Recover, RowsTogether
  <2> QED BY <2>1, <2>2
<1>9. ASSUME NEW j \in Sequence, RetryJob(j)
      PROVE  RowsTogether'
  BY <1>2, <1>9 DEF RetryJob, Exists
<1> QED BY <1>3, <1>4, <1>5, <1>6, <1>7, <1>8, <1>9 DEF CampaignNext, Rest

\* Every action keeps InHand.
LEMMA InHandKept ==
  ASSUME CampaignTypeOK, OneThread, RowsTogether, InHand, CampaignNext
  PROVE  InHand'
<1>1. ASSUME NEW t \in Threads, WorkerStep(t)
      PROVE  InHand'
  <2>1. \A u \in Threads \ {t} : thread'[u].at = "dead"
    BY <1>1, WorkerAlone
  <2>2. CASE NextJob(t)
    <3>1. CASE Goto(t, "final")
      BY <2>1, <3>1, GoesAlone DEF InHand
    <3>2. ASSUME NEW j \in JobsIn(Waiting), thread' = [thread EXCEPT ![t] = [at |-> "claim", job |-> j]]
          PROVE  InHand'
      <4>1. thread'[t].at = "claim" /\ thread'[t].job = j
        BY <3>2, MovesAlone
      <4> QED BY <2>1, <2>2, <3>2, <4>1 DEF NextJob, InHand, JobsIn
    <3> QED BY <2>2, <3>1, <3>2 DEF NextJob
  <2>3. CASE Claim(t)
    <3>1. thread'[t].at = "eval" /\ thread'[t].job = thread[t].job /\ thread[t].job \in Sequence
      BY <2>3, GoesAlone DEF Claim, InHand
    <3>2. jobs'[thread[t].job] \in {"running", "absent"}
      BY <2>3, <3>1 DEF Claim, SetJobs, Exists, RowsTogether
    <3> QED BY <2>1, <3>1, <3>2 DEF InHand
  <2>4. CASE Begin(t) \/ CancelRemaining(t) \/ PauseNow(t) \/ CountJobs(t) \/ Finalize(t)
    <3>1. thread'[t].at \in {"loop", "leaving"} \union Counted
      BY <2>4, GoesAlone DEF Begin, CancelRemaining, PauseNow, CountJobs, Finalize, FinalStatus, Counted
    <3> QED BY <2>1, <3>1 DEF InHand, Counted
  <2>5. CASE ReadAction(t)
    <3>1. thread'[t].at \in {"leaving", "pick", "pause", "cancel"}
      BY <2>5, GoesAlone DEF ReadAction, CampaignTypeOK
    <3> QED BY <2>1, <3>1 DEF InHand
  <2>6. CASE EndJob(t) \/ Leave(t)
    <3>1. thread'[t].at \in {"loop", "dead"}
      BY <2>6, MovesAlone DEF EndJob, Leave, Dead
    <3> QED BY <2>1, <3>1 DEF InHand
  <2> QED BY <1>1, <2>2, <2>3, <2>4, <2>5, <2>6 DEF WorkerStep
<1>2. ASSUME thread' = thread,
             \A j \in Sequence : jobs'[j] = jobs[j] \/ jobs'[j] \in {"queued", "absent"}
      PROVE  InHand'
  BY <1>2 DEF InHand, Waiting
<1>3. ASSUME thread' = thread, \A t \in Threads : ~IsAlive(t)
      PROVE  InHand'
  BY <1>3 DEF InHand, IsAlive
<1>4. CASE EnsureWorker
  <2>1. CASE WorkerAlive
    BY <1>2, <1>4, <2>1 DEF EnsureWorker
  <2>2. CASE ~WorkerAlive
    <3>1. PICK t \in Threads : thread' = [thread EXCEPT ![t] = [at |-> "begin", job |-> 0]]
      BY <1>4, <2>2 DEF EnsureWorker
    <3>2. thread'[t].at = "begin" /\ \A u \in Threads \ {t} : thread'[u] = thread[u]
      BY <3>1, MovesAlone
    <3> QED BY <1>4, <3>2 DEF EnsureWorker, InHand
  <2> QED BY <2>1, <2>2
<1>5. CASE Crash
  BY <1>5 DEF Crash, InHand, Dead
<1>6. CASE Create
  BY <1>3, <1>6 DEF Create
<1>7. CASE StartRead \/ StartWrite \/ Pause
  BY <1>2, <1>7 DEF StartRead, StartWrite, Pause
<1>8. CASE Resume
  BY <1>2, <1>8 DEF Resume, SetJobs, CampaignTypeOK
<1>9. CASE Cancel
  <2>1. CASE WorkerAlive
    BY <1>2, <1>9, <2>1 DEF Cancel
  <2>2. CASE ~WorkerAlive
    BY <1>3, <1>9, <2>2, CampaignAssumption DEF Cancel, OneThread, WorkerAlive
  <2> QED BY <2>1, <2>2
<1>10. CASE Delete
  BY <1>2, <1>10 DEF Delete
<1>11. CASE Recover
  BY <1>3, <1>11 DEF Recover, OneThread
<1>12. ASSUME NEW j \in Sequence, RetryJob(j)
       PROVE  InHand'
  BY <1>2, <1>12 DEF RetryJob, SetJobs, CampaignTypeOK
<1> QED BY <1>1, <1>4, <1>5, <1>6, <1>7, <1>8, <1>9, <1>10, <1>11, <1>12 DEF CampaignNext, Rest

\* Every action keeps OverIsIdle.
LEMMA OverIsIdleKept ==
  ASSUME CampaignTypeOK, OneThread, OverIsIdle, CampaignNext
  PROVE  OverIsIdle'
<1>1. ASSUME NEW t \in Threads, WorkerStep(t)
      PROVE  OverIsIdle'
  <2>1. \A u \in Threads \ {t} : thread'[u].at = "dead"
    BY <1>1, WorkerAlone
  <2>2. CASE Begin(t) \/ Claim(t)
    BY <2>2 DEF Begin, Claim, SetStatus, Exists, OverIsIdle, Over
  <2>3. CASE CancelRemaining(t) \/ PauseNow(t) \/ Finalize(t)
    <3>1. thread'[t].at = "leaving"
      BY <2>3, GoesAlone DEF CancelRemaining, PauseNow, Finalize
    <3> QED BY <2>1, <3>1 DEF OverIsIdle
  <2>4. CASE Leave(t)
    <3>1. thread'[t].at = "dead"
      BY <2>4, MovesAlone DEF Leave, Dead
    <3> QED BY <2>1, <3>1 DEF OverIsIdle
  <2>5. CASE ReadAction(t) \/ NextJob(t) \/ CountJobs(t) \/ EndJob(t)
    BY <2>5 DEF ReadAction, NextJob, CountJobs, EndJob, OverIsIdle
  <2> QED BY <1>1, <2>2, <2>3, <2>4, <2>5 DEF WorkerStep
<1>2. CASE EnsureWorker
  <2>1. CASE WorkerAlive
    BY <1>2, <2>1 DEF EnsureWorker, OverIsIdle
  <2>2. CASE ~WorkerAlive
    <3>1. PICK t \in Threads : thread' = [thread EXCEPT ![t] = [at |-> "begin", job |-> 0]]
      BY <1>2, <2>2 DEF EnsureWorker
    <3>2. thread'[t].at = "begin" /\ \A u \in Threads \ {t} : thread'[u] = thread[u]
      BY <3>1, MovesAlone
    <3> QED BY <1>2, <3>2 DEF EnsureWorker, OverIsIdle
  <2> QED BY <2>1, <2>2
<1>3. CASE Crash
  BY <1>3 DEF Crash, OverIsIdle, Dead
<1>4. CASE Cancel
  <2>1. CASE WorkerAlive
    BY <1>4, <2>1 DEF Cancel, OverIsIdle
  <2>2. CASE ~WorkerAlive
    BY <1>4, <2>2, CampaignAssumption DEF Cancel, OneThread, WorkerAlive, IsAlive, OverIsIdle
  <2> QED BY <2>1, <2>2
<1>5. CASE Create \/ StartRead \/ StartWrite \/ Resume \/ Pause \/ Delete \/ Recover
  <2>1. thread' = thread
    BY <1>5 DEF Create, StartRead, StartWrite, Resume, Pause, Delete, Recover
  <2>2. status' \in Over => status' = status
    BY <1>5 DEF Create, StartRead, StartWrite, Resume, Pause, Delete, Recover, Over
  <2> QED BY <2>1, <2>2 DEF OverIsIdle
<1>6. ASSUME NEW j \in Sequence, RetryJob(j)
      PROVE  OverIsIdle'
  BY <1>6 DEF RetryJob, OverIsIdle, Over
<1> QED BY <1>1, <1>2, <1>3, <1>4, <1>5, <1>6 DEF CampaignNext, Rest

\* Every action keeps CountIsTrue.
LEMMA CountIsTrueKept ==
  ASSUME CampaignTypeOK, OneThread, RowsTogether, CountIsTrue, CampaignNext
  PROVE  CountIsTrue'
<1>1. ASSUME NEW t \in Threads, WorkerStep(t)
      PROVE  CountIsTrue'
  <2>1. \A u \in Threads \ {t} : thread'[u].at = "dead"
    BY <1>1, WorkerAlone
  <2>2. CASE CountJobs(t)
    <3>1. thread'[t].at = FinalStatus /\ jobs' = jobs
      BY <2>2, GoesAlone DEF CountJobs
    <3>2. /\ FinalStatus = "completed" => \A j \in Sequence : jobs[j] = "completed"
          /\ FinalStatus = "completed_with_errors" => \A j \in Sequence : jobs[j] \in Terminal
      BY DEF FinalStatus, JobsIn
    <3> QED BY <2>1, <3>1, <3>2 DEF CountIsTrue
  <2>3. CASE ~CountJobs(t)
    <3>1. thread'[t].at \notin {"completed", "completed_with_errors"}
      <4>1. CASE Begin(t) \/ CancelRemaining(t) \/ PauseNow(t) \/ Finalize(t) \/ Claim(t)
        <5>1. thread'[t].at \in {"loop", "leaving", "eval"}
          BY <4>1, GoesAlone DEF Begin, CancelRemaining, PauseNow, Finalize, Claim
        <5> QED BY <5>1
      <4>2. CASE ReadAction(t)
        <5>1. thread'[t].at \in {"leaving", "pick", "pause", "cancel"}
          BY <4>2, GoesAlone DEF ReadAction, CampaignTypeOK
        <5> QED BY <5>1
      <4>3. CASE NextJob(t) /\ Goto(t, "final")
        BY <4>3, GoesAlone
      <4>4. ASSUME NEW j, thread' = [thread EXCEPT ![t] = [at |-> "claim", job |-> j]]
            PROVE  thread'[t].at = "claim"
        BY <4>4, MovesAlone
      <4>5. CASE EndJob(t) \/ Leave(t)
        BY <4>5, MovesAlone DEF EndJob, Leave, Dead
      <4> QED BY <1>1, <2>3, <4>1, <4>2, <4>3, <4>4, <4>5 DEF WorkerStep, NextJob
    <3> QED BY <2>1, <3>1 DEF CountIsTrue
  <2> QED BY <2>2, <2>3
<1>2. CASE EnsureWorker
  <2>1. CASE WorkerAlive
    BY <1>2, <2>1 DEF EnsureWorker, CountIsTrue, Exists
  <2>2. CASE ~WorkerAlive
    <3>1. PICK t \in Threads : thread' = [thread EXCEPT ![t] = [at |-> "begin", job |-> 0]]
      BY <1>2, <2>2 DEF EnsureWorker
    <3>2. thread'[t].at = "begin" /\ \A u \in Threads \ {t} : thread'[u] = thread[u]
      BY <3>1, MovesAlone
    <3> QED BY <1>2, <3>2 DEF EnsureWorker, CountIsTrue, Exists
  <2> QED BY <2>1, <2>2
<1>3. CASE Crash
  BY <1>3 DEF Crash, CountIsTrue, Dead
<1>4. ASSUME thread' = thread, \A t \in Threads : ~IsAlive(t)
      PROVE  CountIsTrue'
  BY <1>4 DEF CountIsTrue, IsAlive
<1>5. CASE Create \/ Recover
  BY <1>4, <1>5 DEF Create, Recover, OneThread
<1>6. CASE StartRead \/ StartWrite \/ Pause
  <2>1. UNCHANGED <<thread, jobs, missed>>
    BY <1>6 DEF StartRead, StartWrite, Pause
  <2>2. Exists' => Exists
    BY <1>6 DEF StartRead, StartWrite, Pause, Exists
  <2> QED BY <2>1, <2>2 DEF CountIsTrue
<1>7. CASE Resume
  <2>1. \A j \in Sequence : jobs[j] \in Terminal => jobs'[j] = jobs[j]
    BY <1>7 DEF Resume, SetJobs, JobsIn, Terminal, CampaignTypeOK
  <2>2. Exists' => Exists
    BY <1>7 DEF Resume, Exists
  <2>3. "completed" \in Terminal
    BY DEF Terminal
  <2> QED BY <1>7, <2>1, <2>2, <2>3 DEF Resume, CountIsTrue
<1>8. CASE Cancel
  <2>1. CASE WorkerAlive
    BY <1>8, <2>1 DEF Cancel, CountIsTrue, Exists
  <2>2. CASE ~WorkerAlive
    BY <1>4, <1>8, <2>2, CampaignAssumption DEF Cancel, OneThread, WorkerAlive
  <2> QED BY <2>1, <2>2
<1>9. CASE Delete
  BY <1>9 DEF Delete, CountIsTrue, Exists
<1>10. ASSUME NEW j \in Sequence, RetryJob(j)
       PROVE  CountIsTrue'
  BY <1>10 DEF RetryJob, CountIsTrue, Counted
<1> QED BY <1>1, <1>2, <1>3, <1>5, <1>6, <1>7, <1>8, <1>9, <1>10 DEF CampaignNext, Rest

\* StatusesAgree, job by job.
AgreeEach ==
  /\ status = "completed" => missed \/ \A j \in Sequence : jobs[j] = "completed"
  /\ status = "completed_with_errors" => missed \/ \A j \in Sequence : jobs[j] \in Terminal
  /\ status = "cancelled" => \A j \in Sequence : jobs[j] \notin Waiting

\* It says the same as StatusesAgree.
LEMMA AgreeSame == (StatusesAgree <=> AgreeEach) /\ (StatusesAgree' <=> AgreeEach')
BY DEF StatusesAgree, AgreeEach, JobsIn

\* Every action keeps it.
LEMMA AgreeKept ==
  ASSUME CampaignTypeOK, RowsTogether, OverIsIdle, CountIsTrue, AgreeEach, CampaignNext
  PROVE  AgreeEach'
<1> USE DEF AgreeEach
<1>1. ASSUME NEW t \in Threads, WorkerStep(t)
      PROVE  AgreeEach'
  <2>1. CASE Begin(t) \/ Claim(t) \/ PauseNow(t)
    BY <2>1 DEF Begin, Claim, PauseNow, SetStatus, Exists
  <2>2. CASE ReadAction(t) \/ NextJob(t) \/ CountJobs(t) \/ Leave(t)
    BY <2>2 DEF ReadAction, NextJob, CountJobs, Leave
  <2>3. CASE CancelRemaining(t)
    BY <2>3 DEF CancelRemaining, SetStatus, SetJobs, JobsIn, Exists, Waiting, CampaignTypeOK
  <2>4. CASE Finalize(t)
    <3>1. /\ status' = (IF Exists THEN thread[t].at ELSE status)
          /\ thread[t].at \in Counted
          /\ missed' = missed /\ jobs' = jobs
      BY <2>4 DEF Finalize, SetStatus
    <3>2. CASE Exists
      BY <3>1, <3>2 DEF CountIsTrue, Counted
    <3>3. CASE ~Exists
      BY <3>1, <3>3
    <3> QED BY <3>2, <3>3
  <2>5. CASE EndJob(t)
    BY <2>5 DEF EndJob, OverIsIdle, Over
  <2> QED BY <1>1, <2>1, <2>2, <2>3, <2>4, <2>5 DEF WorkerStep
<1>2. CASE StartRead \/ StartWrite \/ EnsureWorker \/ Pause \/ Crash
  BY <1>2 DEF StartRead, StartWrite, EnsureWorker, Pause, Crash
<1>3. CASE Create \/ Delete
  BY <1>3 DEF Create, Delete
<1>4. CASE Resume
  BY <1>4 DEF Resume, SetJobs, JobsIn, Terminal, Waiting, CampaignTypeOK
<1>5. CASE Cancel
  <2>1. CASE WorkerAlive
    BY <1>5, <2>1 DEF Cancel
  <2>2. CASE ~WorkerAlive
    BY <1>5, <2>2 DEF Cancel, SetJobs, JobsIn, Exists, Waiting, CampaignTypeOK
  <2> QED BY <2>1, <2>2
<1>6. CASE Recover
  BY <1>6 DEF Recover
<1>7. ASSUME NEW j \in Sequence, RetryJob(j)
      PROVE  AgreeEach'
  BY <1>7 DEF RetryJob
<1> QED BY <1>1, <1>2, <1>3, <1>4, <1>5, <1>6, <1>7 DEF CampaignNext, Rest

\* WaitingIsOffered, job by job.
OfferedEach ==
  (~missed /\ up /\ (\E j \in Sequence : jobs[j] \in Waiting)
      /\ \A t \in Threads : thread[t].at \in {"dead", "leaving"})
    => status \in Offered

\* It says the same as WaitingIsOffered.
LEMMA OfferedSame == (WaitingIsOffered <=> OfferedEach) /\ (WaitingIsOffered' <=> OfferedEach')
BY DEF WaitingIsOffered, OfferedEach, JobsIn

\* Every action keeps it.
LEMMA OfferedKept ==
  ASSUME CampaignTypeOK, OneThread, RowsTogether, CountIsTrue, AgreeEach, OfferedEach, CampaignNext
  PROVE  OfferedEach'
<1>1. ASSUME NEW t \in Threads, WorkerStep(t)
      PROVE  OfferedEach'
  <2>1. \A u \in Threads \ {t} : thread[u].at = "dead" /\ thread'[u].at = "dead"
    BY <1>1, WorkerAlone
  <2>2. CASE Begin(t) \/ Claim(t)
    <3>1. thread'[t].at \in {"loop", "eval"}
      BY <2>2, GoesAlone DEF Begin, Claim
    <3> QED BY <3>1 DEF OfferedEach
  <2>3. CASE ReadAction(t)
    <3>1. Exists => thread'[t].at \in {"pick", "pause", "cancel"}
      BY <2>3, GoesAlone DEF ReadAction, CampaignTypeOK
    <3>2. ~Exists => \A j \in Sequence : jobs'[j] = "absent"
      BY <2>3 DEF ReadAction, Exists, RowsTogether
    <3> QED BY <3>1, <3>2 DEF OfferedEach, Waiting
  <2>4. CASE CancelRemaining(t)
    BY <2>4 DEF CancelRemaining, SetJobs, JobsIn, Exists, RowsTogether, OfferedEach, Waiting, CampaignTypeOK
  <2>5. CASE PauseNow(t)
    BY <2>5 DEF PauseNow, SetStatus, Exists, RowsTogether, OfferedEach, Waiting, Offered
  <2>6. CASE NextJob(t)
    <3>1. CASE Goto(t, "final")
      BY <3>1, GoesAlone DEF OfferedEach
    <3>2. ASSUME NEW j, thread' = [thread EXCEPT ![t] = [at |-> "claim", job |-> j]]
          PROVE  OfferedEach'
      BY <3>2, MovesAlone DEF OfferedEach
    <3> QED BY <2>6, <3>1, <3>2 DEF NextJob
  <2>7. CASE Finalize(t)
    <3>1. /\ status' = (IF Exists THEN thread[t].at ELSE status)
          /\ thread[t].at \in Counted
          /\ missed' = missed /\ jobs' = jobs
      BY <2>7 DEF Finalize, SetStatus
    <3>2. (~missed /\ Exists /\ \E j \in Sequence : jobs[j] \in Waiting)
            => thread[t].at = "interrupted"
      BY <3>1 DEF CountIsTrue, Counted, Waiting, Terminal
    <3> QED BY <3>1, <3>2 DEF Exists, RowsTogether, OfferedEach, Waiting, Offered
  <2>8. CASE EndJob(t)
    <3>1. thread'[t].at = "loop"
      BY <2>8, MovesAlone DEF EndJob
    <3> QED BY <3>1 DEF OfferedEach
  <2>9. CASE Leave(t)
    BY <2>1, <2>9 DEF Leave, OfferedEach
  <2>10. CASE CountJobs(t)
    <3>1. thread'[t].at \in Counted
      BY <2>10, GoesAlone DEF CountJobs, FinalStatus, Counted
    <3> QED BY <3>1 DEF OfferedEach, Counted
  <2> QED BY <1>1, <2>2, <2>3, <2>4, <2>5, <2>6, <2>7, <2>8, <2>9, <2>10 DEF WorkerStep
<1>2. CASE EnsureWorker
  <2>1. CASE WorkerAlive
    BY <1>2, <2>1 DEF EnsureWorker, OfferedEach
  <2>2. CASE ~WorkerAlive
    <3>1. PICK t \in Threads : thread' = [thread EXCEPT ![t] = [at |-> "begin", job |-> 0]]
      BY <1>2, <2>2 DEF EnsureWorker
    <3> QED BY <3>1, MovesAlone DEF OfferedEach
  <2> QED BY <2>1, <2>2
<1>3. CASE Crash
  BY <1>3 DEF Crash, OfferedEach
<1>4. CASE Create \/ Delete
  BY <1>4 DEF Create, Delete, OfferedEach, Offered, Waiting
<1>5. CASE StartRead \/ StartWrite \/ Pause
  BY <1>5 DEF StartRead, StartWrite, Pause, OfferedEach, Offered
<1>6. CASE Resume
  BY <1>6 DEF Resume, SetJobs, JobsIn, OfferedEach, Offered, Waiting, CampaignTypeOK
<1>7. CASE Cancel
  <2>1. CASE WorkerAlive
    BY <1>7, <2>1 DEF Cancel, OfferedEach
  <2>2. CASE ~WorkerAlive
    BY <1>7, <2>2 DEF Cancel, SetJobs, JobsIn, Exists, OfferedEach, Waiting, CampaignTypeOK
  <2> QED BY <2>1, <2>2
<1>8. CASE Recover
  <2>1. CASE status = "running"
    BY <1>8, <2>1 DEF Recover, OfferedEach, Offered
  <2>2. CASE status # "running"
    BY <1>8, <2>2 DEF Recover, CampaignTypeOK, CampaignStatus, RowsTogether, AgreeEach, OfferedEach,
         Offered, Waiting, Terminal
  <2> QED BY <2>1, <2>2
<1>9. ASSUME NEW j \in Sequence, RetryJob(j)
      PROVE  OfferedEach'
  BY <1>9 DEF RetryJob, OfferedEach, Offered
<1> QED BY <1>1, <1>2, <1>3, <1>4, <1>5, <1>6, <1>7, <1>8, <1>9 DEF CampaignNext, Rest

\* Every action keeps StopIsSeen.
LEMMA StopIsSeenKept ==
  ASSUME CampaignTypeOK, OneThread, StopIsSeen, CampaignNext
  PROVE  StopIsSeen'
<1>1. ASSUME NEW t \in Threads, WorkerStep(t)
      PROVE  StopIsSeen'
  <2>1. /\ \A u \in Threads \ {t} : thread'[u].at = "dead"
        /\ rpc' = rpc /\ wish' = wish
    BY <1>1, WorkerAlone
  <2>2. CASE Begin(t)
    <3>1. thread'[t].at = "loop"
      BY <2>2, GoesAlone DEF Begin
    <3> QED BY <2>1, <2>2, <3>1 DEF Begin, StopIsSeen
  <2>3. CASE ReadAction(t)
    <3>1. thread'[t].at \in {"leaving", "pause", "cancel"} \/ (thread'[t].at = "pick" /\ action = "")
      BY <2>3, GoesAlone DEF ReadAction, CampaignTypeOK
    <3> QED BY <2>1, <2>3, <3>1 DEF ReadAction, StopIsSeen
  <2>4. CASE CancelRemaining(t) \/ PauseNow(t) \/ Finalize(t)
    <3>1. thread'[t].at = "leaving" /\ late' = late
      BY <2>4, GoesAlone DEF CancelRemaining, PauseNow, Finalize
    <3> QED BY <2>1, <3>1 DEF StopIsSeen
  <2>5. CASE NextJob(t)
    <3>1. thread'[t].at \in {"final", "claim"}
      <4>1. CASE Goto(t, "final")
        BY <4>1, GoesAlone
      <4>2. ASSUME NEW j, thread' = [thread EXCEPT ![t] = [at |-> "claim", job |-> j]]
            PROVE  thread'[t].at = "claim"
        BY <4>2, MovesAlone
      <4> QED BY <2>5, <4>1, <4>2 DEF NextJob
    <3> QED BY <2>1, <2>5, <3>1 DEF NextJob, StopIsSeen
  <2>6. CASE Claim(t)
    <3>1. thread'[t].at = "eval" /\ action' = action /\ thread[t].at = "claim"
      BY <2>6, GoesAlone DEF Claim
    <3>2. wish = "stop" => (late = 0 /\ action # "")
      BY <3>1 DEF StopIsSeen
    <3>3. late' = IF wish = "stop" THEN 1 ELSE late
      <4>1. wish = "stop" => (late < MaxLate /\ late + 1 = 1)
        <5>1. 0 < MaxLate /\ 0 + 1 = 1
          BY DEF MaxLate
        <5> QED BY <3>2, <5>1
      <4> QED BY <2>6, <4>1 DEF Claim
    <3> QED BY <2>1, <3>1, <3>2, <3>3 DEF StopIsSeen
  <2>7. CASE EndJob(t)
    <3>1. thread'[t].at = "loop"
      BY <2>7, MovesAlone DEF EndJob
    <3> QED BY <2>1, <2>7, <3>1 DEF EndJob, StopIsSeen
  <2>8. CASE Leave(t)
    <3>1. thread'[t].at = "dead"
      BY <2>8, MovesAlone DEF Leave, Dead
    <3> QED BY <2>1, <2>8, <3>1 DEF Leave, StopIsSeen
  <2>9. CASE CountJobs(t)
    <3>1. thread'[t].at \in Counted /\ late' = late
      BY <2>9, GoesAlone DEF CountJobs, FinalStatus, Counted
    <3> QED BY <2>1, <3>1 DEF StopIsSeen, Counted
  <2> QED BY <1>1, <2>2, <2>3, <2>4, <2>5, <2>6, <2>7, <2>8, <2>9 DEF WorkerStep
<1>2. CASE Create \/ StartWrite \/ Resume \/ Delete \/ \E j \in Sequence : RetryJob(j)
  BY <1>2 DEF Create, StartWrite, Resume, Delete, RetryJob, GoOn, StopIsSeen
<1>3. CASE StartRead
  BY <1>3 DEF StartRead, StopIsSeen
<1>4. CASE EnsureWorker
  BY <1>4 DEF EnsureWorker, StopIsSeen
<1>5. CASE Pause
  BY <1>5 DEF Pause, Serving, StopAsked, StopIsSeen
<1>6. CASE Cancel
  <2>1. CASE WorkerAlive
    BY <1>6, <2>1 DEF Cancel, Serving, StopAsked, StopIsSeen
  <2>2. CASE ~WorkerAlive
    <3>1. \A t \in Threads : thread'[t].at = "dead"
      BY <1>6, <2>2, CampaignAssumption DEF Cancel, OneThread, WorkerAlive, IsAlive
    <3> QED BY <1>6, <3>1 DEF Cancel, Serving, StopAsked, StopIsSeen
  <2> QED BY <2>1, <2>2
<1>7. CASE Crash
  BY <1>7 DEF Crash, StopIsSeen, Dead
<1>8. CASE Recover
  BY <1>8 DEF Recover, OneThread, IsAlive, StopIsSeen
<1> QED BY <1>1, <1>2, <1>3, <1>4, <1>5, <1>6, <1>7, <1>8 DEF CampaignNext, Rest

-----------------------------------------------------------------------------
\* The invariant of the campaign, for any number of jobs and thread names.
THEOREM CampaignInvariant == CampaignSpec => []CampaignInv
<1>1. CampaignInit => CampaignInv
  <2> SUFFICES ASSUME CampaignInit PROVE CampaignInv
    OBVIOUS
  <2>1. CampaignTypeOK
    <3>1. jobs \in [Sequence -> JobStatus] /\ thread \in [Threads -> Hands] /\ late \in Lates
      BY Values DEF CampaignInit, JobStatus
    <3> QED BY <3>1 DEF CampaignInit, CampaignTypeOK, CampaignStatus
  <2>2. OneThread /\ InHand /\ RowsTogether /\ OverIsIdle /\ CountIsTrue
    BY DEF CampaignInit, OneThread, IsAlive, InHand, RowsTogether, OverIsIdle, Over, CountIsTrue, Dead
  <2>3. AgreeEach /\ OfferedEach
    BY DEF CampaignInit, AgreeEach, OfferedEach, Waiting
  <2>4. StopIsSeen
    BY DEF CampaignInit, StopIsSeen, Dead
  <2> QED BY <2>1, <2>2, <2>3, <2>4, AgreeSame, OfferedSame DEF CampaignInv
<1>2. CampaignInv /\ [CampaignNext]_campaignVars => CampaignInv'
  <2> SUFFICES ASSUME CampaignInv, [CampaignNext]_campaignVars PROVE CampaignInv'
    OBVIOUS
  <2>1. CASE CampaignNext
    <3>1. CampaignTypeOK /\ OneThread /\ InHand /\ RowsTogether /\ OverIsIdle /\ CountIsTrue
          /\ AgreeEach /\ OfferedEach /\ StopIsSeen
      BY AgreeSame, OfferedSame DEF CampaignInv
    <3>2. CampaignTypeOK' /\ OneThread' /\ InHand' /\ RowsTogether' /\ OverIsIdle' /\ CountIsTrue'
      BY <2>1, <3>1, TypesKept, OneThreadKept, InHandKept, RowsTogetherKept, OverIsIdleKept,
         CountIsTrueKept
    <3>3. AgreeEach' /\ OfferedEach' /\ StopIsSeen'
      BY <2>1, <3>1, AgreeKept, OfferedKept, StopIsSeenKept
    <3> QED BY <3>2, <3>3, AgreeSame, OfferedSame DEF CampaignInv
  <2>2. CASE UNCHANGED campaignVars
    <3> USE <2>2 DEF campaignVars
    <3>1. CampaignTypeOK'
      BY DEF CampaignInv, CampaignTypeOK
    <3>2. OneThread' /\ InHand'
      BY DEF CampaignInv, OneThread, IsAlive, InHand
    <3>3. RowsTogether' /\ OverIsIdle'
      BY DEF CampaignInv, RowsTogether, OverIsIdle
    <3>4. CountIsTrue'
      BY DEF CampaignInv, CountIsTrue, Exists
    <3>5. StatusesAgree' /\ WaitingIsOffered'
      BY DEF CampaignInv, StatusesAgree, WaitingIsOffered, JobsIn
    <3>6. StopIsSeen'
      BY DEF CampaignInv, StopIsSeen
    <3> QED BY <3>1, <3>2, <3>3, <3>4, <3>5, <3>6 DEF CampaignInv
  <2> QED BY <2>1, <2>2
<1> QED BY <1>1, <1>2, PTL DEF CampaignSpec

\* Rows, threads and requests keep their types.
THEOREM CampaignTypes == CampaignSpec => []CampaignTypeOK
<1>1. CampaignInv => CampaignTypeOK
  BY DEF CampaignInv
<1> QED BY <1>1, CampaignInvariant, PTL

\* A campaign's last status is true of its jobs.
THEOREM StatusIsTrue == CampaignSpec => []StatusesAgree
<1>1. CampaignInv => StatusesAgree
  BY DEF CampaignInv
<1> QED BY <1>1, CampaignInvariant, PTL

\* After a pause or cancel at most one more job begins.
THEOREM StopsAfterOne == CampaignSpec => []AtMostOneMore
<1>1. CampaignInv => AtMostOneMore
  <2>1. 0 <= 1 /\ 1 <= 1
    OBVIOUS
  <2>2. CampaignInv => late = 0 \/ late = 1
    BY DEF CampaignInv, StopIsSeen
  <2> QED BY <2>1, <2>2 DEF AtMostOneMore
<1> QED BY <1>1, CampaignInvariant, PTL

\* No waiting job is stranded in a status without a button to go on.
THEOREM NeverStranded == CampaignSpec => []ResumeIsOffered
<1>1. CampaignInv => ResumeIsOffered
  BY DEF CampaignInv, WaitingIsOffered, ResumeIsOffered, Offered, IsAlive
<1> QED BY <1>1, CampaignInvariant, PTL

\* A job that has ended changes only by a retry of it or the campaign's deletion.
THEOREM OutcomesKept == CampaignSpec => FinishedJobsStay
<1> DEFINE Stays == \A j \in Sequence : jobs[j] \in Terminal =>
                      \/ jobs'[j] = jobs[j]
                      \/ jobs'[j] = "queued" /\ status' = "queued"
                      \/ jobs'[j] = "absent"
<1>1. CampaignInv /\ CampaignNext => Stays
  <2> SUFFICES ASSUME CampaignInv, CampaignNext, NEW j \in Sequence, jobs[j] \in Terminal
               PROVE  \/ jobs'[j] = jobs[j]
                      \/ jobs'[j] = "queued" /\ status' = "queued"
                      \/ jobs'[j] = "absent"
    OBVIOUS
  <2> USE DEF CampaignInv, CampaignTypeOK
  <2>1. ASSUME NEW s, NEW S, S \intersect Terminal = {}, SetJobs(JobsIn(S), s)
        PROVE  jobs'[j] = jobs[j]
    BY <2>1 DEF SetJobs, JobsIn
  <2>2. /\ Waiting \intersect Terminal = {} /\ {"interrupted"} \intersect Terminal = {}
        /\ {"running"} \intersect Terminal = {}
    BY DEF Waiting, Terminal
  <2>3. ASSUME NEW t \in Threads, WorkerStep(t)
        PROVE  jobs'[j] = jobs[j]
    <3>1. CASE Claim(t)
      BY <3>1 DEF Claim, SetJobs, InHand, Waiting, Terminal
    <3>2. CASE EndJob(t)
      BY <3>2 DEF EndJob, SetJobs, InHand, Terminal
    <3>3. CASE CancelRemaining(t)
      BY <2>1, <2>2, <3>3 DEF CancelRemaining
    <3> QED BY <2>3, <3>1, <3>2, <3>3 DEF WorkerStep, Begin, ReadAction, PauseNow, NextJob, CountJobs,
             Finalize, Leave
  <2>4. CASE StartRead \/ StartWrite \/ EnsureWorker \/ Pause \/ Crash
    BY <2>4 DEF StartRead, StartWrite, EnsureWorker, Pause, Crash
  <2>5. CASE Create
    BY <2>5 DEF Create, Exists, RowsTogether, Terminal
  <2>6. CASE Resume
    BY <2>1, <2>2, <2>6 DEF Resume
  <2>7. CASE Cancel
    BY <2>1, <2>2, <2>7 DEF Cancel
  <2>8. CASE Delete
    BY <2>8 DEF Delete
  <2>9. CASE Recover
    BY <2>1, <2>2, <2>9 DEF Recover
  <2>10. ASSUME NEW k \in Sequence, RetryJob(k)
         PROVE  jobs'[j] = jobs[j] \/ (jobs'[j] = "queued" /\ status' = "queued")
    BY <2>10 DEF RetryJob, SetJobs
  <2> QED BY <2>3, <2>4, <2>5, <2>6, <2>7, <2>8, <2>9, <2>10 DEF CampaignNext, Rest
<1>2. CampaignInv /\ [CampaignNext]_campaignVars => [Stays]_campaignVars
  BY <1>1
<1> QED BY <1>2, CampaignInvariant, PTL DEF CampaignSpec, FinishedJobsStay

\* The status is true of the jobs, and no waiting job is stranded.
THEOREM StatusesTrue == CampaignSpec => []StatusesAreTrue
<1>1. StatusesAgree /\ ResumeIsOffered => StatusesAreTrue
  BY DEF StatusesAreTrue
<1> QED BY <1>1, StatusIsTrue, NeverStranded, PTL
=============================================================================
