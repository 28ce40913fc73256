----------------------------- MODULE Supervisor -----------------------------
(***************************************************************************)
(* The desktop host and the backend processes it starts (lib.rs,           *)
(* BackendClient): the health check at startup, requests with recovery,    *)
(* the user's retry and shutdown; and of each                              *)
(* process what the host depends on: the profile lock it takes first       *)
(* (profile_ownership.py) and the requests it serves one at a time         *)
(* (rpc_server.py, main).  The host works under one mutex, so one piece of *)
(* work is in progress; processes run, die and are stopped beside it.      *)
(*                                                                         *)
(* The host reads an answer without a time limit; waiting is a state.  A   *)
(* process is "closing" once its pipes are closed and it has not exited.   *)
(*                                                                         *)
(* A definition Name_Variant repeats Name with a plausible mistake in it;  *)
(* no specification uses it (README, "How the properties are validated").  *)
(***************************************************************************)
EXTENDS Naturals, Sequences

CONSTANTS
  Calls,   \* requests of the view, each sent once
  Safe,    \* those can_restart_and_retry names
  Procs,   \* backend processes that may be started
  None

ASSUME SupervisorAssumption == Safe \subseteq Calls /\ None \notin Calls \union Procs /\ "ping" \notin Calls

VARIABLES
  proc,     \* the backend processes
  owner,    \* who holds the profile lock: a process, another window's backend, nobody
  client,   \* BackendClient: the current one, and a replacement not yet in place
  work,     \* what holds the mutex, and where it stands
  sent,     \* the requests the view has made
  ran       \* how often a backend executed each request

supervisorVars == <<proc, owner, client, work, sent, ran>>

Messages == Calls \union {"ping"}

\* A process reads its inbox in order; executed tells whether its first request was, answer what it
\* replied to its last one.
Processes == [life : {"none", "starting", "serving", "closing", "exited"}, refused : BOOLEAN,
              inbox : Seq(Messages), executed : BOOLEAN, answer : {"none", "result", "error"}]

Reasons == {"none", "profile_in_use", "stop_unconfirmed"}
Clients == [child : Procs \union {None}, shut : BOOLEAN, degraded : BOOLEAN, blocked : Reasons]
Ops == {"none", "startup", "call", "retry", "shutdown"}
Works == [op : Ops, call : Calls \union {None}, slot : {"cur", "next"}, again : BOOLEAN,
          at : {"idle", "sending", "waiting", "stopping", "spawning", "discarding", "aborted"}]

Unborn == [life |-> "none", refused |-> FALSE, inbox |-> <<>>, executed |-> FALSE, answer |-> "none"]
Fresh(p) == [child |-> p, shut |-> FALSE, degraded |-> FALSE, blocked |-> "none"]
NoWork == [op |-> "none", call |-> None, slot |-> "cur", again |-> FALSE, at |-> "idle"]

\* spawn_for_startup has started its first process.
SupervisorInit ==
  \E p \in Procs :
    /\ proc = [q \in Procs |-> IF q = p THEN [Unborn EXCEPT !.life = "starting"] ELSE Unborn]
    /\ owner \in {None, "elsewhere"}
    /\ client = [cur |-> Fresh(p), next |-> Fresh(None)]
    /\ work = [NoWork EXCEPT !.op = "startup", !.at = "sending"]
    /\ sent = {}
    /\ ran = [c \in Calls |-> 0]

-----------------------------------------------------------------------------
\* A backend process

procVars == <<proc, owner, ran>>
hostVars == <<client, work, sent>>

\* ProfileOwnership, before anything of the profile is touched
TakeProfile(p) ==
  /\ proc[p].life = "starting"
  /\ IF owner = None
       THEN owner' = p /\ proc' = [proc EXCEPT ![p].life = "serving"]
       ELSE proc' = [proc EXCEPT ![p].life = "closing", ![p].refused = TRUE] /\ UNCHANGED owner
  /\ UNCHANGED <<ran, hostVars>>

Execute(p) ==
  /\ proc[p].life = "serving" /\ proc[p].inbox # <<>> /\ ~proc[p].executed
  /\ proc' = [proc EXCEPT ![p].executed = TRUE]
  /\ ran' = [c \in Calls |-> IF c = Head(proc[p].inbox) THEN ran[c] + 1 ELSE ran[c]]
  /\ UNCHANGED <<owner, hostVars>>

\* The host passes over a reply whose id is not that of the request it sent last.
Answer(p) ==
  /\ proc[p].life = "serving" /\ proc[p].executed
  /\ \E answer \in IF Len(proc[p].inbox) = 1 THEN {"result", "error"} ELSE {"none"} :
       proc' = [proc EXCEPT ![p].inbox = Tail(@), ![p].executed = FALSE, ![p].answer = answer]
  /\ UNCHANGED <<owner, ran, hostVars>>

\* It crashes, or leaves main after app.shutdown; only the latter gives the lock back before the exit.
Close(p) ==
  /\ proc[p].life \in {"starting", "serving"}
  /\ proc' = [proc EXCEPT ![p].life = "closing"]
  /\ owner' \in {owner, IF owner = p THEN None ELSE owner}
  /\ UNCHANGED <<ran, hostVars>>

Gone(p) ==
  /\ proc' = [proc EXCEPT ![p].life = "exited"]
  /\ owner' = IF owner = p THEN None ELSE owner

Exit(p) == proc[p].life = "closing" /\ Gone(p) /\ UNCHANGED <<ran, hostVars>>

\* Another window's backend takes the profile, or ends.
OtherWindow ==
  /\ owner \in {None, "elsewhere"}
  /\ owner' = IF owner = None THEN "elsewhere" ELSE None
  /\ UNCHANGED <<proc, ran, hostVars>>

-----------------------------------------------------------------------------
\* The end of a piece of work, and of a call_once in it

Lost(rec) == [rec EXCEPT !.degraded = TRUE]

Finish(rec) == client' = [cur |-> rec, next |-> Fresh(None)] /\ work' = NoWork

Continue(slot, rec, at) ==
  /\ client' = [client EXCEPT ![slot] = rec]
  /\ work' = [work EXCEPT !.at = at]

\* verify_health_with_startup_recovery, on the first process
StartupPinged(result, rec) ==
  IF result = "ok" THEN Finish(rec)
  ELSE IF rec.blocked # "none" THEN Finish(Lost(rec)) ELSE Continue("cur", rec, "stopping")

MayRetry_Always == ~work.again
MayRetry == ~work.again /\ work.call \in Safe

\* call_with_recovery_using, on either attempt
CallReturned(result, rec) ==
  \/ result = "ok" /\ Finish([rec EXCEPT !.degraded = FALSE])
  \/ result = "final" /\ Finish(rec)
  \/ result = "restartable" /\ IF MayRetry THEN Continue("cur", rec, "stopping") ELSE Finish(Lost(rec))

\* The health check of a replacement: in place at startup whatever it says, else only if it passed
ReplacementPinged(result, rec) ==
  \/ work.op = "startup" /\ Finish(IF result = "ok" THEN rec ELSE Lost(rec))
  \/ work.op = "retry" /\ result = "ok" /\ Finish(rec)
  \/ /\ work.op = "call" /\ result = "ok"
     /\ client' = [cur |-> rec, next |-> Fresh(None)]
     /\ work' = [work EXCEPT !.slot = "cur", !.again = TRUE, !.at = "sending"]
  \/ work.op # "startup" /\ result # "ok" /\ Continue("next", rec, "discarding")

Returned(result, rec) ==
  \/ work.slot = "next" /\ ReplacementPinged(result, rec)
  \/ work.slot = "cur" /\ work.op = "startup" /\ StartupPinged(result, rec)
  \/ work.slot = "cur" /\ work.op = "call" /\ CallReturned(result, rec)

-----------------------------------------------------------------------------
\* BackendClient.call_once

Target == client[work.slot]
Child == Target.child

\* The child is seen to be gone, or its pipe closed: blocked_by_exit waits two seconds for the exit
\* code, which a process still closing may outlast.
FoundDead(p) ==
  /\ proc[p].life \in {"closing", "exited"}
  /\ LET shut == [Target EXCEPT !.shut = TRUE]
     IN  IF proc[p].life = "exited" /\ proc[p].refused
         THEN Returned("final", [shut EXCEPT !.blocked = "profile_in_use"])
         ELSE Returned("restartable", shut)
  /\ UNCHANGED <<procVars, sent>>

CallBlocked ==
  /\ work.at = "sending" /\ Target.blocked # "none"
  /\ Returned("final", Target)
  /\ UNCHANGED <<procVars, sent>>

CallNotRunning ==
  /\ work.at = "sending" /\ Target.blocked = "none" /\ Target.shut
  /\ Returned("restartable", Target)
  /\ UNCHANGED <<procVars, sent>>

Reachable == work.at = "sending" /\ Target.blocked = "none" /\ ~Target.shut

CallInspectFails ==
  /\ Reachable
  /\ Returned("final", Target)
  /\ UNCHANGED <<procVars, sent>>

CallFindsDead == Reachable /\ FoundDead(Child)

CallSends ==
  /\ Reachable /\ proc[Child].life \in {"starting", "serving"}
  /\ proc' = [proc EXCEPT ![Child].answer = "none",
                          ![Child].inbox = Append(@, IF work.slot = "cur" /\ work.op = "call" THEN work.call ELSE "ping")]
  /\ work' = [work EXCEPT !.at = "waiting"]
  /\ UNCHANGED <<owner, client, ran, sent>>

CallAnswered ==
  /\ work.at = "waiting" /\ proc[Child].answer # "none"
  /\ Returned(IF proc[Child].answer = "result" THEN "ok" ELSE "final", Target)
  /\ proc' = [proc EXCEPT ![Child].answer = "none"]
  /\ UNCHANGED <<owner, ran, sent>>

\* End of file, or an error reading, which does not mark the client shut
CallUnanswered ==
  /\ work.at = "waiting" /\ proc[Child].answer = "none"
  /\ \/ FoundDead(Child)
     \/ Returned("restartable", Target) /\ UNCHANGED <<procVars, sent>>

-----------------------------------------------------------------------------
\* Stopping a process and starting its replacement

\* stop_child_after_grace_period: it has exited by itself or is killed, unless asking or killing fails.
StopConfirmed(p) == Gone(p) /\ UNCHANGED <<ran, sent>>
StopFails(p) == proc[p].life # "exited" /\ UNCHANGED <<procVars, sent>>

Stopped(rec) == [rec EXCEPT !.shut = TRUE]

Stop ==
  /\ work.at = "stopping"
  /\ StopConfirmed(Child)
  /\ IF work.op = "shutdown" THEN Finish(Stopped(Target)) ELSE Continue("cur", Stopped(Target), "spawning")

StopUnconfirmed_Ignored ==
  /\ work.at = "stopping"
  /\ StopFails(Child)
  /\ IF work.op = "shutdown" THEN Finish(Stopped(Target)) ELSE Continue("cur", Stopped(Target), "spawning")

StopUnconfirmed ==
  /\ work.at = "stopping"
  /\ StopFails(Child)
  /\ Finish(IF work.op = "shutdown" THEN Stopped(Target)
            ELSE [Lost(Stopped(Target)) EXCEPT !.blocked = "stop_unconfirmed"])

\* At startup the host gives up when no process can be started.
SpawnFails ==
  /\ work.at = "spawning"
  /\ IF work.op = "startup" THEN Continue("cur", client.cur, "aborted") ELSE Finish(Lost(client.cur))
  /\ UNCHANGED <<procVars, sent>>

Spawn(p) ==
  /\ work.at = "spawning" /\ proc[p].life = "none"
  /\ proc' = [proc EXCEPT ![p].life = "starting"]
  /\ client' = [client EXCEPT !.next = Fresh(p)]
  /\ work' = [work EXCEPT !.at = "sending", !.slot = "next"]
  /\ UNCHANGED <<owner, ran, sent>>

\* BackendClient::spawn stops a replacement that failed its health check and drops it.
Discard ==
  /\ work.at = "discarding"
  /\ StopConfirmed(Child)
  /\ Finish(IF Target.blocked = "none" THEN Lost(client.cur)
            ELSE [Lost(client.cur) EXCEPT !.blocked = "profile_in_use"])

DiscardUnconfirmed ==
  /\ work.at = "discarding"
  /\ StopFails(Child)
  /\ Finish([Lost(client.cur) EXCEPT !.blocked = "stop_unconfirmed"])

-----------------------------------------------------------------------------
\* The commands of the view

Take(op, call, at) ==
  /\ work.at = "idle"
  /\ work' = [NoWork EXCEPT !.op = op, !.call = call, !.at = at]

RpcCall(c) ==
  /\ c \notin sent
  /\ Take("call", c, "sending")
  /\ sent' = sent \union {c}
  /\ UNCHANGED <<procVars, client>>

RetryBackend == Take("retry", None, "stopping") /\ UNCHANGED <<procVars, client, sent>>

ShutdownBackend == Take("shutdown", None, "stopping") /\ UNCHANGED <<procVars, client, sent>>

\* app_status: is_ready notes an exited child.
AppStatus ==
  /\ work.at = "idle"
  /\ client' = [client EXCEPT !.cur.shut = @ \/ proc[client.cur.child].life = "exited"]
  /\ UNCHANGED <<procVars, work, sent>>

CallOnce ==
  CallBlocked \/ CallNotRunning \/ CallInspectFails \/ CallFindsDead \/ CallSends \/ CallAnswered \/ CallUnanswered

Replace == Stop \/ StopUnconfirmed \/ SpawnFails \/ Discard \/ DiscardUnconfirmed \/ \E p \in Procs : Spawn(p)

Commands == RetryBackend \/ ShutdownBackend \/ AppStatus \/ \E c \in Calls : RpcCall(c)

Process(p) == TakeProfile(p) \/ Execute(p) \/ Answer(p) \/ Close(p) \/ Exit(p)

SupervisorNext == CallOnce \/ Replace \/ Commands \/ OtherWindow \/ \E p \in Procs : Process(p)

SupervisorSpec == SupervisorInit /\ [][SupervisorNext]_supervisorVars

-----------------------------------------------------------------------------
\* Properties

\* Processes and clients keep their types; the current client has a process that was started.
SupervisorTypeOK ==
  /\ proc \in [Procs -> Processes]
  /\ owner \in Procs \union {None, "elsewhere"}
  /\ client \in [cur : Clients, next : Clients]
  /\ client.cur.child # None /\ proc[client.cur.child].life # "none"
  /\ work \in Works
  /\ sent \subseteq Calls
  /\ ran \in [Calls -> Nat]

\* V04_ESSENTIAL_SEMANTICS.md:33, non-idempotent requests are never replayed after a sidecar loss: however
\* its answer was lost, no backend executes such a request twice.
UnsafeRunsOnce == \A c \in Calls \ Safe : ran[c] =< 1

Started(p) == proc[p].life = "none" /\ proc'[p].life # "none"

\* No process is started in place of one that still runs: the current child has exited by then.
ReplacedIsGone == [][\A p \in Procs : Started(p) => proc[client.cur.child].life = "exited"]_supervisorVars

\* A backend blocked for a fixed reason is replaced only at the user's request, never by a call's recovery.
BlockedWaitsForUser ==
  [][\A p \in Procs : Started(p) /\ client.cur.blocked # "none" => work.op = "retry"]_supervisorVars

\* A backend is replaced when it is gone, and when that can help.
RestartsAreSafe == ReplacedIsGone /\ BlockedWaitsForUser

=============================================================================
