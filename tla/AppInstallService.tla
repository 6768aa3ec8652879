---------------------------- MODULE AppInstallService ----------------------------
(***************************************************************************)
(* The methods of com.webos.appInstallService, over the promise of         *)
(* AppInstaller (CommandRegistry): requests that are answered at once,     *)
(* removes whose message is kept until applicationManager has answered or  *)
(* timed out, and the subscriptions to what happens to the commands.       *)
(*                                                                         *)
(* The dev methods have the control of the others; what they change for a  *)
(* command is in AppInstaller.                                             *)
(***************************************************************************)
EXTENDS Naturals

CONSTANTS
    AppId,
    Request,        \* messages; one is used again when its client has left
    SendMayFail,    \* whether getAppInfo may fail to be sent
    MayBeUntimed    \* requests for which LSCallSetTimeout may fail

ASSUME ServiceAssumption == SendMayFail \in BOOLEAN /\ MayBeUntimed \subseteq Request

Method == {"install", "remove", "status"}

VARIABLES
    phase, owed,    \* of CommandRegistry
    method, id,     \* of each request
    state,          \* "free", "asked" while getAppInfo is pending, "accepted", "refused"
    answers,        \* number of responses to a request
    refs,           \* references the service holds to its message
    timed,          \* requests whose getAppInfo call has a timeout
    subscribed,     \* requests with a subscription to "status_<id>" or "status"
    heard           \* what the client of each request was told last about each id

engineVars == <<phase, owed>>
requestVars == <<method, id, state, answers, refs, timed>>
vars == <<engineVars, requestVars, subscribed, heard>>

Engine == INSTANCE CommandRegistry

Nothing == [a \in AppId |-> "nothing"]

Init ==
    /\ Engine!Init
    /\ method = [r \in Request |-> "status"]
    /\ id \in [Request -> AppId]
    /\ state = [r \in Request |-> "free"]
    /\ answers = [r \in Request |-> 0]
    /\ refs = [r \in Request |-> 0]
    /\ timed = {}
    /\ subscribed = {}
    /\ heard = [r \in Request |-> Nothing]

---------------------------------------------------------------------------
(* Answers.                                                                *)

Respond(r, s) ==
    /\ state' = [state EXCEPT ![r] = s]
    /\ answers' = [answers EXCEPT ![r] = @ + 1]

\* LSUtils::replyError
ReplyError(r) ==
    /\ Respond(r, "refused")
    /\ UNCHANGED <<engineVars, subscribed, heard>>

\* LSSubscriptionAdd, if the client asked for it, may fail; the answer says whether it did.
Subscribe(r) == subscribed' \in {subscribed, subscribed \cup {r}}

\* Mutant of Known: only while the command runs.
KnownWhileActive(a) == phase[a] = "active"

\* AppInstaller::isAppKnown
Known(a) == phase[a] # "idle"

\* Mutant of Command: a second request joins the command there is.
CommandJoined(r, a) ==
    /\ phase' = [phase EXCEPT ![a] = "active"]
    /\ UNCHANGED owed
    /\ Respond(r, "accepted") /\ Subscribe(r)
    /\ heard' = [heard EXCEPT ![r][a] = "active"]

\* install or remove of AppInstaller and what the handler makes of the result.
Command(r, a) ==
    IF Known(a) THEN ReplyError(r)
    ELSE /\ phase' = [phase EXCEPT ![a] = "active"]
         /\ UNCHANGED owed
         /\ Respond(r, "accepted") /\ Subscribe(r)
         /\ heard' = [heard EXCEPT ![r][a] = "active"]

---------------------------------------------------------------------------
(* Methods.  A handler does not run between the release of a failed        *)
(* install and its rollback: the two are dispatched in one turn.           *)

Received(r, m) ==
    /\ ~Engine!Undoing
    /\ state[r] = "free"
    /\ method' = [method EXCEPT ![r] = m]
    /\ \E a \in AppId : id' = [id EXCEPT ![r] = a]

\* cb_install and cb_dev_install
Install(r) ==
    /\ Received(r, "install")
    /\ ReplyError(r) \/ Command(r, id'[r])
    /\ UNCHANGED <<refs, timed>>

\* Mutant of SetTimeout: there is none.
NoTimeout(r) == UNCHANGED timed

SetTimeout(r) == timed' = timed \cup {r} \/ (r \in MayBeUntimed /\ UNCHANGED timed)

\* cb_remove and cb_dev_remove: refused, or applicationManager is asked about the app.
Remove(r) ==
    /\ Received(r, "remove")
    /\ \/ /\ ReplyError(r)
          /\ UNCHANGED <<refs, timed>>
       \/ /\ state' = [state EXCEPT ![r] = "asked"]
          /\ refs' = [refs EXCEPT ![r] = @ + 1]
          /\ SetTimeout(r)
          /\ UNCHANGED <<engineVars, answers, subscribed, heard>>

\* The message was referenced for the call, and is released.
RemoveNotSent(r) ==
    /\ SendMayFail
    /\ Received(r, "remove")
    /\ ReplyError(r)
    /\ UNCHANGED <<refs, timed>>

\* LSMessageUnref, and the bus forgets the call.
Unref(r) == refs' = [refs EXCEPT ![r] = @ - 1]

\* cb_appinfoCallback with an answer of applicationManager.
AppInfoReplied(r) ==
    /\ ~Engine!Undoing
    /\ state[r] = "asked"
    /\ ReplyError(r) \/ Command(r, id[r])
    /\ Unref(r) /\ timed' = timed \ {r}
    /\ UNCHANGED <<method, id>>

\* Mutant of TimedOutCall: the call is still open.
TimedOutCallKept(r) ==
    /\ answers' = [answers EXCEPT ![r] = @ + 1]
    /\ timed' = timed \ {r}
    /\ UNCHANGED <<state, refs, engineVars, subscribed, heard>>

TimedOutCall(r) == ReplyError(r) /\ Unref(r) /\ timed' = timed \ {r}

\* cb_appinfoCallback with the error the bus makes of a timeout.
AppInfoTimedOut(r) ==
    /\ ~Engine!Undoing
    /\ r \in timed
    /\ TimedOutCall(r)
    /\ UNCHANGED <<method, id>>

\* toJValue: one element for each task in the map.
Snapshot == [a \in AppId |-> IF phase[a] = "idle" THEN "nothing" ELSE phase[a]]

Status(r) ==
    /\ Received(r, "status")
    /\ \/ /\ Respond(r, "accepted") /\ Subscribe(r)
          /\ heard' = [heard EXCEPT ![r] = Snapshot]
          /\ UNCHANGED engineVars
       \/ ReplyError(r)
    /\ UNCHANGED <<refs, timed>>

\* The client of an answered request leaves or cancels its subscription.
Leave(r) ==
    /\ state[r] \in {"accepted", "refused"}
    /\ state' = [state EXCEPT ![r] = "free"]
    /\ answers' = [answers EXCEPT ![r] = 0]
    /\ subscribed' = subscribed \ {r}
    /\ heard' = [heard EXCEPT ![r] = Nothing]
    /\ UNCHANGED <<engineVars, method, id, refs, timed>>

---------------------------------------------------------------------------
(* AppInstaller.                                                           *)

\* Mutant of Listeners: "status" is forgotten.
ListenersOfId(a) == {r \in subscribed : method[r] # "status" /\ id[r] = a}

\* "status_<id>" has the clients of install and remove, "status" those of status.
Listeners(a) == {r \in subscribed : method[r] = "status" \/ id[r] = a}

\* onUpdateTask
Post(a, p) ==
    heard' = [r \in Request |-> IF r \in Listeners(a) THEN [heard[r] EXCEPT ![a] = p] ELSE heard[r]]

StatusChanged(a) ==
    /\ ~Engine!Undoing
    /\ phase[a] = "active"
    /\ Post(a, "active")
    /\ UNCHANGED <<engineVars, requestVars, subscribed>>

\* The last status is a verdict (EndsWithVerdict of AppInstaller).
CommandEnds(a) ==
    /\ Engine!End(a)
    /\ Post(a, "ended")
    /\ UNCHANGED <<requestVars, subscribed>>

EngineStep(a) ==
    /\ Engine!Release(a) \/ Engine!Undo(a)
    /\ UNCHANGED <<requestVars, subscribed, heard>>

\* The daemon restarts; the bus tells the clients that it is gone.
Crash ==
    /\ Engine!Forget
    /\ state' = [r \in Request |-> "free"]
    /\ answers' = [r \in Request |-> 0]
    /\ refs' = [r \in Request |-> 0]
    /\ timed' = {} /\ subscribed' = {}
    /\ heard' = [r \in Request |-> Nothing]
    /\ UNCHANGED <<method, id>>

Next ==
    \/ \E r \in Request :
        \/ Install(r) \/ Remove(r) \/ RemoveNotSent(r) \/ Status(r)
        \/ AppInfoReplied(r) \/ AppInfoTimedOut(r) \/ Leave(r)
    \/ \E a \in AppId : StatusChanged(a) \/ CommandEnds(a) \/ EngineStep(a)
    \/ Crash

Spec == Init /\ [][Next]_vars

(***************************************************************************)
(* Timeouts fire; applicationManager need not answer.  Other callbacks may *)
(* come before the timeout, hence the strong fairness; a rollback that is  *)
(* due is dispatched.                                                      *)
(***************************************************************************)
FairSpec ==
    /\ Spec
    /\ \A r \in Request : SF_vars(AppInfoTimedOut(r))
    /\ \A a \in AppId : WF_vars(EngineStep(a))

---------------------------------------------------------------------------
(* Properties.                                                             *)

TypeOK ==
    /\ Engine!TypeOK
    /\ method \in [Request -> Method]
    /\ id \in [Request -> AppId]
    /\ state \in [Request -> {"free", "asked", "accepted", "refused"}]
    /\ answers \in [Request -> Nat]
    /\ refs \in [Request -> {0, 1}]
    /\ timed \subseteq Request
    /\ subscribed \subseteq Request
    /\ heard \in [Request -> [AppId -> {"nothing", "active", "ended"}]]

(***************************************************************************)
(* A request is answered once, however late or early applicationManager    *)
(* answers.  Its message is held exactly while that answer is outstanding. *)
(* A refused request has no subscription.                                  *)
(***************************************************************************)
AnsweredOnce ==
    \A r \in Request :
        /\ answers[r] = IF state[r] \in {"accepted", "refused"} THEN 1 ELSE 0
        /\ refs[r] = IF state[r] = "asked" THEN 1 ELSE 0
        /\ r \in timed => state[r] = "asked"
        /\ r \in subscribed => state[r] = "accepted"

(***************************************************************************)
(* Every command of a client belongs to one accepted request and every     *)
(* acceptance starts a command, although a remove is accepted long after   *)
(* it was asked for: the id may have been taken, or be owed a rollback, in *)
(* between.                                                                *)
(***************************************************************************)
Started(a) == phase[a] = "idle" /\ phase'[a] = "active" /\ a \notin owed

AcceptedNow(a) ==
    {r \in Request : /\ state[r] # "accepted" /\ state'[r] = "accepted"
                     /\ method'[r] # "status" /\ id'[r] = a}

CommandPerAcceptance ==
    [][\A a \in AppId :
         IF Started(a) THEN \E r \in Request : AcceptedNow(a) = {r}
         ELSE AcceptedNow(a) = {}]_vars

(***************************************************************************)
(* A subscribed client that was told last that a command is accepted or    *)
(* under way is right: whatever ended since was posted to it.  This holds  *)
(* for the client whose request was accepted and for one that had the      *)
(* state of all commands from status.                                      *)
(***************************************************************************)
HearsTheTruth ==
    \A r \in subscribed, a \in AppId : heard[r][a] = "active" => phase[a] = "active"

(***************************************************************************)
(* Every remove is answered, also if applicationManager is down, unless    *)
(* its timeout could not be set: the code logs that and goes on.           *)
(***************************************************************************)
EveryRequestAnswered ==
    \A r \in Request \ MayBeUntimed : state[r] = "asked" ~> state[r] # "asked"

\* The service uses AppInstaller as it may be used.
ImplementsRegistry == Engine!Spec

=============================================================================
