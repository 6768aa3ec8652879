-------------------------------- MODULE CallChain --------------------------------
(***************************************************************************)
(* A CallChain and its items: a queue of calls made one after the other,   *)
(* with conditional items put in front when the call they depend on has    *)
(* succeeded.  The chain calls its handler once and deletes itself.        *)
(*                                                                         *)
(* As in AppInstaller a callback of the main loop is a chain of actions:   *)
(* call is the function entered next.                                      *)
(***************************************************************************)
EXTENDS Naturals, Sequences, FiniteSets

CONSTANT
    Packages        \* the services of an app: sequences over "node" and "native"

ASSUME ChainAssumption == Packages \subseteq Seq({"node", "native"})

\* The chains that are built, see Added.
Kind == {"closeInstall", "closeRemove", "appInfo", "manifests", "removeIpk", "removeDb"}
Closing(chain) == chain \in {"closeInstall", "closeRemove"}

Item ==
    {"AppInfo", "AppRemovable", "AppLock", "AppRunning", "AppClose", "SvcClose",
     "RemoveManifest", "AddManifest", "RemoveIpk", "RemoveDb"}

\* Items that call a luna service and wait for one reply.
LSCallItem == Item \ {"AppRemovable", "SvcClose", "RemoveIpk"}

\* Items with OPTION_NONSTOP: a negative result does not end the chain.
NonStop(chain) == IF Closing(chain) THEN {"AppInfo", "AppRunning"} ELSE {}

\* The calls a step adds to its chain, and the conditional ones.
Added(chain) ==
    CASE chain \in {"closeInstall", "closeRemove"} -> <<"AppInfo", "AppRunning", "SvcClose">>
      [] chain = "appInfo"   -> <<"AppInfo">>
      [] chain = "manifests" -> <<"RemoveManifest", "AddManifest">>
      [] chain = "removeIpk" -> <<"RemoveIpk">>
      [] chain = "removeDb"  -> <<"RemoveDb">>

\* The conditional calls: what follows on a call's result, in the order of registration.
AddedIf(chain) ==
    [c \in Item \X BOOLEAN |->
        CASE c = <<"AppInfo", TRUE>> /\ chain = "closeRemove"  -> <<"AppRemovable", "AppLock">>
          [] c = <<"AppInfo", TRUE>> /\ chain = "closeInstall" -> <<"AppLock">>
          [] c = <<"AppRunning", TRUE>> /\ Closing(chain)       -> <<"AppClose">>
          [] OTHER                                              -> << >>]

VARIABLES
    kind,
    sendMayFail,    \* whether a luna call may fail to be sent, as when the bus handle is gone
    m_calls,
    m_conditions,   \* a call, its expected result -> the target calls
    m_finished,
    handled,        \* number of calls of the handler
    verdict,        \* returnValue passed to it
    deleted,
    ran,            \* what run returned: "no" before it is called, "running", "true", "false"
    call, result, failed,   \* the function entered next; its result, errorText # ""
    pending,        \* the item whose reply or child exit is waited for
    appInfo,        \* chain data: "none", or the app found as "fixed" or "removable"
    todo,           \* SvcClose: services not looked at yet
    m_numServices, m_numResponse, m_signaled,
    quits,          \* SvcClose: /quit calls without an answer
    refused,        \* history: a /quit was refused
    deferred,       \* Utils::async
    appLocked       \* lockApp(true) was granted

setting == <<kind, sendMayFail>>
chainVars == <<m_calls, m_conditions, m_finished, handled, verdict>>
callVars  == <<call, result, failed>>
svcVars   == <<todo, m_numServices, m_numResponse, m_signaled, quits, refused>>
vars == <<setting, chainVars, deleted, ran, callVars, pending, appInfo, svcVars, deferred, appLocked>>

Init ==
    /\ kind \in Kind /\ sendMayFail \in BOOLEAN
    /\ m_calls = Added(kind) /\ m_conditions = AddedIf(kind)
    /\ m_finished = FALSE /\ handled = 0 /\ verdict = FALSE /\ deleted = FALSE
    /\ ran = "no"
    /\ call = "none" /\ result = FALSE /\ failed = FALSE
    /\ pending = "none"
    /\ appInfo = "none"
    /\ todo = << >> /\ m_numServices = 0 /\ m_numResponse = 0 /\ m_signaled = FALSE /\ quits = 0
    /\ refused = FALSE
    /\ deferred = << >>
    /\ appLocked = FALSE

---------------------------------------------------------------------------
(* The functions of a chain.                                               *)

AtRest == call = "none"

Enter(f) == call' = f /\ UNCHANGED <<result, failed>>

\* An item's onFinished(r, text), with e standing for text # "".
OnFinished(r, e) == call' = "onCallFinished" /\ result' = r /\ failed' = e

\* CallItem::Call returns b, and run with it if it is still on the stack.
Returns(b) == ran' = IF ran = "running" THEN b ELSE ran

Run ==
    /\ ran = "no" /\ ran' = "running"
    /\ Enter("proceed")
    /\ UNCHANGED <<setting, chainVars, deleted, pending, appInfo, svcVars, deferred, appLocked>>

\* CallChain::proceed
Proceed ==
    /\ call = "proceed"
    /\ IF m_calls = << >>
       THEN call' = "finish" /\ result' = TRUE /\ UNCHANGED failed
       ELSE Enter("Call")
    /\ UNCHANGED <<setting, chainVars, deleted, ran, pending, appInfo, svcVars, deferred, appLocked>>

\* CallChain::finish: call the handler and delete the chain in a later turn of the loop.
Finish ==
    /\ call = "finish"
    /\ Enter("none")
    /\ IF m_finished THEN UNCHANGED <<m_finished, handled, verdict, deferred>>
       ELSE /\ m_finished' = TRUE
            /\ handled' = handled + 1
            /\ verdict' = result
            /\ deferred' = Append(deferred, "delete")
    /\ UNCHANGED <<setting, m_calls, m_conditions, deleted, ran, pending, appInfo, svcVars, appLocked>>

\* CallChain::onCallError
OnCallError ==
    /\ call = "onCallError"
    /\ call' = "finish" /\ result' = FALSE /\ UNCHANGED failed
    /\ UNCHANGED <<setting, chainVars, deleted, ran, pending, appInfo, svcVars, deferred, appLocked>>

\* The targets of the conditions that hold after an item's result.
Matching(item, r) == m_conditions[<<item, r>>]

\* Mutants of Enqueued: the targets come last; the last registered comes first.
EnqueuedLast(matching, calls) == calls \o matching
EnqueuedReversed(matching, calls) ==
    [k \in DOMAIN matching |-> matching[Len(matching) + 1 - k]] \o calls

\* In the order they were registered, before the calls that are left.
Enqueued(matching, calls) == matching \o calls

\* Mutant of GoesOn: OPTION_NONSTOP is not looked at.
GoesOnIfTrue(item, matching) == result \/ matching # << >>

GoesOn(item, matching) == result \/ matching # << >> \/ item \in NonStop(kind)

\* CallChain::onCallFinished, of the item in front.
OnCallFinished ==
    /\ call = "onCallFinished"
    /\ IF m_calls = << >> \/ failed
       THEN /\ call' = "finish" /\ result' = FALSE
            /\ UNCHANGED <<m_calls, m_conditions>>
       ELSE LET item == Head(m_calls)
                matching == Matching(item, result)
            IN  /\ m_calls' = Enqueued(matching, Tail(m_calls))
                /\ m_conditions' = [m_conditions EXCEPT ![<<item, TRUE>>] = << >>,
                                                          ![<<item, FALSE>>] = << >>]
                /\ IF GoesOn(item, matching)
                   THEN call' = "proceed" /\ UNCHANGED result
                   ELSE call' = "finish" /\ result' = FALSE
    /\ UNCHANGED <<setting, m_finished, handled, verdict, deleted, ran, failed, pending, appInfo,
                   svcVars, deferred, appLocked>>

---------------------------------------------------------------------------
(* The items.                                                              *)

Calling(item) == call = "Call" /\ Head(m_calls) = item

\* Mutant of NotSent: nobody is told.
NotSentSilently == Returns("false") /\ Enter("none")

\* onError, then Call returns false.
NotSent == Returns("false") /\ Enter("onCallError")

\* LSCallItem::Call, and RemoveIpk::Call, which may find opkg locked.
CallService(item) ==
    /\ Calling(item)
    /\ item \in LSCallItem \cup {"RemoveIpk"}
    /\ \/ pending' = item /\ Returns("true") /\ Enter("none")
       \/ (sendMayFail \/ item = "RemoveIpk") /\ NotSent /\ UNCHANGED pending
    /\ UNCHANGED <<setting, chainVars, deleted, appInfo, svcVars, deferred, appLocked>>

\* LSCallItem::handler and cbRemoveIpkComplete.
Replied(item) ==
    /\ AtRest /\ pending = item
    /\ pending' = "none"
    /\ UNCHANGED <<setting, chainVars, deleted, ran, svcVars, deferred>>

AppInfoReplied ==
    /\ Replied("AppInfo")
    /\ \/ appInfo' \in {"fixed", "removable"} /\ OnFinished(TRUE, FALSE)
       \/ OnFinished(FALSE, FALSE) /\ UNCHANGED appInfo
    /\ UNCHANGED appLocked

AppLockReplied ==
    /\ Replied("AppLock")
    /\ \/ appLocked' = TRUE /\ OnFinished(TRUE, FALSE)
       \/ OnFinished(FALSE, TRUE) /\ UNCHANGED appLocked
    /\ UNCHANGED appInfo

AppRunningReplied ==
    /\ Replied("AppRunning")
    /\ \E r \in BOOLEAN, e \in BOOLEAN : (e => ~r) /\ OnFinished(r, e)
    /\ UNCHANGED <<appInfo, appLocked>>

\* AppClose and UpdateManifest: an error if refused.
CloseOrManifestReplied ==
    /\ \E item \in {"AppClose", "RemoveManifest", "AddManifest"} : Replied(item)
    /\ \E r \in BOOLEAN : OnFinished(r, ~r)
    /\ UNCHANGED <<appInfo, appLocked>>

\* RemoveDb and RemoveIpk: the outcome is in the chain data, the item is done.
RemoveReplied ==
    /\ \E item \in {"RemoveDb", "RemoveIpk"} : Replied(item)
    /\ OnFinished(TRUE, FALSE)
    /\ UNCHANGED <<appInfo, appLocked>>

\* AppRemovable::Call finishes at once.
CallRemovable ==
    /\ Calling("AppRemovable")
    /\ \/ appInfo = "removable" /\ OnFinished(TRUE, FALSE) /\ UNCHANGED ran
       \/ appInfo # "removable" /\ NotSent
    /\ UNCHANGED <<setting, chainVars, deleted, pending, appInfo, svcVars, deferred, appLocked>>

---------------------------------------------------------------------------
(* SvcClose: stop all services of the app, in parallel.                    *)

\* Mutant of SignalFinished: m_signaled is not tested.
SignalFinishedAgain(s) == m_signaled' = TRUE /\ deferred' = Append(deferred, s)

\* onFinished, deferred and only once; "closed" with success, "failed" with an error.
SignalFinished(s) ==
    IF m_signaled THEN UNCHANGED <<m_signaled, deferred>>
    ELSE m_signaled' = TRUE /\ deferred' = Append(deferred, s)

NumServices(services) == Len(services)

CallSvcClose ==
    /\ Calling("SvcClose")
    /\ IF appInfo = "none"
       THEN SignalFinished("closed") /\ Enter("none") /\ UNCHANGED <<todo, m_numServices>>
       ELSE \E services \in Packages :
                /\ todo' = services /\ m_numServices' = NumServices(services)
                /\ Enter("services")
                /\ UNCHANGED <<m_signaled, deferred>>
    /\ UNCHANGED <<setting, chainVars, deleted, ran, pending, appInfo, m_numResponse, quits, refused,
                   appLocked>>

\* Mutant of NativeClosed: it is not counted as answered.
NativeNotCounted == UNCHANGED m_numResponse

\* pkill has run.
NativeClosed == m_numResponse' = m_numResponse + 1

\* One turn of the loop over the services; a /quit that cannot be sent ends the loop.
CloseService ==
    /\ call = "services" /\ todo # << >>
    /\ \/ /\ Head(todo) = "native" /\ NativeClosed
          /\ todo' = Tail(todo) /\ UNCHANGED <<quits, m_signaled, deferred>>
       \/ /\ Head(todo) = "node" /\ quits' = quits + 1
          /\ todo' = Tail(todo) /\ UNCHANGED <<m_numResponse, m_signaled, deferred>>
       \/ /\ Head(todo) = "node" /\ sendMayFail
          /\ SignalFinished("failed")
          /\ todo' = << >> /\ UNCHANGED <<m_numResponse, quits>>
    /\ UNCHANGED <<setting, chainVars, deleted, ran, callVars, pending, appInfo, m_numServices, refused,
                   appLocked>>

EndOfServices ==
    /\ call = "services" /\ todo = << >>
    /\ Enter("none")
    /\ IF m_numServices = m_numResponse THEN SignalFinished("closed")
       ELSE UNCHANGED <<m_signaled, deferred>>
    /\ UNCHANGED <<setting, chainVars, deleted, ran, pending, appInfo, todo, m_numServices,
                   m_numResponse, quits, refused, appLocked>>

\* Mutant of QuitRefused: it counts as answered.
QuitRefusedCounted ==
    /\ m_numResponse' = m_numResponse + 1
    /\ IF m_numResponse' = m_numServices THEN SignalFinished("closed")
       ELSE UNCHANGED <<m_signaled, deferred>>

QuitRefused == SignalFinished("failed") /\ UNCHANGED m_numResponse

\* SvcClose::cbQuit
QuitReplied ==
    /\ AtRest /\ quits > 0
    /\ quits' = quits - 1
    /\ \/ QuitRefused /\ refused' = TRUE
       \/ /\ m_numResponse' = m_numResponse + 1 /\ UNCHANGED refused
          /\ IF m_numResponse' = m_numServices THEN SignalFinished("closed")
             ELSE UNCHANGED <<m_signaled, deferred>>
    /\ UNCHANGED <<setting, chainVars, deleted, ran, callVars, pending, appInfo, todo, m_numServices,
                   appLocked>>

\* The loop makes the oldest deferred call.
Deferred ==
    /\ AtRest /\ deferred # << >>
    /\ deferred' = Tail(deferred)
    /\ IF Head(deferred) = "delete"
       THEN deleted' = TRUE /\ UNCHANGED callVars
       ELSE OnFinished(Head(deferred) = "closed", Head(deferred) = "failed") /\ UNCHANGED deleted
    /\ UNCHANGED <<setting, chainVars, ran, pending, appInfo, svcVars, appLocked>>

---------------------------------------------------------------------------

Inside ==
    \/ Proceed \/ Finish \/ OnCallError \/ OnCallFinished
    \/ \E item \in Item : CallService(item)
    \/ CallRemovable \/ CallSvcClose \/ CloseService \/ EndOfServices

Reply ==
    \/ AppInfoReplied \/ AppLockReplied \/ AppRunningReplied
    \/ CloseOrManifestReplied \/ RemoveReplied

Next == Run \/ Inside \/ Reply \/ QuitReplied \/ Deferred

Spec == Init /\ [][Next]_vars

(***************************************************************************)
(* Code runs on, the loop makes its deferred calls, and every service that *)
(* was called answers.  Quits are answered one at a time, between other    *)
(* callbacks, hence the strong fairness.                                   *)
(***************************************************************************)
FairSpec ==
    /\ Spec
    /\ WF_vars(Run) /\ WF_vars(Inside) /\ WF_vars(Reply)
    /\ SF_vars(QuitReplied) /\ SF_vars(Deferred)

---------------------------------------------------------------------------
(* Properties.                                                             *)

TypeOK ==
    /\ kind \in Kind /\ sendMayFail \in BOOLEAN
    /\ m_calls \in Seq(Item) /\ m_conditions \in [Item \X BOOLEAN -> Seq(Item)]
    /\ m_finished \in BOOLEAN /\ handled \in {0, 1} /\ verdict \in BOOLEAN /\ deleted \in BOOLEAN
    /\ ran \in {"no", "running", "true", "false"}
    /\ call \in {"none", "proceed", "Call", "services", "onCallFinished", "onCallError", "finish"}
    /\ result \in BOOLEAN /\ failed \in BOOLEAN
    /\ pending \in Item \cup {"none"}
    /\ appInfo \in {"none", "fixed", "removable"}
    /\ todo \in Seq({"node", "native"})
    /\ m_numServices \in Nat /\ m_numResponse \in 0 .. m_numServices /\ quits \in Nat
    /\ m_signaled \in BOOLEAN /\ refused \in BOOLEAN
    /\ deferred \in Seq({"delete", "closed", "failed"})
    /\ appLocked \in BOOLEAN

(***************************************************************************)
(* Items call back through slots bound to the chain, and the chain owns    *)
(* its items.  Once it is deleted no reply, child or deferred call leads   *)
(* to it any more; a late answer to a /quit reaches only its SvcClose.     *)
(***************************************************************************)
NothingReachesDeleted ==
    deleted =>
        /\ call = "none" /\ pending = "none"
        /\ deferred = << >>
        /\ quits > 0 => m_signaled

(***************************************************************************)
(* Four steps return what run returned.  Between callbacks, false means    *)
(* that the handler has run, and a chain that still waits for a reply or a *)
(* child has not called it.                                                *)
(***************************************************************************)
RunTellsTheTruth ==
    AtRest =>
        /\ ran = "false" => handled = 1
        /\ pending # "none" => handled = 0

(***************************************************************************)
(* A known app is locked before anything of it is closed, so that nobody   *)
(* starts it again in between.                                             *)
(***************************************************************************)
LockedBeforeClosed ==
    appInfo # "none" /\ (pending \in {"AppRunning", "AppClose"} \/ quits > 0 \/ m_numResponse > 0)
        => appLocked

\* A remove locks only an app that is removable, and no command locks an unknown one.
OnlyRemovableLocked ==
    appLocked => appInfo # "none" /\ (kind = "closeRemove" => appInfo = "removable")

(***************************************************************************)
(* A chain that closes a known app and reports success has locked it, and  *)
(* each of its services has agreed to quit.                                *)
(***************************************************************************)
ClosedMeansAllClosed ==
    Closing(kind) /\ handled = 1 /\ verdict /\ appInfo # "none" =>
        appLocked /\ m_numResponse = m_numServices /\ quits = 0 /\ ~refused

\* Every chain calls its handler and is deleted.
ChainEnds == <>(handled = 1 /\ deleted)

(***************************************************************************)
(* The chain of AppCloseStep implements the three replies that AppInstaller*)
(* has for it.  The other chains close nothing.                            *)
(***************************************************************************)
InCalls(item) == \E k \in DOMAIN m_calls : m_calls[k] = item

\* It is decided that the chain fails.
Failing == call = "onCallError" \/ (call = "finish" /\ ~result)

\* The reply that is waited for.
CloseStage ==
    IF ~Closing(kind) THEN "closeInfo"
    ELSE IF m_finished THEN IF verdict THEN "closed" ELSE "failed"
    ELSE IF Failing THEN "failed"
    ELSE IF InCalls("AppInfo") \/ InCalls("AppRemovable") THEN "closeInfo"
    ELSE IF InCalls("AppLock") THEN "closeLock" ELSE "closeApp"

\* The chain has gone on with the app locked.
LockTaken == appLocked /\ ~InCalls("AppLock")

Close ==
    INSTANCE AppClosing WITH
        removes   <- kind = "closeRemove",
        stage     <- CloseStage,
        appLocked <- LockTaken

ImplementsAppClosing == Close!Spec

=============================================================================
