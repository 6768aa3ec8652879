----------------------------- MODULE CallChainProofs -----------------------------
(***************************************************************************)
(* Theorems about CallChain, for any services and whatever calls fail to   *)
(* be sent.                                                                *)
(***************************************************************************)
EXTENDS CallChain, TLAPS, SequenceTheorems

---------------------------------------------------------------------------
(* The inductive invariant.                                                *)

ShapeOK ==
    /\ m_finished \in BOOLEAN /\ deleted \in BOOLEAN /\ m_signaled \in BOOLEAN
    /\ handled = IF m_finished THEN 1 ELSE 0
    /\ call \in {"none", "proceed", "Call", "services", "onCallFinished", "onCallError", "finish"}
    /\ pending \in Item \cup {"none"}
    /\ quits \in Nat
    /\ deferred \in {<< >>, <<"delete">>, <<"closed">>, <<"failed">>}

\* A chain is entered, waits for a reply, has a deferred call or has been finished: one of them.
OneWay ==
    /\ call \notin {"none", "services"} => pending = "none" /\ deferred = << >> /\ ~m_finished
    /\ call = "services" => pending = "none" /\ ~m_finished
    /\ pending # "none" => deferred = << >> /\ ~m_finished
    /\ deferred \in {<<"closed">>, <<"failed">>} => m_signaled /\ ~m_finished

\* While SvcClose has not signalled, an answer to a quit finds it in front.
QuitsWaitedFor ==
    quits > 0 /\ ~m_signaled =>
        call \in {"none", "services"} /\ pending = "none" /\ deferred = << >> /\ ~m_finished

\* The chain is deleted by its deferred call and not otherwise.
DeletedOnce ==
    /\ m_finished => deferred = IF deleted THEN << >> ELSE <<"delete">>
    /\ deferred = <<"delete">> => m_finished
    /\ deleted => m_finished

RunOnce ==
    /\ ran = "no" => call = "none" /\ pending = "none" /\ deferred = << >> /\ ~m_finished /\ quits = 0
    /\ ran = "false" => m_finished \/ call \in {"onCallError", "finish"}

IInv == ShapeOK /\ OneWay /\ QuitsWaitedFor /\ DeletedOnce /\ RunOnce

\* The queues that occur are told apart by their length and their head.
LEMMA DeferredQueues ==
    /\ \A s \in {"delete", "closed", "failed"} : << >> # <<s>> /\ Tail(<<s>>) = << >> /\ Head(<<s>>) = s
    /\ <<"delete">> # <<"closed">> /\ <<"delete">> # <<"failed">>
<1>1. \A s \in {"delete", "closed", "failed"} :
         Len(<< >>) = 0 /\ Len(<<s>>) = 1 /\ Tail(<<s>>) = << >> /\ Head(<<s>>) = s
  OBVIOUS
<1>2. QED
  BY <1>1

LEMMA InitEstablishes == ASSUME Init PROVE IInv
<1>1. ShapeOK
  BY DEF Init, ShapeOK
<1>2. OneWay /\ QuitsWaitedFor
  BY DeferredQueues DEF Init, OneWay, QuitsWaitedFor
<1>3. DeletedOnce /\ RunOnce
  BY DeferredQueues DEF Init, DeletedOnce, RunOnce
<1>4. QED
  BY <1>1, <1>2, <1>3 DEF IInv

LEMMA InvariantImplies == IInv => NothingReachesDeleted /\ RunTellsTheTruth
BY SMT DEF IInv, ShapeOK, OneWay, QuitsWaitedFor, DeletedOnce, RunOnce, NothingReachesDeleted,
   RunTellsTheTruth, AtRest

---------------------------------------------------------------------------
(* The functions of a chain.                                               *)

LEMMA ChainKeepsIInv ==
    ASSUME IInv, Run \/ Proceed \/ Finish \/ OnCallError \/ OnCallFinished
    PROVE  IInv'
<1> USE DEF IInv, ShapeOK, OneWay, QuitsWaitedFor, DeletedOnce, RunOnce, svcVars, chainVars, callVars
<1>1. CASE Run
  BY <1>1, SMT DEF Run, Enter
<1>2. CASE Proceed
  BY <1>2, SMT DEF Proceed, Enter
<1>3. CASE Finish
  <2>1. deferred = << >> /\ ~m_finished /\ Append(<< >>, "delete") = <<"delete">>
    BY <1>3 DEF Finish
  <2>2. QED
    BY <1>3, <2>1, SMT DEF Finish, Enter
<1>4. CASE OnCallError
  BY <1>4, SMT DEF OnCallError
<1>5. CASE OnCallFinished
  <2>1. /\ call = "onCallFinished" /\ call' \in {"finish", "proceed"}
        /\ UNCHANGED <<m_finished, handled, deleted, ran, pending, svcVars, deferred>>
    BY <1>5 DEF OnCallFinished
  <2>2. QED
    BY <2>1, SMT
<1>6. QED
  BY <1>1, <1>2, <1>3, <1>4, <1>5

---------------------------------------------------------------------------
(* The items.                                                              *)

LEMMA CallKeepsIInv ==
    ASSUME IInv, (\E item \in Item : CallService(item)) \/ CallRemovable
    PROVE  IInv'
<1> USE DEF IInv, ShapeOK, OneWay, QuitsWaitedFor, DeletedOnce, RunOnce, svcVars, chainVars, callVars
<1>1. ASSUME NEW item \in Item, CallService(item) PROVE IInv'
  <2>1. item # "none"
    BY DEF Item
  <2>2. QED
    BY <1>1, <2>1, SMT DEF CallService, Calling, NotSent, Returns, Enter
<1>2. CASE CallRemovable
  BY <1>2, SMT DEF CallRemovable, Calling, NotSent, Returns, Enter, OnFinished
<1>3. QED
  BY <1>1, <1>2

LEMMA ReplyKeepsIInv == ASSUME IInv, Reply PROVE IInv'
<1>1. /\ call = "none" /\ pending # "none" /\ pending' = "none"
      /\ call' = "onCallFinished"
      /\ UNCHANGED <<chainVars, deleted, ran, svcVars, deferred>>
  <2>1. \A item \in Item : item # "none"
    BY DEF Item
  <2>2. QED
    BY <2>1 DEF Reply, AppInfoReplied, AppLockReplied, AppRunningReplied, CloseOrManifestReplied,
       RemoveReplied, Replied, AtRest, OnFinished, Item
<1>2. QED
  BY <1>1, SMT DEF IInv, ShapeOK, OneWay, QuitsWaitedFor, DeletedOnce, RunOnce, svcVars, chainVars

---------------------------------------------------------------------------
(* SvcClose.                                                               *)

\* An item that signals defers one call the first time, and nothing afterwards.
Signals ==
    /\ m_signaled' \in BOOLEAN
    /\ \/ m_signaled' = m_signaled /\ deferred' = deferred
       \/ /\ ~m_signaled /\ m_signaled'
          /\ deferred' \in {<<"closed">>, <<"failed">>}

LEMMA SignalDefers ==
    ASSUME m_signaled \in BOOLEAN, ~m_signaled => deferred = << >>
    PROVE  /\ \A s \in {"closed", "failed"} : SignalFinished(s) => Signals
           /\ UNCHANGED <<m_signaled, deferred>> => Signals
<1>1. \A s \in {"closed", "failed"} : Append(<< >>, s) = <<s>>
  OBVIOUS
<1>2. ASSUME NEW s \in {"closed", "failed"}, SignalFinished(s) PROVE Signals
  <2>1. CASE m_signaled
    BY <1>2, <2>1 DEF SignalFinished, Signals
  <2>2. CASE ~m_signaled
    BY <1>1, <1>2, <2>2 DEF SignalFinished, Signals
  <2>3. QED
    BY <2>1, <2>2
<1>3. UNCHANGED <<m_signaled, deferred>> => Signals
  BY DEF Signals
<1>4. QED
  BY <1>2, <1>3

\* Where SvcClose acts, nothing is deferred unless it has signalled.
LEMMA SvcCloseAlone ==
    ASSUME IInv, call \in {"Call", "services"} \/ quits > 0
    PROVE  m_signaled \in BOOLEAN /\ (~m_signaled => deferred = << >>)
BY DeferredQueues DEF IInv, ShapeOK, OneWay, QuitsWaitedFor, DeletedOnce

LEMMA SvcCloseKeepsIInv ==
    ASSUME IInv, CallSvcClose \/ CloseService \/ EndOfServices \/ QuitReplied
    PROVE  IInv'
<1> USE DEF IInv, ShapeOK, OneWay, QuitsWaitedFor, DeletedOnce, RunOnce
<1>1. CASE CallSvcClose
  <2>1. /\ call = "Call" /\ call' \in {"none", "services"} /\ Signals
        /\ UNCHANGED <<chainVars, deleted, ran, pending, quits>>
        /\ call' = "services" => UNCHANGED <<m_signaled, deferred>>
    BY <1>1, SvcCloseAlone, SignalDefers DEF CallSvcClose, Calling, Enter
  <2>2. QED
    BY <2>1, DeferredQueues, SMT DEF Signals, chainVars
<1>2. CASE CloseService
  <2>1. /\ call = "services" /\ call' = call /\ Signals
        /\ UNCHANGED <<chainVars, deleted, ran, pending>>
        /\ quits' \in Nat /\ (ran = "no" => quits' = 0)
    BY <1>2, SvcCloseAlone, SignalDefers DEF CloseService, callVars
  <2>2. QED
    BY <2>1, SvcCloseAlone, DeferredQueues, SMT DEF Signals, chainVars
<1>3. CASE EndOfServices
  <2>1. /\ call = "services" /\ call' = "none" /\ Signals
        /\ UNCHANGED <<chainVars, deleted, ran, pending, quits>>
    BY <1>3, SvcCloseAlone, SignalDefers DEF EndOfServices, Enter
  <2>2. QED
    BY <2>1, SvcCloseAlone, DeferredQueues, SMT DEF Signals, chainVars
<1>4. CASE QuitReplied
  <2>1. /\ call = "none" /\ call' = call /\ quits > 0 /\ Signals
        /\ UNCHANGED <<chainVars, deleted, ran, pending>>
        /\ quits' \in Nat
    BY <1>4, SvcCloseAlone, SignalDefers DEF QuitReplied, QuitRefused, AtRest, callVars
  <2>2. QED
    BY <2>1, SvcCloseAlone, DeferredQueues, SMT DEF Signals, chainVars
<1>5. QED
  BY <1>1, <1>2, <1>3, <1>4

---------------------------------------------------------------------------

LEMMA DeferredKeepsIInv == ASSUME IInv, Deferred PROVE IInv'
<1> USE DEF IInv, ShapeOK, OneWay, QuitsWaitedFor, DeletedOnce, RunOnce
<1>1. /\ call = "none" /\ deferred # << >> /\ pending = "none" /\ deferred' = << >>
      /\ UNCHANGED <<chainVars, ran, pending, svcVars>>
      /\ ~m_signaled => quits = 0
  <2>1. /\ call = "none" /\ deferred # << >> /\ deferred' = Tail(deferred)
        /\ UNCHANGED <<chainVars, ran, pending, svcVars>>
    BY DEF Deferred, AtRest
  <2>2. pending = "none" /\ (~m_signaled => quits = 0)
    BY <2>1, SMT
  <2>3. Tail(deferred) = << >>
    BY <2>1, DeferredQueues
  <2>4. QED
    BY <2>1, <2>2, <2>3
<1>2. CASE deferred = <<"delete">>
  <2>1. deleted' /\ UNCHANGED callVars
    BY <1>2, DeferredQueues DEF Deferred
  <2>2. QED
    BY <1>1, <1>2, <2>1, DeferredQueues, SMT DEF chainVars, svcVars, callVars
<1>3. CASE deferred \in {<<"closed">>, <<"failed">>}
  <2>1. call' = "onCallFinished" /\ UNCHANGED deleted
    BY <1>3, DeferredQueues DEF Deferred, OnFinished
  <2>2. QED
    BY <1>1, <1>3, <2>1, DeferredQueues, SMT DEF chainVars, svcVars
<1>4. QED
  BY <1>1, <1>2, <1>3

LEMMA StepKeepsIInv == ASSUME IInv, [Next]_vars PROVE IInv'
<1>1. CASE UNCHANGED vars
  BY <1>1, SMT DEF vars, chainVars, callVars, svcVars, IInv, ShapeOK, OneWay, QuitsWaitedFor,
     DeletedOnce, RunOnce
<1>2. QED
  BY <1>1, ChainKeepsIInv, CallKeepsIInv, ReplyKeepsIInv, SvcCloseKeepsIInv, DeferredKeepsIInv
  DEF Next, Inside

LEMMA InvariantHolds == Spec => []IInv
<1>1. IInv /\ [Next]_vars => IInv'
  BY StepKeepsIInv
<1>2. QED
  BY <1>1, InitEstablishes, PTL DEF Spec

(***************************************************************************)
(* No reply, child or deferred call leads to a deleted chain, for every    *)
(* chain that can be built from these items.                               *)
(***************************************************************************)
THEOREM ChainsAreSafe == Spec => []NothingReachesDeleted
BY InvariantHolds, InvariantImplies, PTL

(***************************************************************************)
(* What run returned agrees with whether the handler has been called.      *)
(***************************************************************************)
THEOREM RunIsTruthful == Spec => []RunTellsTheTruth
BY InvariantHolds, InvariantImplies, PTL

---------------------------------------------------------------------------
(* How far the chains are.                                                 *)

\* The calls that are left of a chain that closes an app.
AtInfo      == <<"AppInfo", "AppRunning", "SvcClose">>
AtRemovable == <<"AppRemovable", "AppLock", "AppRunning", "SvcClose">>
AtLock      == <<"AppLock", "AppRunning", "SvcClose">>
AtRunning   == <<"AppRunning", "SvcClose">>
AtClose     == <<"AppClose", "SvcClose">>
AtServices  == <<"SvcClose">>

Stages == {AtInfo, AtRemovable, AtLock, AtRunning, AtClose, AtServices, << >>}

\* The calls that are left of the others.
OtherStages ==
    {<<"AppInfo">>, <<"RemoveManifest", "AddManifest">>, <<"AddManifest">>, <<"RemoveIpk">>,
     <<"RemoveDb">>, << >>}

ChainTyped ==
    /\ kind \in Kind
    /\ m_conditions \in [Item \X BOOLEAN -> Seq(Item)]
    /\ result \in BOOLEAN /\ failed \in BOOLEAN /\ verdict \in BOOLEAN

\* The item in front is the one that is called and that is waited for; a chain that has succeeded has none left.
FrontIsCalled ==
    /\ ran = "no" => m_calls = Added(kind)
    /\ call = "Call" => m_calls # << >>
    /\ pending # "none" => m_calls # << >> /\ pending = Head(m_calls)
    /\ call = "finish" /\ result => m_calls = << >>
    /\ m_finished /\ verdict => m_calls = << >>

\* No service of the app has been looked at.
SvcUntouched ==
    todo = << >> /\ m_numServices = 0 /\ m_numResponse = 0 /\ quits = 0 /\ ~refused /\ ~m_signaled

\* The chains that close nothing have no conditions, and touch neither lock nor service.
OthersGoStraight ==
    ~Closing(kind) =>
        /\ m_calls \in OtherStages
        /\ \A c \in Item \X BOOLEAN : m_conditions[c] = << >>
        /\ SvcUntouched /\ ~appLocked /\ call # "services" /\ deferred \in {<< >>, <<"delete">>}

\* What a chain that closes an app will put in front.
ConditionsWait ==
    Closing(kind) =>
        /\ m_calls \in Stages
        /\ m_calls = AtRemovable => kind = "closeRemove"
        /\ \A c \in Item \X BOOLEAN :
               c \notin {<<"AppInfo", TRUE>>, <<"AppRunning", TRUE>>} => m_conditions[c] = << >>
        /\ m_calls = AtInfo =>
               m_conditions[<<"AppInfo", TRUE>>] =
                   IF kind = "closeRemove" THEN <<"AppRemovable", "AppLock">> ELSE <<"AppLock">>
        /\ m_calls \in {AtInfo, AtRemovable, AtLock, AtRunning} =>
               m_conditions[<<"AppRunning", TRUE>>] = <<"AppClose">>

\* What is known of the app, and whether it is locked, at each stage.
LockFollows ==
    Closing(kind) =>
        /\ appInfo \in {"none", "fixed", "removable"} /\ appLocked \in BOOLEAN
        /\ m_calls = AtInfo =>
               /\ ~appLocked
               /\ IF call = "onCallFinished" THEN ~failed /\ (result <=> appInfo # "none")
                  ELSE appInfo = "none"
        /\ m_calls = AtRemovable =>
               /\ ~appLocked /\ appInfo # "none"
               /\ call = "onCallFinished" => result /\ ~failed /\ appInfo = "removable"
        /\ m_calls = AtLock =>
               /\ appInfo # "none" /\ (kind = "closeRemove" => appInfo = "removable")
               /\ IF call = "onCallFinished" THEN (result <=> appLocked) /\ (failed <=> ~result)
                  ELSE ~appLocked
        /\ m_calls \in {AtRunning, AtClose, AtServices, << >>} =>
               /\ appLocked <=> appInfo # "none"
               /\ kind = "closeRemove" /\ appInfo # "none" => appInfo = "removable"
        /\ m_calls \in {AtClose, AtServices} /\ call = "onCallFinished" => (failed <=> ~result)

\* The services that have answered, were asked or are still to be looked at.
Refusals == IF refused THEN 1 ELSE 0

AllHaveClosed ==
    \/ deferred = <<"closed">> \/ m_calls = << >>
    \/ m_calls = AtServices /\ call = "onCallFinished" /\ result

ServicesCount ==
    Closing(kind) =>
        /\ refused \in BOOLEAN /\ todo \in Seq({"node", "native"})
        /\ m_numServices \in Nat /\ m_numResponse \in Nat
        /\ m_calls \notin {AtServices, << >>} => SvcUntouched
        /\ call \in {"proceed", "Call"} /\ m_calls # << >> => SvcUntouched
        /\ call = "services" \/ deferred \in {<<"closed">>, <<"failed">>} => m_calls = AtServices
        /\ m_numResponse + quits + Len(todo) + Refusals <= m_numServices
        /\ AllHaveClosed => m_numResponse = m_numServices

ChainInv ==
    /\ IInv /\ ChainTyped /\ FrontIsCalled
    /\ OthersGoStraight /\ ConditionsWait /\ LockFollows /\ ServicesCount

---------------------------------------------------------------------------
(* The sequences that occur.                                               *)

\* A sequence that is elementwise a concatenation is that concatenation.
LEMMA ConcatIs ==
    ASSUME NEW S, NEW s \in Seq(S), NEW t \in Seq(S), NEW u \in Seq(S),
           Len(u) = Len(s) + Len(t),
           \A i \in 1 .. Len(u) : u[i] = IF i <= Len(s) THEN s[i] ELSE t[i - Len(s)]
    PROVE  s \o t = u
<1> DEFINE c == s \o t
<1>1. /\ c \in Seq(S)
      /\ Len(c) = Len(s) + Len(t)
      /\ \A i \in 1 .. Len(s) + Len(t) : c[i] = IF i <= Len(s) THEN s[i] ELSE t[i - Len(s)]
  BY ConcatProperties
<1> HIDE DEF c
<1>2. \A i \in 1 .. Len(c) : c[i] = u[i]
  BY <1>1
<1>3. c = u
  BY <1>1, <1>2, SeqEqual
<1>4. QED
  BY <1>3 DEF c

\* What is put in front of the calls that are left.
LEMMA PutInFront ==
    /\ <<"AppRemovable", "AppLock">> \o AtRunning = AtRemovable
    /\ <<"AppLock">> \o AtRunning = AtLock
    /\ <<"AppClose">> \o AtServices = AtClose
<1>1. /\ <<"AppRemovable", "AppLock">> \in Seq(Item) /\ <<"AppLock">> \in Seq(Item)
      /\ <<"AppClose">> \in Seq(Item)
      /\ AtRunning \in Seq(Item) /\ AtRemovable \in Seq(Item) /\ AtLock \in Seq(Item)
      /\ AtClose \in Seq(Item) /\ AtServices \in Seq(Item)
  BY DEF Item, AtRunning, AtRemovable, AtLock, AtClose, AtServices
<1>2. <<"AppRemovable", "AppLock">> \o AtRunning = AtRemovable
  <2> DEFINE front == <<"AppRemovable", "AppLock">>
  <2>1. Len(front) = 2 /\ Len(AtRunning) = 2 /\ Len(AtRemovable) = 4 /\ front \in Seq(Item)
    BY <1>1 DEF AtRunning, AtRemovable
  <2>2. \A i \in 1 .. Len(AtRemovable) :
           AtRemovable[i] = IF i <= Len(front) THEN front[i] ELSE AtRunning[i - Len(front)]
    BY <2>1 DEF AtRunning, AtRemovable
  <2> HIDE DEF front
  <2>3. front \o AtRunning = AtRemovable
    <3>1. Len(AtRemovable) = Len(front) + Len(AtRunning)
      BY <2>1
    <3>2. QED
      BY <1>1, <2>1, <2>2, <3>1, ConcatIs, Zenon
  <2>4. QED
    BY <2>3, Zenon DEF front
<1>3. <<"AppLock">> \o AtRunning = AtLock
  <2> DEFINE front == <<"AppLock">>
  <2>1. Len(front) = 1 /\ Len(AtRunning) = 2 /\ Len(AtLock) = 3 /\ front \in Seq(Item)
    BY <1>1 DEF AtRunning, AtLock
  <2>2. \A i \in 1 .. Len(AtLock) :
           AtLock[i] = IF i <= Len(front) THEN front[i] ELSE AtRunning[i - Len(front)]
    BY <2>1 DEF AtRunning, AtLock
  <2> HIDE DEF front
  <2>3. front \o AtRunning = AtLock
    <3>1. Len(AtLock) = Len(front) + Len(AtRunning)
      BY <2>1
    <3>2. QED
      BY <1>1, <2>1, <2>2, <3>1, ConcatIs, Zenon
  <2>4. QED
    BY <2>3, Zenon DEF front
<1>4. <<"AppClose">> \o AtServices = AtClose
  <2> DEFINE front == <<"AppClose">>
  <2>1. Len(front) = 1 /\ Len(AtServices) = 1 /\ Len(AtClose) = 2 /\ front \in Seq(Item)
    BY <1>1 DEF AtServices, AtClose
  <2>2. \A i \in 1 .. Len(AtClose) :
           AtClose[i] = IF i <= Len(front) THEN front[i] ELSE AtServices[i - Len(front)]
    BY <2>1 DEF AtServices, AtClose
  <2> HIDE DEF front
  <2>3. front \o AtServices = AtClose
    <3>1. Len(AtClose) = Len(front) + Len(AtServices)
      BY <2>1
    <3>2. QED
      BY <1>1, <2>1, <2>2, <3>1, ConcatIs, Zenon
  <2>4. QED
    BY <2>3, Zenon DEF front
<1>5. QED
  BY <1>2, <1>3, <1>4

\* The stages are told apart by the item in front, and the next call is in front of the rest.
LEMMA StagesDiffer ==
    /\ Head(AtInfo) = "AppInfo" /\ Tail(AtInfo) = AtRunning /\ AtInfo # << >>
    /\ Head(AtRemovable) = "AppRemovable" /\ Tail(AtRemovable) = AtLock /\ AtRemovable # << >>
    /\ Head(AtLock) = "AppLock" /\ Tail(AtLock) = AtRunning /\ AtLock # << >>
    /\ Head(AtRunning) = "AppRunning" /\ Tail(AtRunning) = AtServices /\ AtRunning # << >>
    /\ Head(AtClose) = "AppClose" /\ Tail(AtClose) = AtServices /\ AtClose # << >>
    /\ Head(AtServices) = "SvcClose" /\ Tail(AtServices) = << >> /\ AtServices # << >>
    /\ Stages \subseteq Seq(Item)
    /\ \A s \in Stages : << >> \o s = s
<1>1. /\ Head(AtInfo) = "AppInfo" /\ Tail(AtInfo) = AtRunning /\ Len(AtInfo) = 3
      /\ Head(AtRemovable) = "AppRemovable" /\ Tail(AtRemovable) = AtLock /\ Len(AtRemovable) = 4
      /\ Head(AtLock) = "AppLock" /\ Tail(AtLock) = AtRunning /\ Len(AtLock) = 3
      /\ Head(AtRunning) = "AppRunning" /\ Tail(AtRunning) = AtServices /\ Len(AtRunning) = 2
      /\ Head(AtClose) = "AppClose" /\ Tail(AtClose) = AtServices /\ Len(AtClose) = 2
      /\ Head(AtServices) = "SvcClose" /\ Tail(AtServices) = << >> /\ Len(AtServices) = 1
      /\ Len(<< >>) = 0
  BY DEF AtInfo, AtRemovable, AtLock, AtRunning, AtClose, AtServices
<1>2. Stages \subseteq Seq(Item)
  BY DEF Stages, AtInfo, AtRemovable, AtLock, AtRunning, AtClose, AtServices, Item
<1>3. \A s \in Stages : << >> \o s = s
  BY <1>2
<1>4. /\ AtInfo # << >> /\ AtRemovable # << >> /\ AtLock # << >> /\ AtRunning # << >>
      /\ AtClose # << >> /\ AtServices # << >>
  BY DEF AtInfo, AtRemovable, AtLock, AtRunning, AtClose, AtServices
<1>5. QED
  BY <1>1, <1>2, <1>3, <1>4

LEMMA OthersDiffer ==
    \A s \in OtherStages \ {<< >>} :
        /\ s # << >> /\ Tail(s) \in OtherStages /\ << >> \o Tail(s) = Tail(s)
        /\ Head(s) \in Item \ {"AppRemovable", "AppLock", "AppRunning", "AppClose", "SvcClose"}
<1>1. OtherStages \subseteq Seq(Item)
  BY DEF OtherStages, Item
<1>2. ASSUME NEW s \in OtherStages \ {<< >>}
      PROVE  /\ Tail(s) \in OtherStages
             /\ Head(s) \in Item \ {"AppRemovable", "AppLock", "AppRunning", "AppClose", "SvcClose"}
  <2>1. CASE s = <<"RemoveManifest", "AddManifest">>
    <3>1. Tail(s) = <<"AddManifest">> /\ Head(s) = "RemoveManifest"
      BY <2>1
    <3>2. QED
      BY <3>1 DEF OtherStages, Item
  <2>2. CASE s \in {<<"AppInfo">>, <<"AddManifest">>, <<"RemoveIpk">>, <<"RemoveDb">>}
    <3>1. Tail(s) = << >> /\ Head(s) \in {"AppInfo", "AddManifest", "RemoveIpk", "RemoveDb"}
      <4>1. \A a \in {"AppInfo", "AddManifest", "RemoveIpk", "RemoveDb"} :
               Tail(<<a>>) = << >> /\ Head(<<a>>) = a
        OBVIOUS
      <4>2. QED
        BY <2>2, <4>1
    <3>2. QED
      BY <3>1 DEF OtherStages, Item
  <2>3. QED
    BY <2>1, <2>2 DEF OtherStages
<1>3. \A s \in OtherStages : << >> \o s = s
  BY <1>1
<1>4. QED
  BY <1>2, <1>3

---------------------------------------------------------------------------
(* The invariant of the chains that close an app, step by step.            *)

LEMMA InitEstablishesChain == ASSUME Init PROVE ChainInv
<1>1. IInv
  BY InitEstablishes
<1>2. ChainTyped
  <2>1. m_conditions \in [Item \X BOOLEAN -> Seq(Item)]
    <3>1. /\ <<"AppRemovable", "AppLock">> \in Seq(Item) /\ <<"AppLock">> \in Seq(Item)
          /\ <<"AppClose">> \in Seq(Item) /\ << >> \in Seq(Item)
      BY DEF Item
    <3>2. QED
      BY <3>1 DEF Init, AddedIf
  <2>2. QED
    BY <2>1 DEF Init, ChainTyped
<1>3. FrontIsCalled
  BY DEF Init, FrontIsCalled
<1>4. SvcUntouched /\ refused = FALSE /\ appLocked = FALSE /\ appInfo = "none" /\ call = "none" /\ deferred = << >>
  BY DEF Init, SvcUntouched
<1>5. Closing(kind) => m_calls = AtInfo
  BY DEF Init, Added, Closing, AtInfo
<1>6. OthersGoStraight
  <2>1. ~Closing(kind) => m_calls \in OtherStages
    BY DEF Init, Kind, Closing, Added, OtherStages
  <2>2. ~Closing(kind) => \A c \in Item \X BOOLEAN : m_conditions[c] = << >>
    BY DEF Init, AddedIf, Closing
  <2>3. QED
    BY <1>4, <2>1, <2>2 DEF OthersGoStraight
<1>7. ConditionsWait
  <2>1. ASSUME Closing(kind)
        PROVE  /\ \A c \in Item \X BOOLEAN :
                     c \notin {<<"AppInfo", TRUE>>, <<"AppRunning", TRUE>>} => m_conditions[c] = << >>
               /\ m_conditions[<<"AppInfo", TRUE>>] =
                     IF kind = "closeRemove" THEN <<"AppRemovable", "AppLock">> ELSE <<"AppLock">>
               /\ m_conditions[<<"AppRunning", TRUE>>] = <<"AppClose">>
    BY <2>1 DEF Init, AddedIf, Closing, Item
  <2>2. QED
    BY <1>5, <2>1, StagesDiffer DEF ConditionsWait, Stages
<1>8. LockFollows
  BY <1>4, <1>5, StagesDiffer DEF LockFollows
<1>9. ServicesCount
  <2>1. Len(todo) = 0 /\ todo \in Seq({"node", "native"})
    BY <1>4 DEF SvcUntouched
  <2>2. deferred \notin {<<"closed">>, <<"failed">>}
    BY <1>4, DeferredQueues
  <2>3. Refusals = 0 /\ SvcUntouched
    BY <1>4 DEF Refusals
  <2>4. m_numResponse + quits + Len(todo) + Refusals <= m_numServices
    BY <2>1, <2>3 DEF SvcUntouched
  <2>5. m_numResponse = m_numServices /\ m_numServices \in Nat /\ refused \in BOOLEAN
    BY <1>4 DEF SvcUntouched
  <2>6. call \notin {"proceed", "Call", "services"}
    BY <1>4
  <2>7. QED
    BY <2>1, <2>2, <2>3, <2>4, <2>5, <2>6 DEF ServicesCount
<1>10. QED
  BY <1>1, <1>2, <1>3, <1>6, <1>7, <1>8, <1>9 DEF ChainInv

\* Run, proceed, finish and the error path move no call.
LEMMA ChainMovesKeep ==
    ASSUME ChainInv, Run \/ Proceed \/ Finish \/ OnCallError
    PROVE  ChainInv'
<1> USE DEF svcVars, chainVars, callVars, setting
<1>1. IInv'
  BY ChainKeepsIInv DEF ChainInv
<1>2. /\ UNCHANGED <<setting, m_calls, m_conditions, pending, appInfo, svcVars, appLocked>>
      /\ call' \in {"none", "proceed", "Call", "finish"}
      /\ ran' = "no" => ran = "no"
  BY DEF Run, Proceed, Finish, OnCallError, Enter
<1>3. ChainTyped'
  BY <1>2 DEF ChainInv, ChainTyped, Run, Proceed, Finish, OnCallError, Enter
<1>4. FrontIsCalled'
  <2>1. call' = "Call" => m_calls # << >>
    BY DEF Run, Proceed, Finish, OnCallError, Enter
  <2>2. call' = "finish" /\ result' => m_calls = << >>
    BY DEF Run, Proceed, Finish, OnCallError, Enter
  <2>3. m_finished' /\ verdict' => m_calls = << >>
    BY DEF Run, Proceed, Finish, OnCallError, Enter, ChainInv, FrontIsCalled
  <2>4. QED
    BY <1>2, <2>1, <2>2, <2>3 DEF ChainInv, FrontIsCalled
<1>5. deferred' = deferred \/ deferred' = <<"delete">>
  <2>1. CASE Finish
    <3>1. deferred = << >> /\ Append(<< >>, "delete") = <<"delete">>
      BY <2>1 DEF Finish, ChainInv, IInv, OneWay
    <3>2. QED
      BY <2>1, <3>1 DEF Finish
  <2>2. QED
    BY <2>1 DEF Run, Proceed, OnCallError
<1>6. OthersGoStraight'
  BY <1>2, <1>5 DEF ChainInv, OthersGoStraight, SvcUntouched
<1>7. ConditionsWait'
  BY <1>2 DEF ChainInv, ConditionsWait
<1>8. LockFollows'
  <2>1. call # "onCallFinished"
    BY DEF Run, Proceed, Finish, OnCallError, ChainInv, IInv, RunOnce
  <2>2. QED
    BY <1>2, <2>1 DEF ChainInv, LockFollows
<1>9. ServicesCount'
  <2>1. call' \in {"proceed", "Call"} => call = "proceed" \/ (ran = "no" /\ m_calls = Added(kind))
    BY DEF Run, Proceed, Finish, OnCallError, Enter, ChainInv, FrontIsCalled
  <2>2. Closing(kind) => Added(kind) = AtInfo
    BY DEF Closing, Added, AtInfo
  <2>3. QED
    BY <1>2, <1>5, <2>1, <2>2, StagesDiffer, DeferredQueues
    DEF ChainInv, ServicesCount, SvcUntouched, Refusals, AllHaveClosed
<1>10. QED
  BY <1>1, <1>3, <1>4, <1>6, <1>7, <1>8, <1>9 DEF ChainInv

\* After the item's result its conditions are gone, and the others are as they were.
ConditionsSpent(item) ==
    /\ m_conditions' \in [Item \X BOOLEAN -> Seq(Item)]
    /\ \A c \in Item \X BOOLEAN :
           m_conditions'[c] =
               IF c \in {<<item, TRUE>>, <<item, FALSE>>} THEN << >> ELSE m_conditions[c]

LEMMA SpendConditions ==
    ASSUME m_conditions \in [Item \X BOOLEAN -> Seq(Item)], NEW item \in Item,
           m_conditions' = [m_conditions EXCEPT ![<<item, TRUE>>] = << >>, ![<<item, FALSE>>] = << >>]
    PROVE  ConditionsSpent(item)
<1>1. << >> \in Seq(Item)
  OBVIOUS
<1>2. m_conditions' \in [Item \X BOOLEAN -> Seq(Item)]
  BY <1>1
<1>3. ASSUME NEW c \in Item \X BOOLEAN
      PROVE  m_conditions'[c] =
                 IF c \in {<<item, TRUE>>, <<item, FALSE>>} THEN << >> ELSE m_conditions[c]
  BY <1>1
<1>4. QED
  BY <1>2, <1>3 DEF ConditionsSpent

\* What onCallFinished does when the chain goes no further.
StopsThere ==
    /\ m_calls = << >> \/ failed
    /\ call' = "finish" /\ ~result' /\ UNCHANGED <<m_calls, m_conditions>>

\* What it does for a chain that closes an app and goes on.
GoesFrom(from, to) ==
    /\ call' = "proceed" /\ UNCHANGED result /\ ~failed
    /\ m_calls = from /\ m_calls' = to
    /\ ConditionsSpent(Head(from))

LEMMA ClosingGoesOn ==
    ASSUME ChainInv, OnCallFinished, Closing(kind)
    PROVE  \/ StopsThere
           \/ result /\ GoesFrom(AtInfo, IF kind = "closeRemove" THEN AtRemovable ELSE AtLock)
           \/ ~result /\ GoesFrom(AtInfo, AtRunning)
           \/ GoesFrom(AtRemovable, AtLock)
           \/ result /\ GoesFrom(AtLock, AtRunning)
           \/ result /\ GoesFrom(AtRunning, AtClose)
           \/ ~result /\ GoesFrom(AtRunning, AtServices)
           \/ GoesFrom(AtClose, AtServices)
           \/ result /\ GoesFrom(AtServices, << >>)
<1>1. CASE m_calls = << >> \/ failed
  BY <1>1 DEF OnCallFinished, StopsThere
<1>2. CASE m_calls # << >> /\ ~failed
  <2> DEFINE item == Head(m_calls)
             matching == m_conditions[<<item, result>>]
  <2>1. m_calls \in Stages \ {<< >>} /\ result \in BOOLEAN /\ call = "onCallFinished"
    BY <1>2 DEF ChainInv, ConditionsWait, ChainTyped, OnCallFinished
  <2>2. item \in Item
    BY <2>1, StagesDiffer DEF Stages, Item
  <2>3. /\ m_calls' = matching \o Tail(m_calls)
        /\ m_conditions' = [m_conditions EXCEPT ![<<item, TRUE>>] = << >>, ![<<item, FALSE>>] = << >>]
        /\ IF result \/ matching # << >> \/ item \in NonStop(kind)
           THEN call' = "proceed" /\ UNCHANGED result
           ELSE call' = "finish" /\ result' = FALSE
    BY <1>2 DEF OnCallFinished, Enqueued, Matching, GoesOn
  <2>4. ConditionsSpent(item)
    BY <2>2, <2>3, SpendConditions DEF ChainInv, ChainTyped
  <2>5. \A c \in Item \X BOOLEAN :
           c \notin {<<"AppInfo", TRUE>>, <<"AppRunning", TRUE>>} => m_conditions[c] = << >>
    BY DEF ChainInv, ConditionsWait
  <2>6. NonStop(kind) = {"AppInfo", "AppRunning"}
    BY DEF NonStop
  <2>7. \A s \in Stages : << >> \o s = s
    BY StagesDiffer
  <2>8. /\ AtInfo \in Stages /\ AtRemovable \in Stages /\ AtLock \in Stages /\ AtRunning \in Stages
        /\ AtClose \in Stages /\ AtServices \in Stages /\ << >> \in Stages
    BY DEF Stages
  <2> USE DEF GoesFrom
  <2>9. CASE m_calls = AtInfo /\ result
    <3>1. item = "AppInfo" /\ Tail(m_calls) = AtRunning /\ call' = "proceed" /\ UNCHANGED result
      BY <2>9, <2>3, StagesDiffer
    <3>2. result = TRUE /\ matching = m_conditions[<<"AppInfo", TRUE>>]
      BY <2>1, <2>9, <3>1
    <3>3. m_conditions[<<"AppInfo", TRUE>>] =
             IF kind = "closeRemove" THEN <<"AppRemovable", "AppLock">> ELSE <<"AppLock">>
      BY <2>9 DEF ChainInv, ConditionsWait
    <3>4. m_calls' = IF kind = "closeRemove" THEN AtRemovable ELSE AtLock
      BY <2>3, <3>1, <3>2, <3>3, PutInFront
    <3>5. QED
      BY <1>2, <2>4, <2>9, <3>1, <3>4
  <2>10. CASE m_calls = AtRunning /\ result
    <3>1. item = "AppRunning" /\ Tail(m_calls) = AtServices /\ call' = "proceed" /\ UNCHANGED result
      BY <2>10, <2>3, StagesDiffer
    <3>2. result = TRUE /\ matching = m_conditions[<<"AppRunning", TRUE>>]
      BY <2>1, <2>10, <3>1
    <3>3. m_conditions[<<"AppRunning", TRUE>>] = <<"AppClose">>
      BY <2>10 DEF ChainInv, ConditionsWait
    <3>4. m_calls' = AtClose
      BY <2>3, <3>1, <3>2, <3>3, PutInFront
    <3>5. QED
      BY <1>2, <2>4, <2>10, <3>1, <3>4
  <2>11. CASE m_calls \in {AtInfo, AtRunning} /\ ~result
    <3>1. result = FALSE /\ item \in {"AppInfo", "AppRunning"} /\ Tail(m_calls) \in Stages
      BY <2>1, <2>8, <2>11, StagesDiffer
    <3>2. matching = << >>
      <4>1. <<item, result>> \notin {<<"AppInfo", TRUE>>, <<"AppRunning", TRUE>>}
        BY <3>1
      <4>2. QED
        BY <2>1, <2>2, <2>5, <4>1
    <3>3. m_calls' = Tail(m_calls) /\ call' = "proceed" /\ UNCHANGED result
      BY <2>3, <2>6, <2>7, <3>1, <3>2
    <3>4. QED
      BY <1>2, <2>4, <2>11, <3>3, StagesDiffer
  <2>12. CASE m_calls \notin {AtInfo, AtRunning}
    <3>1. item \notin {"AppInfo", "AppRunning"} /\ Tail(m_calls) \in Stages
      BY <2>1, <2>8, <2>12, StagesDiffer DEF Stages
    <3>2. matching = << >>
      <4>1. <<item, result>> \notin {<<"AppInfo", TRUE>>, <<"AppRunning", TRUE>>}
        BY <3>1
      <4>2. QED
        BY <2>1, <2>2, <2>5, <4>1
    <3>3. result
      <4>1. m_calls \in {AtRemovable, AtLock, AtClose, AtServices}
        BY <2>1, <2>12 DEF Stages
      <4>2. QED
        BY <1>2, <2>1, <4>1 DEF ChainInv, LockFollows
    <3>4. m_calls' = Tail(m_calls) /\ call' = "proceed" /\ UNCHANGED result
      BY <2>3, <2>7, <3>1, <3>2, <3>3
    <3>5. QED
      BY <1>2, <2>1, <2>4, <2>12, <3>3, <3>4, StagesDiffer DEF Stages
  <2>13. QED
    BY <2>9, <2>10, <2>11, <2>12
<1>3. QED
  BY <1>1, <1>2

\* The other chains drop the item in front, and put nothing there.
LEMMA OthersGoOn ==
    ASSUME ChainInv, OnCallFinished, ~Closing(kind)
    PROVE  /\ m_calls' \in OtherStages
           /\ \A c \in Item \X BOOLEAN : m_conditions'[c] = << >>
           /\ m_conditions' \in [Item \X BOOLEAN -> Seq(Item)]
<1>1. CASE m_calls = << >> \/ failed
  BY <1>1 DEF OnCallFinished, ChainInv, OthersGoStraight, ChainTyped
<1>2. CASE m_calls # << >> /\ ~failed
  <2> DEFINE item == Head(m_calls)
             matching == m_conditions[<<item, result>>]
  <2>1. m_calls \in OtherStages \ {<< >>} /\ result \in BOOLEAN
    BY <1>2 DEF ChainInv, OthersGoStraight, ChainTyped
  <2>2. item \in Item /\ Tail(m_calls) \in OtherStages /\ << >> \o Tail(m_calls) = Tail(m_calls)
    BY <2>1, OthersDiffer
  <2>3. /\ m_calls' = matching \o Tail(m_calls)
        /\ m_conditions' = [m_conditions EXCEPT ![<<item, TRUE>>] = << >>, ![<<item, FALSE>>] = << >>]
    BY <1>2 DEF OnCallFinished, Enqueued, Matching
  <2>4. ConditionsSpent(item)
    BY <2>2, <2>3, SpendConditions DEF ChainInv, ChainTyped
  <2>5. matching = << >>
    BY <2>1, <2>2 DEF ChainInv, OthersGoStraight
  <2>6. QED
    BY <2>2, <2>3, <2>4, <2>5 DEF ConditionsSpent, ChainInv, OthersGoStraight
<1>3. QED
  BY <1>1, <1>2

LEMMA CallFinishedKeeps == ASSUME ChainInv, OnCallFinished PROVE ChainInv'
<1>1. IInv'
  BY ChainKeepsIInv DEF ChainInv
<1>2. /\ UNCHANGED <<setting, m_finished, verdict, ran, failed, pending, appInfo, svcVars, deferred, appLocked>>
      /\ call = "onCallFinished" /\ call' \in {"finish", "proceed"}
      /\ pending = "none" /\ ~m_finished /\ ran # "no" /\ deferred = << >>
  BY DEF OnCallFinished, ChainInv, IInv, OneWay, RunOnce
<1>3. result' \in BOOLEAN
  BY DEF OnCallFinished, ChainInv, ChainTyped
<1>4. CASE ~Closing(kind)
  <2>1. /\ m_calls' \in OtherStages
        /\ \A c \in Item \X BOOLEAN : m_conditions'[c] = << >>
        /\ m_conditions' \in [Item \X BOOLEAN -> Seq(Item)]
    BY <1>4, OthersGoOn
  <2>2. call' = "finish" => ~result'
    BY DEF OnCallFinished
  <2>3. ChainTyped' /\ FrontIsCalled'
    BY <1>2, <1>3, <2>1, <2>2 DEF ChainInv, ChainTyped, FrontIsCalled, setting
  <2>4. OthersGoStraight'
    BY <1>2, <2>1 DEF ChainInv, OthersGoStraight, SvcUntouched, svcVars, setting
  <2>5. ~Closing(kind')
    BY <1>2, <1>4 DEF setting
  <2>6. QED
    BY <1>1, <2>3, <2>4, <2>5 DEF ChainInv, ConditionsWait, LockFollows, ServicesCount
<1>5. CASE Closing(kind)
  <2>1. Closing(kind') /\ UNCHANGED kind
    BY <1>2, <1>5 DEF setting
  <2>2. CASE StopsThere
    <3>1. ChainTyped' /\ FrontIsCalled'
      BY <1>2, <1>3, <2>2 DEF ChainInv, ChainTyped, FrontIsCalled, setting, StopsThere
    <3>2. ConditionsWait'
      BY <2>1, <2>2 DEF ChainInv, ConditionsWait, StopsThere
    <3>3. LockFollows'
      BY <1>2, <1>5, <2>1, <2>2, StagesDiffer DEF ChainInv, LockFollows, StopsThere
    <3>4. ServicesCount'
      BY <1>2, <1>5, <2>1, <2>2 DEF ChainInv, ServicesCount, StopsThere, SvcUntouched, Refusals,
         AllHaveClosed, svcVars
    <3>5. QED
      BY <1>1, <2>1, <3>1, <3>2, <3>3, <3>4 DEF ChainInv, OthersGoStraight
  <2>3. ASSUME NEW from \in Stages \ {<< >>}, NEW to \in Stages, GoesFrom(from, to),
               \/ result /\ from = AtInfo
                    /\ to = IF kind = "closeRemove" THEN AtRemovable ELSE AtLock
               \/ ~result /\ from = AtInfo /\ to = AtRunning
               \/ from = AtRemovable /\ to = AtLock
               \/ result /\ from = AtLock /\ to = AtRunning
               \/ result /\ from = AtRunning /\ to = AtClose
               \/ ~result /\ from = AtRunning /\ to = AtServices
               \/ from = AtClose /\ to = AtServices
               \/ result /\ from = AtServices /\ to = << >>
        PROVE  ChainInv'
    <3>1. ChainTyped' /\ FrontIsCalled'
      BY <1>2, <1>3, <2>3 DEF ChainInv, ChainTyped, FrontIsCalled, setting, GoesFrom, ConditionsSpent
    <3>2. ConditionsWait'
      <4>1. /\ \A c \in Item \X BOOLEAN :
                  c \notin {<<"AppInfo", TRUE>>, <<"AppRunning", TRUE>>} => m_conditions'[c] = << >>
        BY <1>5, <2>3 DEF ChainInv, ConditionsWait, GoesFrom, ConditionsSpent
      <4>2. to # AtInfo /\ (to = AtRemovable => kind = "closeRemove")
        BY <2>3, StagesDiffer
      <4>3. ASSUME to \in {AtRemovable, AtLock, AtRunning}
            PROVE  m_conditions'[<<"AppRunning", TRUE>>] = <<"AppClose">>
        <5>1. from \in {AtInfo, AtRemovable, AtLock}
          BY <2>3, <4>3, StagesDiffer
        <5>2. Head(from) # "AppRunning"
          BY <5>1, StagesDiffer
        <5>3. m_conditions[<<"AppRunning", TRUE>>] = <<"AppClose">>
          BY <1>5, <2>3, <5>1 DEF ChainInv, ConditionsWait, GoesFrom
        <5>4. QED
          BY <2>3, <5>2, <5>3 DEF GoesFrom, ConditionsSpent, Item
      <4>4. QED
        BY <2>1, <2>3, <4>1, <4>2, <4>3 DEF ConditionsWait, GoesFrom
    <3>3. LockFollows'
      <4>1. /\ appInfo \in {"none", "fixed", "removable"} /\ appLocked \in BOOLEAN
            /\ kind = "closeRemove" \/ kind = "closeInstall"
        BY <1>5 DEF ChainInv, LockFollows, Closing
      <4>2. to = AtRemovable => ~appLocked /\ appInfo # "none"
        BY <1>2, <1>5, <2>3, StagesDiffer DEF ChainInv, LockFollows, GoesFrom
      <4>3. to = AtLock => /\ ~appLocked /\ appInfo # "none"
                           /\ kind = "closeRemove" => appInfo = "removable"
        BY <1>2, <1>5, <2>3, StagesDiffer DEF ChainInv, LockFollows, GoesFrom
      <4>4. to \in {AtRunning, AtClose, AtServices, << >>} =>
               /\ appLocked <=> appInfo # "none"
               /\ kind = "closeRemove" /\ appInfo # "none" => appInfo = "removable"
        BY <1>2, <1>5, <2>3, StagesDiffer DEF ChainInv, LockFollows, GoesFrom
      <4>5. to # AtInfo
        BY <2>3, StagesDiffer
      <4>6. QED
        BY <1>2, <2>1, <2>3, <4>1, <4>2, <4>3, <4>4, <4>5 DEF LockFollows, GoesFrom
    <3>4. ServicesCount'
      <4>1. to # << >> => SvcUntouched
        BY <1>5, <2>3, StagesDiffer DEF ChainInv, ServicesCount, GoesFrom
      <4>2. to = << >> => m_calls = AtServices /\ result
        BY <2>3, StagesDiffer DEF GoesFrom
      <4>3. to = << >> => m_numResponse = m_numServices
        BY <1>2, <1>5, <4>2 DEF ChainInv, ServicesCount, AllHaveClosed
      <4>4. m_calls' = to /\ call' = "proceed"
        BY <2>3 DEF GoesFrom
      <4>5. SvcUntouched => SvcUntouched'
        BY <1>2 DEF SvcUntouched, svcVars
      <4>6. m_numResponse + quits + Len(todo) + Refusals <= m_numServices
        BY <1>5 DEF ChainInv, ServicesCount
      <4>7. deferred' \notin {<<"closed">>, <<"failed">>}
        BY <1>2, DeferredQueues
      <4>8. AllHaveClosed' => m_numResponse = m_numServices
        <5>1. AllHaveClosed' => to = << >>
          BY <4>4, <4>7 DEF AllHaveClosed
        <5>2. QED
          BY <4>3, <5>1
      <4>9. UNCHANGED <<m_numResponse, quits, todo, Refusals, m_numServices, refused>>
        BY <1>2 DEF svcVars, Refusals
      <4>10. QED
        BY <1>5, <2>1, <4>1, <4>4, <4>5, <4>6, <4>7, <4>8, <4>9 DEF ChainInv, ServicesCount
    <3>5. QED
      BY <1>1, <2>1, <3>1, <3>2, <3>3, <3>4 DEF ChainInv, OthersGoStraight
  <2>4. /\ AtInfo \in Stages /\ AtRemovable \in Stages /\ AtLock \in Stages /\ AtRunning \in Stages
        /\ AtClose \in Stages /\ AtServices \in Stages /\ << >> \in Stages
    BY DEF Stages
  <2>5. << >> \notin {AtInfo, AtRemovable, AtLock, AtRunning, AtClose, AtServices}
    BY StagesDiffer
  <2>6. QED
    BY <1>5, <2>2, <2>3, <2>4, <2>5, ClosingGoesOn
<1>6. QED
  BY <1>4, <1>5

\* The item in front of a chain is the one at whose stage it is.
LEMMA StageOfFront ==
    ASSUME ChainInv, NEW item \in Item, m_calls # << >>, Head(m_calls) = item
    PROVE  /\ Closing(kind) => /\ item = "AppInfo"      => m_calls = AtInfo
                               /\ item = "AppRemovable" => m_calls = AtRemovable
                               /\ item = "AppLock"      => m_calls = AtLock
                               /\ item = "AppRunning"   => m_calls = AtRunning
                               /\ item = "AppClose"     => m_calls = AtClose
                               /\ item = "SvcClose"     => m_calls = AtServices
                               /\ item \in {"AppInfo", "AppRemovable", "AppLock", "AppRunning", "AppClose",
                                            "SvcClose"}
           /\ ~Closing(kind) =>
                  item \notin {"AppRemovable", "AppLock", "AppRunning", "AppClose", "SvcClose"}
<1>1. CASE Closing(kind)
  <2>1. m_calls \in Stages
    BY <1>1 DEF ChainInv, ConditionsWait
  <2>2. QED
    BY <1>1, <2>1, StagesDiffer DEF Stages
<1>2. CASE ~Closing(kind)
  <2>1. m_calls \in OtherStages \ {<< >>}
    BY <1>2 DEF ChainInv, OthersGoStraight
  <2>2. QED
    BY <1>2, <2>1, OthersDiffer
<1>3. QED
  BY <1>1, <1>2

\* Calling a service, waiting for it or failing to call it moves no call either.
LEMMA ServiceCallKeeps ==
    ASSUME ChainInv, NEW item \in Item, CallService(item)
    PROVE  ChainInv'
<1>1. IInv'
  BY CallKeepsIInv DEF ChainInv
<1>2. /\ UNCHANGED <<setting, chainVars, result, failed, appInfo, svcVars, deferred, appLocked>>
      /\ call = "Call" /\ call' \in {"none", "onCallError"} /\ m_calls # << >>
      /\ pending' # "none" => pending' = Head(m_calls)
      /\ ran' = "no" => ran = "no"
  <2>1. m_calls # << >> /\ call = "Call" /\ pending = "none"
    BY DEF CallService, Calling, ChainInv, FrontIsCalled, IInv, OneWay
  <2>2. QED
    BY <2>1 DEF CallService, Calling, NotSent, Returns, Enter
<1>3. ChainTyped' /\ FrontIsCalled'
  BY <1>2 DEF ChainInv, ChainTyped, FrontIsCalled, setting, chainVars
<1>4. OthersGoStraight'
  BY <1>2 DEF ChainInv, OthersGoStraight, SvcUntouched, setting, chainVars, svcVars
<1>5. ConditionsWait'
  BY <1>2 DEF ChainInv, ConditionsWait, setting, chainVars
<1>6. LockFollows'
  BY <1>2 DEF ChainInv, LockFollows, setting, chainVars
<1>7. ServicesCount'
  BY <1>2 DEF ChainInv, ServicesCount, SvcUntouched, Refusals, AllHaveClosed, setting, chainVars, svcVars
<1>8. QED
  BY <1>1, <1>3, <1>4, <1>5, <1>6, <1>7 DEF ChainInv

\* AppRemovable is called for an app that is known.
LEMMA RemovableKeeps == ASSUME ChainInv, CallRemovable PROVE ChainInv'
<1>1. IInv'
  BY CallKeepsIInv DEF ChainInv
<1>2. /\ UNCHANGED <<setting, chainVars, pending, appInfo, svcVars, deferred, appLocked>>
      /\ call = "Call" /\ m_calls # << >> /\ Head(m_calls) = "AppRemovable" /\ pending = "none"
      /\ \/ /\ appInfo = "removable" /\ call' = "onCallFinished" /\ result' = TRUE /\ failed' = FALSE
            /\ UNCHANGED ran
         \/ call' = "onCallError" /\ UNCHANGED <<result, failed>>
      /\ ran' = "no" => ran = "no"
  BY DEF CallRemovable, Calling, NotSent, Returns, Enter, OnFinished, ChainInv, FrontIsCalled, IInv, OneWay
<1>3. Closing(kind) /\ m_calls = AtRemovable
  BY <1>2, StageOfFront DEF Item
<1>4. ChainTyped' /\ FrontIsCalled'
  BY <1>2 DEF ChainInv, ChainTyped, FrontIsCalled, setting, chainVars
<1>5. OthersGoStraight'
  BY <1>2, <1>3 DEF OthersGoStraight, setting
<1>6. ConditionsWait'
  BY <1>2 DEF ChainInv, ConditionsWait, setting, chainVars
<1>7. LockFollows'
  BY <1>2, <1>3, StagesDiffer DEF ChainInv, LockFollows, setting, chainVars
<1>8. ServicesCount'
  BY <1>2, <1>3, StagesDiffer
  DEF ChainInv, ServicesCount, SvcUntouched, Refusals, AllHaveClosed, setting, chainVars, svcVars
<1>9. QED
  BY <1>1, <1>4, <1>5, <1>6, <1>7, <1>8 DEF ChainInv

\* A reply is one to the item in front, and it tells what the chain goes on with.
LEMMA ReplyKeeps == ASSUME ChainInv, Reply PROVE ChainInv'
<1>1. IInv'
  BY ReplyKeepsIInv DEF ChainInv
<1>2. /\ UNCHANGED <<setting, chainVars, ran, svcVars, deferred>>
      /\ call = "none" /\ call' = "onCallFinished"
      /\ result' \in BOOLEAN /\ failed' \in BOOLEAN
      /\ pending \in Item \ {"AppRemovable", "SvcClose"} /\ pending' = "none"
  BY DEF Reply, AppInfoReplied, AppLockReplied, AppRunningReplied, CloseOrManifestReplied,
     RemoveReplied, Replied, AtRest, OnFinished, Item
<1>3. m_calls # << >> /\ pending = Head(m_calls)
  <2>1. pending # "none"
    BY <1>2 DEF Item
  <2>2. QED
    BY <2>1 DEF ChainInv, FrontIsCalled
<1>4. /\ pending = "AppInfo" =>
             /\ UNCHANGED appLocked /\ ~failed'
             /\ \/ appInfo' \in {"fixed", "removable"} /\ result'
                \/ ~result' /\ UNCHANGED appInfo
      /\ pending = "AppLock" =>
             /\ UNCHANGED appInfo
             /\ \/ appLocked' = TRUE /\ result' /\ ~failed'
                \/ ~result' /\ failed' /\ UNCHANGED appLocked
      /\ pending = "AppClose" => (failed' <=> ~result')
      /\ pending \notin {"AppInfo", "AppLock"} => UNCHANGED <<appInfo, appLocked>>
  <2>1. CASE AppInfoReplied
    BY <1>2, <2>1 DEF AppInfoReplied, Replied, OnFinished
  <2>2. CASE AppLockReplied
    BY <1>2, <2>2 DEF AppLockReplied, Replied, OnFinished
  <2>3. CASE AppRunningReplied
    BY <1>2, <2>3 DEF AppRunningReplied, Replied, OnFinished
  <2>4. CASE CloseOrManifestReplied
    <3>1. pending \in {"AppClose", "RemoveManifest", "AddManifest"} /\ UNCHANGED <<appInfo, appLocked>>
      BY <2>4 DEF CloseOrManifestReplied, Replied
    <3>2. PICK r \in BOOLEAN : result' = r /\ failed' = ~r
      BY <2>4 DEF CloseOrManifestReplied, OnFinished
    <3>3. QED
      BY <3>1, <3>2
  <2>5. CASE RemoveReplied
    BY <1>2, <2>5 DEF RemoveReplied, Replied, OnFinished
  <2>6. QED
    BY <2>1, <2>2, <2>3, <2>4, <2>5 DEF Reply
<1>5. ChainTyped' /\ FrontIsCalled'
  BY <1>2 DEF ChainInv, ChainTyped, FrontIsCalled, setting, chainVars
<1>6. OthersGoStraight'
  <2>1. ~Closing(kind) => UNCHANGED appLocked
    BY <1>2, <1>3, <1>4, StageOfFront
  <2>2. QED
    BY <1>2, <2>1 DEF ChainInv, OthersGoStraight, SvcUntouched, setting, chainVars, svcVars
<1>7. ConditionsWait'
  BY <1>2 DEF ChainInv, ConditionsWait, setting, chainVars
<1>8. LockFollows'
  <2>1. SUFFICES ASSUME Closing(kind) PROVE LockFollows'
    BY <1>2 DEF LockFollows, setting
  <2>2. /\ pending = "AppInfo" => m_calls = AtInfo
        /\ pending = "AppLock" => m_calls = AtLock
        /\ pending = "AppRunning" => m_calls = AtRunning
        /\ pending = "AppClose" => m_calls = AtClose
        /\ pending \in {"AppInfo", "AppLock", "AppRunning", "AppClose"}
    BY <1>2, <1>3, <2>1, StageOfFront
  <2>3. UNCHANGED <<m_calls, kind>>
    BY <1>2 DEF setting, chainVars
  <2>4. CASE pending = "AppInfo"
    BY <1>2, <1>4, <2>1, <2>2, <2>3, <2>4, StagesDiffer DEF ChainInv, LockFollows
  <2>5. CASE pending = "AppLock"
    <3>1. m_calls = AtLock /\ m_calls' = AtLock
      BY <2>2, <2>3, <2>5
    <3>2. /\ appInfo \in {"none", "fixed", "removable"} /\ appInfo # "none"
          /\ ~appLocked /\ appLocked \in BOOLEAN
          /\ kind = "closeRemove" => appInfo = "removable"
      BY <1>2, <2>1, <3>1 DEF ChainInv, LockFollows
    <3>3. UNCHANGED appInfo /\ appLocked' \in BOOLEAN /\ (result' <=> appLocked') /\ (failed' <=> ~result')
      <4>1. CASE appLocked' = TRUE /\ result' /\ ~failed'
        BY <1>4, <2>5, <4>1
      <4>2. CASE ~result' /\ failed' /\ UNCHANGED appLocked
        BY <1>4, <2>5, <3>2, <4>2
      <4>3. QED
        BY <1>4, <2>5, <4>1, <4>2
    <3>4. AtLock \notin {AtInfo, AtRemovable, AtRunning, AtClose, AtServices, << >>}
      BY StagesDiffer
    <3>5. QED
      BY <1>2, <2>3, <3>1, <3>2, <3>3, <3>4 DEF LockFollows
  <2>6. CASE pending \in {"AppRunning", "AppClose"}
    BY <1>2, <1>4, <2>1, <2>2, <2>3, <2>6, StagesDiffer DEF ChainInv, LockFollows
  <2>7. QED
    BY <2>2, <2>4, <2>5, <2>6
<1>9. ServicesCount'
  <2>1. Closing(kind) => m_calls # AtServices
    BY <1>2, <1>3, StagesDiffer
  <2>2. QED
    BY <1>2, <2>1, StagesDiffer
    DEF ChainInv, ServicesCount, SvcUntouched, Refusals, AllHaveClosed, setting, chainVars, svcVars
<1>10. QED
  BY <1>1, <1>5, <1>6, <1>7, <1>8, <1>9 DEF ChainInv

\* What SvcClose leaves alone.
LEMMA SvcCloseFrame ==
    ASSUME ChainInv, Closing(kind), m_calls = AtServices, call' \in {"none", "services"},
           UNCHANGED <<setting, chainVars, ran, result, failed, pending, appInfo, appLocked>>
    PROVE  /\ ChainTyped' /\ FrontIsCalled' /\ OthersGoStraight' /\ ConditionsWait' /\ LockFollows'
           /\ Closing(kind')
<1>1. Closing(kind')
  BY DEF setting
<1>2. ChainTyped' /\ FrontIsCalled'
  BY DEF ChainInv, ChainTyped, FrontIsCalled, setting, chainVars
<1>3. OthersGoStraight'
  BY <1>1 DEF OthersGoStraight
<1>4. ConditionsWait'
  BY DEF ChainInv, ConditionsWait, setting, chainVars
<1>5. LockFollows'
  <2>1. AtServices \notin {AtInfo, AtRemovable, AtLock}
    BY StagesDiffer
  <2>2. QED
    BY <2>1 DEF ChainInv, LockFollows, setting, chainVars
<1>6. QED
  BY <1>1, <1>2, <1>3, <1>4, <1>5

\* The count of the services, with SvcClose in front.
SvcCount ==
    /\ refused \in BOOLEAN /\ todo \in Seq({"node", "native"})
    /\ m_numServices \in Nat /\ m_numResponse \in Nat
    /\ m_numResponse + quits + Len(todo) + Refusals <= m_numServices
    /\ deferred = <<"closed">> => m_numResponse = m_numServices

LEMMA SvcCountSuffices ==
    ASSUME SvcCount', m_calls' = AtServices, call' \in {"none", "services"}
    PROVE  ServicesCount'
<1>1. AtServices # << >>
  BY StagesDiffer
<1>2. QED
  BY <1>1 DEF SvcCount, ServicesCount, AllHaveClosed

LEMMA SvcCountHolds ==
    ASSUME ChainInv, Closing(kind)
    PROVE  SvcCount /\ quits \in Nat
BY DEF ChainInv, ServicesCount, SvcCount, AllHaveClosed, IInv, ShapeOK

LEMMA CallSvcCloseKeeps == ASSUME ChainInv, CallSvcClose PROVE ChainInv'
<1>1. IInv'
  BY SvcCloseKeepsIInv DEF ChainInv
<1>2. /\ call = "Call" /\ m_calls # << >> /\ Head(m_calls) = "SvcClose" /\ call' \in {"none", "services"}
      /\ UNCHANGED <<setting, chainVars, ran, result, failed, pending, appInfo, appLocked, m_numResponse,
                     quits, refused>>
      /\ deferred = << >>
  BY DEF CallSvcClose, Calling, Enter, ChainInv, FrontIsCalled, IInv, OneWay
<1>3. Closing(kind) /\ m_calls = AtServices
  BY <1>2, StageOfFront DEF Item
<1>4. SvcUntouched /\ SvcCount
  BY <1>2, <1>3, SvcCountHolds DEF ChainInv, ServicesCount
<1>5. SvcCount'
  <2>1. UNCHANGED Refusals /\ Refusals = 0 /\ m_numResponse' = 0 /\ quits' = 0 /\ refused' \in BOOLEAN
    BY <1>2, <1>4 DEF Refusals, SvcUntouched, SvcCount
  <2>2. CASE appInfo = "none"
    <3>1. UNCHANGED <<todo, m_numServices>>
      BY <2>2 DEF CallSvcClose
    <3>2. m_numServices = 0 /\ m_numResponse = 0
      BY <1>4 DEF SvcUntouched
    <3>3. QED
      BY <1>2, <1>4, <2>1, <3>1, <3>2 DEF SvcCount
  <2>3. CASE appInfo # "none"
    <3>1. PICK services \in Packages :
             todo' = services /\ m_numServices' = Len(services) /\ UNCHANGED deferred
      BY <2>3 DEF CallSvcClose, NumServices
    <3>2. services \in Seq({"node", "native"}) /\ Len(services) \in Nat
      BY <3>1, ChainAssumption
    <3>3. deferred' # <<"closed">>
      BY <1>2, <3>1, DeferredQueues
    <3>4. QED
      BY <2>1, <3>1, <3>2, <3>3 DEF SvcCount
  <2>4. QED
    BY <2>2, <2>3
<1>6. m_calls' = AtServices
  BY <1>2, <1>3 DEF chainVars
<1>7. QED
  BY <1>1, <1>2, <1>3, <1>5, <1>6, SvcCloseFrame, SvcCountSuffices DEF ChainInv

LEMMA CloseServiceKeeps == ASSUME ChainInv, CloseService PROVE ChainInv'
<1>1. IInv'
  BY SvcCloseKeepsIInv DEF ChainInv
<1>2. /\ call = "services" /\ call' = "services" /\ todo # << >>
      /\ UNCHANGED <<setting, chainVars, ran, result, failed, pending, appInfo, appLocked,
                     m_numServices, refused>>
  BY DEF CloseService, callVars
<1>3. Closing(kind) /\ m_calls = AtServices
  BY <1>2 DEF ChainInv, OthersGoStraight, ServicesCount
<1>4. SvcCount /\ quits \in Nat
  BY <1>3, SvcCountHolds
<1>5. /\ Len(todo) > 0 /\ Tail(todo) \in Seq({"node", "native"}) /\ Len(Tail(todo)) = Len(todo) - 1
      /\ Len(todo) \in Nat
  BY <1>2, <1>4 DEF SvcCount
<1>6. Refusals \in {0, 1} /\ Refusals' = Refusals
  BY <1>2, <1>4 DEF Refusals, SvcCount
<1>7. deferred # <<"closed">>
  BY <1>4, <1>5, <1>6 DEF SvcCount
<1>8. SvcCount'
  <2>1. CASE /\ m_numResponse' = m_numResponse + 1 /\ todo' = Tail(todo)
             /\ UNCHANGED <<quits, deferred>>
    BY <1>2, <1>4, <1>5, <1>6, <1>7, <2>1 DEF SvcCount
  <2>2. CASE /\ quits' = quits + 1 /\ todo' = Tail(todo)
             /\ UNCHANGED <<m_numResponse, deferred>>
    BY <1>2, <1>4, <1>5, <1>6, <1>7, <2>2 DEF SvcCount
  <2>3. CASE SignalFinished("failed") /\ todo' = << >> /\ UNCHANGED <<m_numResponse, quits>>
    <3>1. deferred' = deferred \/ deferred' = <<"failed">>
      <4>1. ~m_signaled => deferred = << >>
        BY <1>2, SvcCloseAlone DEF ChainInv
      <4>2. Append(<< >>, "failed") = <<"failed">>
        OBVIOUS
      <4>3. QED
        BY <2>3, <4>1, <4>2 DEF SignalFinished
    <3>2. deferred' # <<"closed">>
      <4>1. <<"failed">> # <<"closed">>
        BY DeferredQueues
      <4>2. QED
        BY <1>7, <3>1, <4>1
    <3>3. Len(todo') = 0 /\ todo' \in Seq({"node", "native"})
      BY <2>3
    <3>4. m_numResponse' + quits' + Len(todo') + Refusals' <= m_numServices'
      BY <1>2, <1>4, <1>5, <1>6, <2>3, <3>3 DEF SvcCount
    <3>5. QED
      BY <1>2, <1>4, <2>3, <3>2, <3>3, <3>4 DEF SvcCount
  <2>4. QED
    BY <2>1, <2>2, <2>3 DEF CloseService, NativeClosed
<1>9. m_calls' = AtServices
  BY <1>2, <1>3 DEF chainVars
<1>10. QED
  BY <1>1, <1>2, <1>3, <1>8, <1>9, SvcCloseFrame, SvcCountSuffices DEF ChainInv

LEMMA EndOfServicesKeeps == ASSUME ChainInv, EndOfServices PROVE ChainInv'
<1>1. IInv'
  BY SvcCloseKeepsIInv DEF ChainInv
<1>2. /\ call = "services" /\ call' = "none"
      /\ UNCHANGED <<setting, chainVars, ran, result, failed, pending, appInfo, appLocked,
                     todo, m_numServices, m_numResponse, quits, refused>>
  BY DEF EndOfServices, Enter
<1>3. Closing(kind) /\ m_calls = AtServices
  BY <1>2 DEF ChainInv, OthersGoStraight, ServicesCount
<1>4. SvcCount
  BY <1>3, SvcCountHolds
<1>5. deferred' # deferred => m_numServices = m_numResponse
  BY DEF EndOfServices
<1>6. Refusals' = Refusals
  BY <1>2 DEF Refusals
<1>7. SvcCount'
  BY <1>2, <1>4, <1>5, <1>6 DEF SvcCount
<1>8. m_calls' = AtServices
  BY <1>2, <1>3 DEF chainVars
<1>9. QED
  BY <1>1, <1>2, <1>3, <1>7, <1>8, SvcCloseFrame, SvcCountSuffices DEF ChainInv

\* An answer to a /quit finds a service that has not been counted, and SvcClose in front.
LEMMA QuitKeeps == ASSUME ChainInv, QuitReplied PROVE ChainInv'
<1>1. IInv'
  BY SvcCloseKeepsIInv DEF ChainInv
<1>2. /\ call = "none" /\ call' = "none" /\ quits > 0 /\ quits' = quits - 1
      /\ UNCHANGED <<setting, chainVars, ran, result, failed, pending, appInfo, appLocked,
                     todo, m_numServices>>
  BY DEF QuitReplied, AtRest, callVars
<1>3. Closing(kind)
  BY <1>2 DEF ChainInv, OthersGoStraight, SvcUntouched
<1>4. SvcCount /\ quits \in Nat
  BY <1>3, SvcCountHolds
<1>5. Refusals \in {0, 1} /\ Len(todo) \in Nat
  BY <1>4 DEF Refusals, SvcCount
<1>6. m_numResponse < m_numServices
  BY <1>2, <1>4, <1>5 DEF SvcCount
<1>7. m_calls = AtServices
  <2>1. m_calls \notin {AtServices, << >>} => quits = 0
    BY <1>3 DEF ChainInv, ServicesCount, SvcUntouched
  <2>2. m_calls = << >> => m_numResponse = m_numServices
    BY <1>3 DEF ChainInv, ServicesCount, AllHaveClosed
  <2>3. QED
    BY <1>2, <1>4, <1>6, <2>1, <2>2 DEF SvcCount
<1>8. deferred # <<"closed">>
  BY <1>4, <1>6 DEF SvcCount
<1>9. ~m_signaled => deferred = << >>
  BY <1>2, SvcCloseAlone DEF ChainInv
<1>10. SvcCount'
  <2>1. CASE QuitRefused /\ refused' = TRUE
    <3>1. deferred' # <<"closed">>
      <4>1. Append(<< >>, "failed") = <<"failed">> /\ <<"failed">> # <<"closed">>
        BY DeferredQueues
      <4>2. QED
        BY <1>8, <1>9, <2>1, <4>1 DEF QuitRefused, SignalFinished
    <3>2. UNCHANGED m_numResponse /\ Refusals' = 1
      BY <2>1 DEF QuitRefused, Refusals
    <3>3. QED
      BY <1>2, <1>4, <1>5, <2>1, <3>1, <3>2 DEF SvcCount
  <2>2. CASE /\ m_numResponse' = m_numResponse + 1 /\ UNCHANGED refused
             /\ IF m_numResponse' = m_numServices THEN SignalFinished("closed")
                ELSE UNCHANGED <<m_signaled, deferred>>
    <3>1. deferred' = <<"closed">> => m_numResponse' = m_numServices
      BY <1>8, <2>2
    <3>2. Refusals' = Refusals
      BY <2>2 DEF Refusals
    <3>3. QED
      BY <1>2, <1>4, <1>5, <2>2, <3>1, <3>2 DEF SvcCount
  <2>3. QED
    BY <2>1, <2>2 DEF QuitReplied
<1>11. m_calls' = AtServices
  BY <1>2, <1>7 DEF chainVars
<1>12. QED
  BY <1>1, <1>2, <1>3, <1>7, <1>10, <1>11, SvcCloseFrame, SvcCountSuffices DEF ChainInv

LEMMA DeferredKeeps == ASSUME ChainInv, Deferred PROVE ChainInv'
<1>1. IInv'
  BY DeferredKeepsIInv DEF ChainInv
<1>2. /\ UNCHANGED <<setting, chainVars, ran, pending, appInfo, svcVars, appLocked>>
      /\ call = "none" /\ deferred # << >> /\ deferred' = Tail(deferred) /\ pending = "none"
  BY DEF Deferred, AtRest, ChainInv, IInv, OneWay
<1>3. deferred \in {<<"delete">>, <<"closed">>, <<"failed">>} /\ deferred' = << >>
  BY <1>2, DeferredQueues DEF ChainInv, IInv, ShapeOK
<1>4. CASE deferred = <<"delete">>
  <2>1. UNCHANGED callVars
    BY <1>4, DeferredQueues DEF Deferred
  <2>2. ChainTyped' /\ FrontIsCalled'
    BY <1>2, <2>1 DEF ChainInv, ChainTyped, FrontIsCalled, setting, chainVars, callVars
  <2>3. OthersGoStraight'
    BY <1>2, <1>3, <2>1 DEF ChainInv, OthersGoStraight, SvcUntouched, setting, chainVars, callVars, svcVars
  <2>4. ConditionsWait'
    BY <1>2 DEF ChainInv, ConditionsWait, setting, chainVars
  <2>5. LockFollows'
    BY <1>2, <2>1 DEF ChainInv, LockFollows, setting, chainVars, callVars
  <2>6. ServicesCount'
    BY <1>2, <1>3, <2>1, DeferredQueues
    DEF ChainInv, ServicesCount, SvcUntouched, Refusals, AllHaveClosed, setting, chainVars, callVars, svcVars
  <2>7. QED
    BY <1>1, <2>2, <2>3, <2>4, <2>5, <2>6 DEF ChainInv
<1>5. CASE deferred \in {<<"closed">>, <<"failed">>}
  <2>1. Closing(kind)
    BY <1>5, DeferredQueues DEF ChainInv, OthersGoStraight
  <2>2. m_calls = AtServices
    BY <1>5, <2>1 DEF ChainInv, ServicesCount
  <2>3. /\ call' = "onCallFinished" /\ result' \in BOOLEAN /\ failed' \in BOOLEAN
        /\ (failed' <=> ~result') /\ (result' => deferred = <<"closed">>)
    <3>1. CASE deferred = <<"closed">>
      BY <3>1, DeferredQueues DEF Deferred, OnFinished
    <3>2. CASE deferred = <<"failed">>
      BY <3>2, DeferredQueues DEF Deferred, OnFinished
    <3>3. QED
      BY <1>5, <3>1, <3>2
  <2>4. Closing(kind')
    BY <1>2, <2>1 DEF setting
  <2>5. ChainTyped' /\ FrontIsCalled'
    BY <1>2, <2>3 DEF ChainInv, ChainTyped, FrontIsCalled, setting, chainVars
  <2>6. ConditionsWait'
    BY <1>2 DEF ChainInv, ConditionsWait, setting, chainVars
  <2>7. LockFollows'
    <3>1. AtServices \notin {AtInfo, AtRemovable, AtLock, AtRunning, AtClose, << >>}
      BY StagesDiffer
    <3>2. QED
      BY <1>2, <2>1, <2>2, <2>3, <3>1 DEF ChainInv, LockFollows, setting, chainVars
  <2>8. ServicesCount'
    <3>1. SvcCount
      BY <2>1, SvcCountHolds
    <3>2. m_calls' = AtServices /\ AtServices # << >> /\ UNCHANGED Refusals
      BY <1>2, <2>2, StagesDiffer DEF chainVars, svcVars, Refusals
    <3>3. AllHaveClosed' => m_numResponse = m_numServices
      <4>1. << >> # <<"closed">>
        BY DeferredQueues
      <4>2. AllHaveClosed' => result'
        BY <1>3, <3>2, <4>1 DEF AllHaveClosed
      <4>3. QED
        BY <2>3, <3>1, <4>2 DEF SvcCount
    <3>4. QED
      BY <1>2, <1>3, <2>3, <3>1, <3>2, <3>3, DeferredQueues DEF ServicesCount, SvcCount, svcVars
  <2>9. QED
    BY <1>1, <2>4, <2>5, <2>6, <2>7, <2>8 DEF ChainInv, OthersGoStraight
<1>6. QED
  BY <1>3, <1>4, <1>5

LEMMA StepKeepsChain == ASSUME ChainInv, [Next]_vars PROVE ChainInv'
<1>1. CASE UNCHANGED vars
  <2>1. IInv'
    BY <1>1, StepKeepsIInv DEF ChainInv
  <2>2. ChainTyped' /\ FrontIsCalled'
    BY <1>1 DEF ChainInv, ChainTyped, FrontIsCalled, vars, setting, chainVars, callVars
  <2>3. OthersGoStraight'
    BY <1>1 DEF ChainInv, OthersGoStraight, SvcUntouched, vars, setting, chainVars, callVars, svcVars
  <2>4. ConditionsWait' /\ LockFollows'
    BY <1>1 DEF ChainInv, ConditionsWait, LockFollows, vars, setting, chainVars, callVars
  <2>5. ServicesCount'
    BY <1>1 DEF ChainInv, ServicesCount, SvcUntouched, Refusals, AllHaveClosed, vars, setting, chainVars,
       callVars, svcVars
  <2>6. QED
    BY <2>1, <2>2, <2>3, <2>4, <2>5 DEF ChainInv
<1>2. CASE Run \/ Proceed \/ Finish \/ OnCallError
  BY <1>2, ChainMovesKeep
<1>3. CASE OnCallFinished
  BY <1>3, CallFinishedKeeps
<1>4. CASE (\E item \in Item : CallService(item)) \/ CallRemovable
  BY <1>4, ServiceCallKeeps, RemovableKeeps
<1>5. CASE Reply
  BY <1>5, ReplyKeeps
<1>6. CASE CallSvcClose \/ CloseService \/ EndOfServices \/ QuitReplied
  BY <1>6, CallSvcCloseKeeps, CloseServiceKeeps, EndOfServicesKeeps, QuitKeeps
<1>7. CASE Deferred
  BY <1>7, DeferredKeeps
<1>8. QED
  BY <1>1, <1>2, <1>3, <1>4, <1>5, <1>6, <1>7 DEF Next, Inside

LEMMA ChainInvariantHolds == Spec => []ChainInv
<1>1. ChainInv /\ [Next]_vars => ChainInv'
  BY StepKeepsChain
<1>2. QED
  BY <1>1, InitEstablishesChain, PTL DEF Spec

---------------------------------------------------------------------------
(* What the chains of AppCloseStep promise.                                *)

LEMMA ClosingImplies ==
    ASSUME ChainInv
    PROVE  LockedBeforeClosed /\ OnlyRemovableLocked /\ ClosedMeansAllClosed
<1>1. quits \in Nat /\ (pending # "none" => m_calls # << >> /\ pending = Head(m_calls))
  BY DEF ChainInv, IInv, ShapeOK, FrontIsCalled
<1>2. CASE ~Closing(kind)
  <2>1. SvcUntouched /\ ~appLocked
    BY <1>2 DEF ChainInv, OthersGoStraight
  <2>2. pending \notin {"AppRunning", "AppClose"}
    BY <1>1, <1>2, StageOfFront DEF Item
  <2>3. QED
    BY <1>2, <2>1, <2>2 DEF LockedBeforeClosed, OnlyRemovableLocked, ClosedMeansAllClosed, SvcUntouched
<1>3. CASE Closing(kind)
  <2>1. m_calls \in Stages
    BY <1>3 DEF ChainInv, ConditionsWait
  <2>2. m_calls \in {AtRunning, AtClose, AtServices, << >>} => (appLocked <=> appInfo # "none")
    BY <1>3 DEF ChainInv, LockFollows
  <2>3. LockedBeforeClosed
    <3>1. pending \in {"AppRunning", "AppClose"} => m_calls \in {AtRunning, AtClose}
      BY <1>1, <1>3, StageOfFront DEF Item
    <3>2. quits > 0 \/ m_numResponse > 0 => m_calls \in {AtServices, << >>}
      <4>1. m_calls \notin {AtServices, << >>} => quits = 0 /\ m_numResponse = 0
        BY <1>3 DEF ChainInv, ServicesCount, SvcUntouched
      <4>2. QED
        BY <4>1
    <3>3. QED
      BY <2>2, <3>1, <3>2 DEF LockedBeforeClosed
  <2>4. OnlyRemovableLocked
    BY <1>3, <2>1 DEF ChainInv, LockFollows, OnlyRemovableLocked, Stages
  <2>5. ClosedMeansAllClosed
    <3>1. SUFFICES ASSUME handled = 1, verdict, appInfo # "none"
                   PROVE  appLocked /\ m_numResponse = m_numServices /\ quits = 0 /\ ~refused
      BY DEF ClosedMeansAllClosed
    <3>2. m_calls = << >>
      BY <3>1 DEF ChainInv, FrontIsCalled, IInv, ShapeOK
    <3>3. m_numResponse = m_numServices
      BY <1>3, <3>2 DEF ChainInv, ServicesCount, AllHaveClosed
    <3>4. SvcCount /\ Len(todo) \in Nat /\ Refusals \in {0, 1}
      BY <1>3, SvcCountHolds DEF SvcCount, Refusals
    <3>5. quits = 0 /\ Refusals = 0
      BY <1>1, <3>3, <3>4 DEF SvcCount
    <3>6. QED
      BY <2>2, <3>1, <3>2, <3>3, <3>5 DEF Refusals
  <2>6. QED
    BY <2>3, <2>4, <2>5
<1>4. QED
  BY <1>2, <1>3

(***************************************************************************)
(* A known app is locked before anything of it is closed, however many     *)
(* services it has and whatever the luna services answer.                  *)
(***************************************************************************)
THEOREM LockComesFirst == Spec => []LockedBeforeClosed
BY ChainInvariantHolds, ClosingImplies, PTL

(***************************************************************************)
(* A remove locks only a removable app, and no chain an unknown one.       *)
(***************************************************************************)
THEOREM RemovableAppsOnly == Spec => []OnlyRemovableLocked
BY ChainInvariantHolds, ClosingImplies, PTL

(***************************************************************************)
(* The chain that closes a known app reports success only if it has locked *)
(* the app and every service of it has agreed to quit.                     *)
(***************************************************************************)
THEOREM ClosedIsTrue == Spec => []ClosedMeansAllClosed
BY ChainInvariantHolds, ClosingImplies, PTL

---------------------------------------------------------------------------
(* AppClosing is implemented.                                              *)

\* Which stages still have an item to call.
LEMMA CallsAtStage ==
    \A s \in Stages :
        /\ (\E k \in DOMAIN s : s[k] = "AppInfo") <=> s = AtInfo
        /\ (\E k \in DOMAIN s : s[k] = "AppRemovable") <=> s = AtRemovable
        /\ (\E k \in DOMAIN s : s[k] = "AppLock") <=> s \in {AtRemovable, AtLock}
<1>1. /\ \E k \in DOMAIN AtInfo : AtInfo[k] = "AppInfo"
      /\ \E k \in DOMAIN AtRemovable : AtRemovable[k] = "AppRemovable"
      /\ \E k \in DOMAIN AtRemovable : AtRemovable[k] = "AppLock"
      /\ \E k \in DOMAIN AtLock : AtLock[k] = "AppLock"
  BY DEF AtInfo, AtRemovable, AtLock
<1>2. /\ \A k \in DOMAIN AtInfo : AtInfo[k] \notin {"AppRemovable", "AppLock"}
      /\ \A k \in DOMAIN AtRemovable : AtRemovable[k] # "AppInfo"
      /\ \A k \in DOMAIN AtLock : AtLock[k] \notin {"AppInfo", "AppRemovable"}
      /\ \A s \in {AtRunning, AtClose, AtServices, << >>} : \A k \in DOMAIN s :
             s[k] \notin {"AppInfo", "AppRemovable", "AppLock"}
  BY DEF AtInfo, AtRemovable, AtLock, AtRunning, AtClose, AtServices
<1>3. ASSUME NEW s \in Stages
      PROVE  /\ (\E k \in DOMAIN s : s[k] = "AppInfo") <=> s = AtInfo
             /\ (\E k \in DOMAIN s : s[k] = "AppRemovable") <=> s = AtRemovable
             /\ (\E k \in DOMAIN s : s[k] = "AppLock") <=> s \in {AtRemovable, AtLock}
  <2>1. CASE s = AtInfo
    BY <1>1, <1>2, <2>1, StagesDiffer
  <2>2. CASE s = AtRemovable
    BY <1>1, <1>2, <2>2, StagesDiffer
  <2>3. CASE s = AtLock
    BY <1>1, <1>2, <2>3, StagesDiffer
  <2>4. CASE s \in {AtRunning, AtClose, AtServices, << >>}
    BY <1>2, <2>4, StagesDiffer
  <2>5. QED
    BY <2>1, <2>2, <2>3, <2>4 DEF Stages
<1>4. QED
  BY <1>3

\* The stage of AppClosing of a chain that closes an app.
StageOf(finished, verdictIs, fails, calls) ==
    IF finished THEN IF verdictIs THEN "closed" ELSE "failed"
    ELSE IF fails THEN "failed"
    ELSE IF calls \in {AtInfo, AtRemovable} THEN "closeInfo"
    ELSE IF calls = AtLock THEN "closeLock" ELSE "closeApp"

LEMMA StageNow ==
    ASSUME ChainInv, Closing(kind)
    PROVE  /\ CloseStage = StageOf(m_finished, verdict, Failing, m_calls)
           /\ LockTaken \in BOOLEAN
           /\ LockTaken <=> appLocked /\ m_calls # AtLock
<1>1. m_calls \in Stages /\ (m_calls = AtRemovable => ~appLocked) /\ appLocked \in BOOLEAN
  BY DEF ChainInv, ConditionsWait, LockFollows
<1>2. /\ InCalls("AppInfo") <=> m_calls = AtInfo
      /\ InCalls("AppRemovable") <=> m_calls = AtRemovable
      /\ InCalls("AppLock") <=> m_calls \in {AtRemovable, AtLock}
  BY <1>1, CallsAtStage DEF InCalls
<1>3. CloseStage = StageOf(m_finished, verdict, Failing, m_calls)
  BY <1>2 DEF CloseStage, StageOf
<1>4. LockTaken \in BOOLEAN /\ (LockTaken <=> appLocked /\ m_calls # AtLock)
  BY <1>1, <1>2 DEF LockTaken
<1>5. QED
  BY <1>3, <1>4

LEMMA StageNext ==
    ASSUME ChainInv', Closing(kind)'
    PROVE  /\ CloseStage' = StageOf(m_finished', verdict', Failing', m_calls')
           /\ LockTaken' \in BOOLEAN
           /\ LockTaken' <=> appLocked' /\ m_calls' # AtLock
<1>1. m_calls' \in Stages /\ (m_calls' = AtRemovable => ~appLocked') /\ appLocked' \in BOOLEAN
  BY DEF ChainInv, ConditionsWait, LockFollows
<1>2. /\ InCalls("AppInfo")' <=> m_calls' = AtInfo
      /\ InCalls("AppRemovable")' <=> m_calls' = AtRemovable
      /\ InCalls("AppLock")' <=> m_calls' \in {AtRemovable, AtLock}
  BY <1>1, CallsAtStage DEF InCalls
<1>3. CloseStage' = StageOf(m_finished', verdict', Failing', m_calls')
  BY <1>2 DEF CloseStage, StageOf
<1>4. LockTaken' \in BOOLEAN /\ (LockTaken' <=> appLocked' /\ m_calls' # AtLock)
  BY <1>1, <1>2 DEF LockTaken
<1>5. QED
  BY <1>3, <1>4

LEMMA CloseUnchanged ==
    ASSUME UNCHANGED <<setting, CloseStage, LockTaken>>
    PROVE  UNCHANGED Close!vars
BY DEF Close!vars, setting

LEMMA CloseStutters ==
    ASSUME ChainInv, ChainInv', Closing(kind),
           UNCHANGED <<setting, m_calls, m_finished, verdict>>,
           ~m_finished => (Failing' <=> Failing),
           UNCHANGED appLocked \/ m_calls = AtLock
    PROVE  UNCHANGED Close!vars
<1>1. Closing(kind)'
  BY DEF setting
<1>2. UNCHANGED CloseStage
  BY <1>1, StageNow, StageNext DEF StageOf
<1>3. UNCHANGED LockTaken
  BY <1>1, StageNow, StageNext
<1>4. QED
  BY <1>2, <1>3, CloseUnchanged

\* A chain that is not over fails, by one of the three replies.
LEMMA CloseFails ==
    ASSUME ChainInv, ChainInv', Closing(kind), ~m_finished, ~m_finished', ~Failing, Failing',
           UNCHANGED <<setting, m_calls, appLocked>>,
           m_calls \in {AtInfo, AtRemovable} => kind = "closeRemove" \/ sendMayFail
    PROVE  Close!Next
<1>1. Closing(kind)' /\ UNCHANGED <<kind, sendMayFail>>
  BY DEF setting
<1>2. CloseStage' = "failed"
  BY <1>1, StageNext DEF StageOf
<1>3. UNCHANGED LockTaken
  BY <1>1, StageNow, StageNext
<1>4. CASE m_calls \in {AtInfo, AtRemovable}
  <2>1. CloseStage = "closeInfo"
    BY <1>4, StageNow DEF StageOf
  <2>2. Close!Info
    BY <1>1, <1>2, <1>3, <1>4, <2>1 DEF Close!Info
  <2>3. QED
    BY <2>2 DEF Close!Next
<1>5. CASE m_calls = AtLock
  <2>1. CloseStage = "closeLock"
    BY <1>5, StageNow, StagesDiffer DEF StageOf
  <2>2. Close!Lock
    BY <1>1, <1>2, <1>3, <2>1 DEF Close!Lock
  <2>3. QED
    BY <2>2 DEF Close!Next
<1>6. CASE m_calls \notin {AtInfo, AtRemovable, AtLock}
  <2>1. CloseStage = "closeApp"
    BY <1>6, StageNow DEF StageOf
  <2>2. Close!Close
    BY <1>1, <1>2, <1>3, <2>1 DEF Close!Close
  <2>3. QED
    BY <2>2 DEF Close!Next
<1>7. QED
  BY <1>4, <1>5, <1>6

\* The chain goes on: the app is known and to be locked, unknown, or locked now.
LEMMA CloseGoesOn ==
    ASSUME ChainInv, ChainInv', Closing(kind), OnCallFinished, ~StopsThere
    PROVE  [Close!Next]_(Close!vars)
<1>1. /\ UNCHANGED <<setting, m_finished, verdict, appInfo, appLocked>>
      /\ Closing(kind)' /\ UNCHANGED <<kind, sendMayFail>>
      /\ call = "onCallFinished" /\ ~m_finished
  BY DEF OnCallFinished, setting, ChainInv, IInv, OneWay
<1>2. call' = "proceed"
  BY ClosingGoesOn DEF GoesFrom
<1>3. ~Failing /\ ~Failing'
  BY <1>1, <1>2 DEF Failing
<1>4. CloseStage = StageOf(FALSE, verdict, FALSE, m_calls) /\ CloseStage' = StageOf(FALSE, verdict, FALSE, m_calls')
  BY <1>1, <1>3, StageNow, StageNext DEF StageOf
<1>5. CASE \/ GoesFrom(AtInfo, IF kind = "closeRemove" THEN AtRemovable ELSE AtLock)
           \/ GoesFrom(AtInfo, AtRunning) \/ GoesFrom(AtRemovable, AtLock)
  <2>1. ~appLocked
    BY <1>5 DEF ChainInv, LockFollows, GoesFrom
  <2>2. UNCHANGED LockTaken
    BY <1>1, <2>1, StageNow, StageNext
  <2>3. m_calls \in {AtInfo, AtRemovable} /\ m_calls' \in {AtRemovable, AtLock, AtRunning}
    BY <1>5 DEF GoesFrom
  <2>4. CloseStage = "closeInfo" /\ CloseStage' \in {"closeInfo", "closeLock", "closeApp"}
    BY <1>4, <2>3 DEF StageOf
  <2>5. CASE CloseStage' = "closeInfo"
    BY <1>1, <2>2, <2>4, <2>5, CloseUnchanged
  <2>6. CASE CloseStage' \in {"closeLock", "closeApp"}
    <3>1. Close!Info
      BY <1>1, <2>2, <2>4, <2>6 DEF Close!Info
    <3>2. QED
      BY <3>1 DEF Close!Next
  <2>7. QED
    BY <2>4, <2>5, <2>6
<1>6. CASE result /\ GoesFrom(AtLock, AtRunning)
  <2>1. m_calls = AtLock /\ m_calls' = AtRunning
    BY <1>6 DEF GoesFrom
  <2>2. appLocked
    BY <1>1, <1>6, <2>1 DEF ChainInv, LockFollows
  <2>3. CloseStage = "closeLock" /\ CloseStage' = "closeApp"
    BY <1>4, <2>1, StagesDiffer DEF StageOf
  <2>4. LockTaken'
    BY <1>1, <2>1, <2>2, StageNext, StagesDiffer
  <2>5. LockTaken' = TRUE
    BY <1>1, <2>4, StageNext
  <2>6. Close!Lock
    BY <1>1, <2>3, <2>5 DEF Close!Lock
  <2>7. QED
    BY <2>6 DEF Close!Next
<1>7. CASE \/ GoesFrom(AtRunning, AtClose) \/ GoesFrom(AtRunning, AtServices)
           \/ GoesFrom(AtClose, AtServices) \/ GoesFrom(AtServices, << >>)
  <2>1. m_calls \notin {AtInfo, AtRemovable, AtLock} /\ m_calls' \notin {AtInfo, AtRemovable, AtLock}
    BY <1>7, StagesDiffer DEF GoesFrom
  <2>2. UNCHANGED CloseStage
    BY <1>4, <2>1 DEF StageOf
  <2>3. UNCHANGED LockTaken
    BY <1>1, <2>1, StageNow, StageNext
  <2>4. QED
    BY <1>1, <2>2, <2>3, CloseUnchanged
<1>8. QED
  BY <1>5, <1>6, <1>7, ClosingGoesOn

LEMMA ClosingStep ==
    ASSUME ChainInv, ChainInv', Closing(kind), [Next]_vars
    PROVE  [Close!Next]_(Close!vars)
<1>1. CASE UNCHANGED vars
  <2>1. UNCHANGED Close!vars
    BY <1>1, CloseStutters DEF vars, setting, chainVars, callVars, Failing
  <2>2. QED
    BY <2>1
<1>2. CASE Run \/ Proceed \/ OnCallError
  <2>1. UNCHANGED <<setting, m_calls, m_finished, verdict, appLocked>>
    BY <1>2 DEF Run, Proceed, OnCallError, chainVars
  <2>2. Failing' <=> Failing
    BY <1>2 DEF Run, Proceed, OnCallError, Enter, Failing, ChainInv, IInv, RunOnce
  <2>3. QED
    BY <2>1, <2>2, CloseStutters
<1>3. CASE Finish
  <2>1. /\ ~m_finished /\ m_finished' /\ verdict' = result /\ call = "finish" /\ result \in BOOLEAN
        /\ UNCHANGED <<setting, m_calls, appLocked>>
        /\ Closing(kind)' /\ UNCHANGED <<kind, sendMayFail>>
    BY <1>3 DEF Finish, ChainInv, IInv, OneWay, ChainTyped, setting
  <2>2. UNCHANGED LockTaken
    BY <2>1, StageNow, StageNext
  <2>3. CASE result
    <3>1. m_calls = << >> /\ ~Failing
      BY <2>1, <2>3 DEF ChainInv, FrontIsCalled, Failing
    <3>2. CloseStage = "closeApp" /\ CloseStage' = "closed"
      BY <2>1, <2>3, <3>1, StageNow, StageNext, StagesDiffer DEF StageOf
    <3>3. Close!Close
      BY <2>1, <2>2, <3>2 DEF Close!Close
    <3>4. QED
      BY <3>3 DEF Close!Next
  <2>4. CASE ~result
    <3>1. CloseStage = "failed" /\ CloseStage' = "failed"
      BY <2>1, <2>4, StageNow, StageNext DEF StageOf, Failing
    <3>2. QED
      BY <2>1, <2>2, <3>1, CloseUnchanged
  <2>5. QED
    BY <2>3, <2>4
<1>4. CASE OnCallFinished
  <2>1. CASE StopsThere
    <3>1. /\ UNCHANGED <<setting, m_calls, m_finished, appLocked>>
          /\ ~m_finished /\ ~Failing /\ Failing'
      BY <1>4, <2>1 DEF OnCallFinished, StopsThere, Failing, ChainInv, IInv, OneWay
    <3>2. m_calls \notin {AtInfo, AtRemovable}
      BY <1>4, <2>1, StagesDiffer DEF StopsThere, OnCallFinished, ChainInv, LockFollows
    <3>3. Close!Next
      BY <3>1, <3>2, CloseFails
    <3>4. QED
      BY <3>3
  <2>2. CASE ~StopsThere
    BY <1>4, <2>2, CloseGoesOn
  <2>3. QED
    BY <2>1, <2>2
<1>5. ASSUME NEW item \in Item, CallService(item)
      PROVE  [Close!Next]_(Close!vars)
  <2>1. /\ UNCHANGED <<setting, m_calls, m_finished, verdict, appLocked>>
        /\ call = "Call" /\ ~m_finished /\ ~m_finished' /\ ~Failing
    BY <1>5 DEF CallService, Calling, chainVars, Failing, ChainInv, IInv, OneWay
  <2>2. CASE call' = "none"
    <3>1. ~Failing'
      BY <2>2 DEF Failing
    <3>2. QED
      BY <2>1, <3>1, CloseStutters
  <2>3. CASE call' # "none"
    <3>1. (sendMayFail \/ item = "RemoveIpk") /\ Failing'
      BY <1>5, <2>3 DEF CallService, NotSent, Enter, Failing
    <3>2. m_calls # << >> /\ Head(m_calls) = item
      BY <1>5, <2>1 DEF CallService, Calling, ChainInv, FrontIsCalled
    <3>3. item # "RemoveIpk"
      BY <3>2, StageOfFront
    <3>4. Close!Next
      BY <2>1, <3>1, <3>3, CloseFails
    <3>5. QED
      BY <3>4
  <2>4. QED
    BY <2>2, <2>3
<1>6. CASE CallRemovable
  <2>1. /\ UNCHANGED <<setting, m_calls, m_finished, verdict, appLocked>>
        /\ call = "Call" /\ ~m_finished /\ ~m_finished' /\ ~Failing
        /\ call' \in {"onCallFinished", "onCallError"}
    BY <1>6 DEF CallRemovable, Calling, chainVars, Failing, ChainInv, IInv, OneWay, OnFinished, NotSent, Enter
  <2>2. CASE call' = "onCallFinished"
    <3>1. ~Failing'
      BY <2>2 DEF Failing
    <3>2. QED
      BY <2>1, <3>1, CloseStutters
  <2>3. CASE call' = "onCallError"
    <3>1. Failing'
      BY <2>3 DEF Failing
    <3>2. m_calls = AtRemovable
      BY <1>6, <2>1, StageOfFront DEF CallRemovable, Calling, ChainInv, FrontIsCalled, Item
    <3>3. kind = "closeRemove"
      BY <3>2 DEF ChainInv, ConditionsWait
    <3>4. Close!Next
      BY <2>1, <3>1, <3>3, CloseFails
    <3>5. QED
      BY <3>4
  <2>4. QED
    BY <2>1, <2>2, <2>3
<1>7. CASE Reply
  <2>1. /\ UNCHANGED <<setting, m_calls, m_finished, verdict>>
        /\ call = "none" /\ call' = "onCallFinished"
        /\ UNCHANGED appLocked \/ pending = "AppLock"
    BY <1>7 DEF Reply, AppInfoReplied, AppLockReplied, AppRunningReplied, CloseOrManifestReplied,
       RemoveReplied, Replied, AtRest, OnFinished, chainVars
  <2>2. pending = "AppLock" => m_calls = AtLock
    BY StageOfFront DEF ChainInv, FrontIsCalled, Item
  <2>3. ~Failing /\ ~Failing'
    BY <2>1 DEF Failing
  <2>4. QED
    BY <2>1, <2>2, <2>3, CloseStutters
<1>8. CASE CallSvcClose \/ CloseService \/ EndOfServices \/ QuitReplied
  <2>1. /\ UNCHANGED <<setting, m_calls, m_finished, verdict, appLocked>>
        /\ call \in {"Call", "services", "none"} /\ call' \in {"services", "none"}
    BY <1>8 DEF CallSvcClose, CloseService, EndOfServices, QuitReplied, Calling, AtRest, Enter, chainVars,
       callVars
  <2>2. ~Failing /\ ~Failing'
    BY <2>1 DEF Failing
  <2>3. QED
    BY <2>1, <2>2, CloseStutters
<1>9. CASE Deferred
  <2>1. /\ UNCHANGED <<setting, m_calls, m_finished, verdict, appLocked>>
        /\ call = "none" /\ call' \in {"none", "onCallFinished"}
    BY <1>9 DEF Deferred, AtRest, OnFinished, chainVars, callVars
  <2>2. ~Failing /\ ~Failing'
    BY <2>1 DEF Failing
  <2>3. QED
    BY <2>1, <2>2, CloseStutters
<1>10. QED
  BY <1>1, <1>2, <1>3, <1>4, <1>5, <1>6, <1>7, <1>8, <1>9 DEF Next, Inside

\* The other chains stay at the first reply, with nothing locked.
LEMMA OtherStep ==
    ASSUME ChainInv, ChainInv', ~Closing(kind), [Next]_vars
    PROVE  UNCHANGED Close!vars
<1>1. UNCHANGED setting
  BY DEF Next, Inside, Run, Proceed, Finish, OnCallError, OnCallFinished, CallService, CallRemovable,
     CallSvcClose, CloseService, EndOfServices, Reply, AppInfoReplied, AppLockReplied, AppRunningReplied,
     CloseOrManifestReplied, RemoveReplied, Replied, QuitReplied, Deferred, vars
<1>2. ~Closing(kind)'
  BY <1>1 DEF setting
<1>3. ~appLocked /\ ~appLocked'
  BY <1>2 DEF ChainInv, OthersGoStraight
<1>4. UNCHANGED <<CloseStage, LockTaken>>
  BY <1>2, <1>3 DEF CloseStage, LockTaken
<1>5. QED
  BY <1>1, <1>4, CloseUnchanged

LEMMA InitIsClosingInit == ASSUME Init PROVE Close!Init
<1>1. ChainInv
  BY InitEstablishesChain
<1>2. LockTaken = FALSE
  BY DEF Init, LockTaken
<1>3. CloseStage = "closeInfo"
  <2>1. CASE Closing(kind)
    <3>1. m_calls = AtInfo /\ ~m_finished /\ ~Failing
      BY <2>1 DEF Init, Added, Closing, AtInfo, Failing
    <3>2. QED
      BY <1>1, <2>1, <3>1, StageNow DEF StageOf
  <2>2. CASE ~Closing(kind)
    BY <2>2 DEF CloseStage
  <2>3. QED
    BY <2>1, <2>2
<1>4. sendMayFail \in BOOLEAN /\ (kind = "closeRemove") \in BOOLEAN
  BY DEF Init
<1>5. QED
  BY <1>2, <1>3, <1>4 DEF Close!Init

(***************************************************************************)
(* The chain of AppCloseStep, with its conditional items and its parallel  *)
(* calls to services, implements the three replies AppInstaller has for    *)
(* it: is the app known, is it locked now, is it closed now.               *)
(***************************************************************************)
THEOREM ClosingIsImplemented == Spec => ImplementsAppClosing
<1>1. ChainInv /\ ChainInv' /\ [Next]_vars => [Close!Next]_(Close!vars)
  BY ClosingStep, OtherStep
<1>2. QED
  BY <1>1, InitIsClosingInit, ChainInvariantHolds, PTL DEF Spec, ImplementsAppClosing, Close!Spec

=============================================================================
