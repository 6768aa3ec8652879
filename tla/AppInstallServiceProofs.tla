------------------------- MODULE AppInstallServiceProofs -------------------------
(***************************************************************************)
(* Theorems about AppInstallService, for any ids and requests.             *)
(***************************************************************************)
EXTENDS AppInstallService, TLAPS

(***************************************************************************)
(* What a client has not heard through an answer or a subscription: before *)
(* its request is accepted nothing, and a client of install or remove      *)
(* nothing about other ids.                                                *)
(***************************************************************************)
HeardOnlyAsked ==
    \A r \in Request :
        /\ state[r] # "accepted" => heard[r] = Nothing
        /\ method[r] # "status" => \A a \in AppId \ {id[r]} : heard[r][a] = "nothing"

IInv == TypeOK /\ AnsweredOnce /\ HeardOnlyAsked /\ HearsTheTruth

\* The initial states satisfy the invariant.
LEMMA InitEstablishes == Init => IInv
BY SMT DEF Init, IInv, TypeOK, AnsweredOnce, HeardOnlyAsked, HearsTheTruth, Nothing, Method,
       Engine!Init, Engine!TypeOK

\* A refusal of a request that waits for its answer.
LEMMA ReplyErrorKeepsTruth ==
    ASSUME IInv, NEW r \in Request, state[r] \in {"free", "asked"}, ReplyError(r),
           method' \in [Request -> Method], id' \in [Request -> AppId],
           \A q \in Request \ {r} : method'[q] = method[q] /\ id'[q] = id[q]
    PROVE  HeardOnlyAsked' /\ HearsTheTruth'
BY SMT DEF IInv, TypeOK, AnsweredOnce, HeardOnlyAsked, HearsTheTruth, ReplyError, Respond, Nothing,
       Engine!TypeOK, engineVars

\* An accepted or refused command of a request that waits for its answer.
LEMMA CommandKeepsTruth ==
    ASSUME IInv, NEW r \in Request, state[r] \in {"free", "asked"},
           method' \in [Request -> Method], id' \in [Request -> AppId],
           \A q \in Request \ {r} : method'[q] = method[q] /\ id'[q] = id[q],
           Command(r, id'[r])
    PROVE  HeardOnlyAsked' /\ HearsTheTruth'
<1>1. CASE Known(id'[r])
  BY <1>1, ReplyErrorKeepsTruth DEF Command
<1>2. CASE ~Known(id'[r])
  <2> DEFINE a == id'[r]
  <2>1. /\ a \in AppId
        /\ phase[a] = "idle"
        /\ phase' = [phase EXCEPT ![a] = "active"]
        /\ state' = [state EXCEPT ![r] = "accepted"]
        /\ subscribed' \in {subscribed, subscribed \cup {r}}
        /\ heard' = [heard EXCEPT ![r][a] = "active"]
    BY <1>2 DEF Command, Known, Respond, Subscribe
  <2>2. heard[r] = Nothing
    BY DEF IInv, HeardOnlyAsked
  <2>3. HeardOnlyAsked'
    BY <2>1, <2>2, SMT DEF IInv, TypeOK, HeardOnlyAsked, Nothing
  <2>4. HearsTheTruth'
    BY <2>1, <2>2, SMT DEF IInv, TypeOK, HearsTheTruth, Nothing, Engine!TypeOK
  <2>5. QED
    BY <2>3, <2>4
<1>3. QED
  BY <1>1, <1>2

---------------------------------------------------------------------------
(* The actions.                                                            *)

\* A received request fills a free slot, whatever is answered.
LEMMA ReceivedSlot ==
    ASSUME TypeOK, NEW r \in Request, NEW m \in Method, Received(r, m)
    PROVE  /\ state[r] = "free" /\ method'[r] = m
           /\ method' \in [Request -> Method] /\ id' \in [Request -> AppId]
           /\ \A q \in Request \ {r} : method'[q] = method[q] /\ id'[q] = id[q]
BY DEF TypeOK, Received

\* An answer settles the request if its message is held no longer.
LEMMA AnswerSettles ==
    ASSUME TypeOK, AnsweredOnce, NEW r \in Request, state[r] \in {"free", "asked"},
           method' \in [Request -> Method], id' \in [Request -> AppId],
           ReplyError(r) \/ Command(r, id'[r]),
           refs' = [refs EXCEPT ![r] = 0], timed' = timed \ {r}
    PROVE  TypeOK' /\ AnsweredOnce'
<1>1. CASE ReplyError(r)
  BY <1>1, SMT DEF TypeOK, AnsweredOnce, ReplyError, Respond, engineVars, Engine!TypeOK
<1>2. CASE ~Known(id'[r]) /\ Command(r, id'[r])
  <2> DEFINE a == id'[r]
  <2>1. /\ a \in AppId
        /\ phase' = [phase EXCEPT ![a] = "active"] /\ owed' = owed
        /\ state' = [state EXCEPT ![r] = "accepted"]
        /\ answers' = [answers EXCEPT ![r] = @ + 1]
        /\ subscribed' \in {subscribed, subscribed \cup {r}}
        /\ heard' = [heard EXCEPT ![r][a] = "active"]
    BY <1>2 DEF Command, Respond, Subscribe
  <2>2. TypeOK'
    BY <2>1, SMT DEF TypeOK, AnsweredOnce, Engine!TypeOK
  <2>3. AnsweredOnce'
    BY <2>1, SMT DEF TypeOK, AnsweredOnce
  <2>4. QED
    BY <2>2, <2>3
<1>3. QED
  BY <1>1, <1>2 DEF Command

\* Every step of a request keeps the invariant.
LEMMA RequestKeepsIInv ==
    ASSUME IInv, NEW r \in Request,
           \/ Install(r) \/ Remove(r) \/ RemoveNotSent(r) \/ Status(r)
           \/ AppInfoReplied(r) \/ AppInfoTimedOut(r) \/ Leave(r)
    PROVE  IInv'
<1> USE DEF IInv
<1>1. CASE Install(r)
  <2>1. /\ Received(r, "install") /\ "install" \in Method
        /\ ReplyError(r) \/ Command(r, id'[r])
        /\ UNCHANGED <<refs, timed>>
    BY <1>1 DEF Install, Method
  <2>2. refs' = [refs EXCEPT ![r] = 0] /\ timed' = timed \ {r}
    BY <2>1, ReceivedSlot, SMT DEF TypeOK, AnsweredOnce
  <2>3. QED
    BY <2>1, <2>2, ReceivedSlot, AnswerSettles, ReplyErrorKeepsTruth, CommandKeepsTruth
<1>2. CASE Remove(r)
  <2>1. Received(r, "remove") /\ "remove" \in Method
    BY <1>2 DEF Remove, Method
  <2>2. CASE ReplyError(r) /\ UNCHANGED <<refs, timed>>
    <3>1. refs' = [refs EXCEPT ![r] = 0] /\ timed' = timed \ {r}
      BY <2>1, <2>2, ReceivedSlot, SMT DEF TypeOK, AnsweredOnce
    <3>2. QED
      BY <2>1, <2>2, <3>1, ReceivedSlot, AnswerSettles, ReplyErrorKeepsTruth
  <2>3. CASE /\ state' = [state EXCEPT ![r] = "asked"]
             /\ refs' = [refs EXCEPT ![r] = @ + 1]
             /\ SetTimeout(r)
             /\ UNCHANGED <<engineVars, answers, subscribed, heard>>
    <3>1. TypeOK' /\ AnsweredOnce'
      BY <2>1, <2>3, ReceivedSlot, SMT
      DEF TypeOK, AnsweredOnce, SetTimeout, engineVars, Engine!TypeOK
    <3>2. HeardOnlyAsked' /\ HearsTheTruth'
      BY <2>1, <2>3, ReceivedSlot, SMT
      DEF TypeOK, AnsweredOnce, HeardOnlyAsked, HearsTheTruth, Nothing, engineVars
    <3>3. QED
      BY <3>1, <3>2
  <2>4. QED
    BY <1>2, <2>2, <2>3 DEF Remove
<1>3. CASE RemoveNotSent(r)
  <2>1. /\ Received(r, "remove") /\ "remove" \in Method
        /\ ReplyError(r) /\ UNCHANGED <<refs, timed>>
    BY <1>3 DEF RemoveNotSent, Method
  <2>2. refs' = [refs EXCEPT ![r] = 0] /\ timed' = timed \ {r}
    BY <2>1, ReceivedSlot, SMT DEF TypeOK, AnsweredOnce
  <2>3. QED
    BY <2>1, <2>2, ReceivedSlot, AnswerSettles, ReplyErrorKeepsTruth
<1>4. CASE Status(r)
  <2>1. /\ Received(r, "status") /\ "status" \in Method
        /\ UNCHANGED <<refs, timed>>
    BY <1>4 DEF Status, Method
  <2>2. CASE ReplyError(r)
    <3>1. refs' = [refs EXCEPT ![r] = 0] /\ timed' = timed \ {r}
      BY <2>1, ReceivedSlot, SMT DEF TypeOK, AnsweredOnce
    <3>2. QED
      BY <2>1, <2>2, <3>1, ReceivedSlot, AnswerSettles, ReplyErrorKeepsTruth
  <2>3. CASE /\ Respond(r, "accepted") /\ Subscribe(r)
             /\ heard' = [heard EXCEPT ![r] = Snapshot]
             /\ UNCHANGED engineVars
    <3>1. Snapshot \in [AppId -> {"nothing", "active", "ended"}]
      BY SMT DEF TypeOK, Snapshot, Engine!TypeOK
    <3>2. TypeOK' /\ AnsweredOnce'
      BY <2>1, <2>3, <3>1, ReceivedSlot, SMT
      DEF TypeOK, AnsweredOnce, Respond, Subscribe, engineVars, Engine!TypeOK
    <3>3. \A a \in AppId : Snapshot[a] = "active" => phase[a] = "active"
      BY SMT DEF Snapshot
    <3>4. HeardOnlyAsked' /\ HearsTheTruth'
      <4> HIDE DEF Snapshot
      <4>1. QED
        BY <2>1, <2>3, <3>1, <3>3, ReceivedSlot, SMT
        DEF TypeOK, HeardOnlyAsked, HearsTheTruth, Respond, Subscribe, engineVars, Nothing
    <3>5. QED
      BY <3>2, <3>4
  <2>4. QED
    BY <1>4, <2>2, <2>3 DEF Status
<1>5. CASE AppInfoReplied(r)
  <2>1. /\ state[r] = "asked" /\ refs[r] = 1
        /\ id'[r] = id[r] /\ UNCHANGED <<method, id>>
        /\ ReplyError(r) \/ Command(r, id'[r])
        /\ timed' = timed \ {r}
    BY <1>5 DEF AppInfoReplied, AnsweredOnce
  <2>2. refs' = [refs EXCEPT ![r] = 0]
    BY <1>5, <2>1, SMT DEF AppInfoReplied, Unref, TypeOK
  <2>3. method' \in [Request -> Method] /\ id' \in [Request -> AppId]
    BY <2>1 DEF TypeOK
  <2>4. QED
    BY <2>1, <2>2, <2>3, AnswerSettles, ReplyErrorKeepsTruth, CommandKeepsTruth
<1>6. CASE AppInfoTimedOut(r)
  <2>1. /\ state[r] = "asked" /\ refs[r] = 1
        /\ UNCHANGED <<method, id>>
        /\ ReplyError(r) /\ timed' = timed \ {r}
    BY <1>6 DEF AppInfoTimedOut, TimedOutCall, AnsweredOnce
  <2>2. refs' = [refs EXCEPT ![r] = 0]
    BY <1>6, <2>1, SMT DEF AppInfoTimedOut, TimedOutCall, Unref, TypeOK
  <2>3. method' \in [Request -> Method] /\ id' \in [Request -> AppId]
    BY <2>1 DEF TypeOK
  <2>4. QED
    BY <2>1, <2>2, <2>3, AnswerSettles, ReplyErrorKeepsTruth
<1>7. CASE Leave(r)
  <2>1. TypeOK' /\ AnsweredOnce'
    BY <1>7, SMT DEF Leave, TypeOK, AnsweredOnce, Nothing, engineVars, Engine!TypeOK
  <2>2. HeardOnlyAsked' /\ HearsTheTruth'
    BY <1>7, SMT DEF Leave, TypeOK, HeardOnlyAsked, HearsTheTruth, Nothing, engineVars
  <2>3. QED
    BY <2>1, <2>2
<1>8. QED
  BY <1>1, <1>2, <1>3, <1>4, <1>5, <1>6, <1>7

\* What is posted reaches exactly the clients that may have heard of the id.
LEMMA PostTells ==
    ASSUME IInv, NEW a \in AppId, NEW p \in {"active", "ended"}, Post(a, p),
           UNCHANGED <<requestVars, subscribed>>
    PROVE  /\ heard' \in [Request -> [AppId -> {"nothing", "active", "ended"}]]
           /\ HeardOnlyAsked'
           /\ \A r \in subscribed : heard'[r][a] # "nothing" => heard'[r][a] = p
           /\ \A r \in Request, b \in AppId \ {a} : heard'[r][b] = heard[r][b]
<1>1. heard' \in [Request -> [AppId -> {"nothing", "active", "ended"}]]
  BY SMT DEF IInv, TypeOK, Post, Listeners
<1>2. \A r \in Listeners(a) : state[r] = "accepted" /\ (method[r] = "status" \/ id[r] = a)
  BY SMT DEF IInv, TypeOK, AnsweredOnce, Listeners
<1>3. \A r \in Request, b \in AppId :
        heard'[r][b] = IF r \in Listeners(a) /\ b = a THEN p ELSE heard[r][b]
  <2> SUFFICES ASSUME NEW r \in Request, NEW b \in AppId
               PROVE  heard'[r][b] = IF r \in Listeners(a) /\ b = a THEN p ELSE heard[r][b]
    OBVIOUS
  <2>1. heard[r] \in [AppId -> {"nothing", "active", "ended"}]
    BY DEF IInv, TypeOK
  <2>2. CASE r \in Listeners(a)
    <3>1. heard'[r] = [heard[r] EXCEPT ![a] = p]
      BY <2>2 DEF Post
    <3>2. QED
      BY <2>1, <2>2, <3>1
  <2>3. CASE r \notin Listeners(a)
    BY <2>3 DEF Post
  <2>4. QED
    BY <2>2, <2>3
<1>4. \A r \in Request \ Listeners(a) : heard'[r] = heard[r]
  BY DEF Post
<1>5. HeardOnlyAsked'
  <2> SUFFICES ASSUME NEW r \in Request
               PROVE  /\ state[r] # "accepted" => heard'[r] = Nothing
                      /\ method[r] # "status" =>
                            \A b \in AppId \ {id[r]} : heard'[r][b] = "nothing"
    BY DEF HeardOnlyAsked, requestVars, Nothing
  <2>1. state[r] # "accepted" => heard'[r] = Nothing
    BY <1>2, <1>4 DEF IInv, HeardOnlyAsked
  <2>2. ASSUME method[r] # "status", NEW b \in AppId \ {id[r]}
        PROVE  heard'[r][b] = "nothing"
    BY <2>2, <1>2, <1>3 DEF IInv, HeardOnlyAsked
  <2>3. QED
    BY <2>1, <2>2
<1>6. \A r \in subscribed : heard'[r][a] # "nothing" => heard'[r][a] = p
  <2>1. \A r \in subscribed \ Listeners(a) : r \in Request /\ heard[r][a] = "nothing"
    BY DEF IInv, TypeOK, HeardOnlyAsked, Listeners
  <2>2. Listeners(a) \subseteq Request
    BY DEF IInv, TypeOK, Listeners
  <2>3. QED
    BY <1>3, <2>1, <2>2
<1>7. \A r \in Request, b \in AppId \ {a} : heard'[r][b] = heard[r][b]
  BY <1>3
<1>8. QED
  BY <1>1, <1>5, <1>6, <1>7

\* Every step of AppInstaller keeps the invariant.
LEMMA EngineKeepsIInv ==
    ASSUME IInv, NEW a \in AppId, StatusChanged(a) \/ CommandEnds(a) \/ EngineStep(a)
    PROVE  IInv'
<1> USE DEF IInv
<1>1. CASE StatusChanged(a)
  <2>1. /\ phase[a] = "active" /\ Post(a, "active")
        /\ UNCHANGED <<engineVars, requestVars, subscribed>>
    BY <1>1 DEF StatusChanged
  <2>2. TypeOK' /\ AnsweredOnce'
    BY <2>1, PostTells, SMT DEF TypeOK, AnsweredOnce, engineVars, requestVars, Engine!TypeOK
  <2>3. /\ HeardOnlyAsked'
        /\ \A r \in Request, b \in AppId \ {a} : heard'[r][b] = heard[r][b]
    BY <2>1, PostTells
  <2>4. HearsTheTruth'
    BY <2>1, <2>3 DEF TypeOK, HearsTheTruth, engineVars
  <2>5. QED
    BY <2>2, <2>3, <2>4
<1>2. CASE CommandEnds(a)
  <2>1. /\ phase' = [phase EXCEPT ![a] = "ended"]
        /\ owed' \in {owed, owed \cup {a}}
        /\ Post(a, "ended")
        /\ UNCHANGED <<requestVars, subscribed>>
    BY <1>2 DEF CommandEnds, Engine!End
  <2>2. TypeOK' /\ AnsweredOnce'
    BY <2>1, PostTells, SMT DEF TypeOK, AnsweredOnce, requestVars, Engine!TypeOK
  <2>3. /\ HeardOnlyAsked'
        /\ \A r \in subscribed : heard'[r][a] # "nothing" => heard'[r][a] = "ended"
        /\ \A r \in Request, b \in AppId \ {a} : heard'[r][b] = heard[r][b]
    BY <2>1, PostTells
  <2>4. HearsTheTruth'
    <3> SUFFICES ASSUME NEW r \in subscribed, NEW b \in AppId, heard'[r][b] = "active"
                 PROVE  phase'[b] = "active"
      BY <2>1 DEF HearsTheTruth
    <3>1. b # a /\ r \in Request
      BY <2>3 DEF TypeOK
    <3>2. phase'[b] = phase[b] /\ heard[r][b] = "active"
      BY <3>1, <2>1, <2>3 DEF TypeOK, Engine!TypeOK
    <3>3. QED
      BY <3>2 DEF HearsTheTruth
  <2>5. QED
    BY <2>2, <2>3, <2>4
<1>3. CASE EngineStep(a)
  <2>1. /\ \/ phase[a] = "ended" /\ phase' = [phase EXCEPT ![a] = "idle"] /\ owed' = owed
           \/ phase[a] = "idle" /\ phase' = [phase EXCEPT ![a] = "active"] /\ owed' = owed \ {a}
        /\ UNCHANGED <<requestVars, subscribed, heard>>
    BY <1>3 DEF EngineStep, Engine!Release, Engine!Undo
  <2>2. TypeOK' /\ AnsweredOnce' /\ HeardOnlyAsked'
    BY <2>1, SMT DEF TypeOK, AnsweredOnce, HeardOnlyAsked, Nothing, requestVars, Engine!TypeOK
  <2>3. HearsTheTruth'
    BY <2>1, SMT DEF TypeOK, HearsTheTruth, Engine!TypeOK
  <2>4. QED
    BY <2>2, <2>3
<1>4. QED
  BY <1>1, <1>2, <1>3

LEMMA CrashKeepsIInv == ASSUME IInv, Crash PROVE IInv'
BY SMT DEF IInv, TypeOK, AnsweredOnce, HeardOnlyAsked, HearsTheTruth, Nothing, Crash,
       Engine!Forget, Engine!TypeOK

LEMMA StepKeepsIInv == ASSUME IInv, [Next]_vars PROVE IInv'
<1>1. CASE UNCHANGED vars
  BY <1>1, SMT DEF vars, engineVars, requestVars, IInv, TypeOK, AnsweredOnce, HeardOnlyAsked,
     HearsTheTruth, Nothing, Engine!TypeOK
<1>2. QED
  BY <1>1, RequestKeepsIInv, EngineKeepsIInv, CrashKeepsIInv DEF Next

LEMMA InvariantHolds == Spec => []IInv
<1>1. Init => IInv
  BY InitEstablishes
<1>2. IInv /\ [Next]_vars => IInv'
  BY StepKeepsIInv
<1>3. QED
  BY <1>1, <1>2, PTL DEF Spec

LEMMA TypeCorrect == Spec => []TypeOK
<1>1. IInv => TypeOK
  BY DEF IInv
<1>2. QED
  BY <1>1, InvariantHolds, PTL

(***************************************************************************)
(* A request that is settled was answered exactly once, and its message is *)
(* held exactly as long as it is not, whatever answers, times out or ends  *)
(* in between.                                                             *)
(***************************************************************************)
THEOREM AnswersAreRight == Spec => []AnsweredOnce
<1>1. IInv => AnsweredOnce
  BY DEF IInv
<1>2. QED
  BY <1>1, InvariantHolds, PTL

(***************************************************************************)
(* What a subscribed client was told last of a running command is true.    *)
(***************************************************************************)
THEOREM ClientsHearTheTruth == Spec => []HearsTheTruth
<1>1. IInv => HearsTheTruth
  BY DEF IInv
<1>2. QED
  BY <1>1, InvariantHolds, PTL

---------------------------------------------------------------------------
(* The service uses AppInstaller as it may be used.                        *)

\* A request leaves the commands alone or starts one for an idle id.
LEMMA RequestIsAccept ==
    ASSUME TypeOK, NEW r \in Request,
           \/ Install(r) \/ Remove(r) \/ RemoveNotSent(r) \/ Status(r)
           \/ AppInfoReplied(r) \/ AppInfoTimedOut(r) \/ Leave(r)
    PROVE  Engine!Next \/ UNCHANGED Engine!vars
<1>1. ASSUME NEW a \in AppId, ~Engine!Undoing, Command(r, a)
      PROVE  Engine!Next \/ UNCHANGED Engine!vars
  BY <1>1 DEF Command, ReplyError, Known, engineVars, TypeOK, Engine!TypeOK,
     Engine!Accept, Engine!Next, Engine!vars
<1>2. ReplyError(r) => UNCHANGED Engine!vars
  BY DEF ReplyError, engineVars, Engine!vars
<1>3. CASE Install(r)
  <2>1. id'[r] \in AppId /\ ~Engine!Undoing /\ (ReplyError(r) \/ Command(r, id'[r]))
    BY <1>3 DEF Install, Received, TypeOK
  <2>2. QED
    BY <2>1, <1>1, <1>2
<1>4. CASE AppInfoReplied(r)
  <2>1. id[r] \in AppId /\ ~Engine!Undoing /\ (ReplyError(r) \/ Command(r, id[r]))
    BY <1>4 DEF AppInfoReplied, TypeOK
  <2>2. QED
    BY <2>1, <1>1, <1>2
<1>5. CASE Remove(r) \/ RemoveNotSent(r) \/ Status(r) \/ AppInfoTimedOut(r) \/ Leave(r)
  BY <1>5, <1>2 DEF Remove, RemoveNotSent, Status, AppInfoTimedOut, TimedOutCall, Leave,
     engineVars, Engine!vars
<1>6. QED
  BY <1>3, <1>4, <1>5

(***************************************************************************)
(* The service composed with AppInstaller is an instance of                *)
(* CommandRegistry: a remove accepted late, when applicationManager has    *)
(* answered, never replaces a command nor comes before a due rollback.     *)
(***************************************************************************)
THEOREM ServiceImplementsRegistry == Spec => ImplementsRegistry
<1>1. Init => Engine!Init
  BY DEF Init
<1>2. TypeOK /\ [Next]_vars => [Engine!Next]_Engine!vars
  <2> SUFFICES ASSUME TypeOK, [Next]_vars PROVE Engine!Next \/ UNCHANGED Engine!vars
    OBVIOUS
  <2>1. CASE UNCHANGED vars
    BY <2>1 DEF vars, engineVars, Engine!vars
  <2>2. ASSUME NEW a \in AppId, StatusChanged(a) \/ CommandEnds(a) \/ EngineStep(a)
        PROVE  Engine!Next \/ UNCHANGED Engine!vars
    BY <2>2 DEF StatusChanged, CommandEnds, EngineStep, engineVars, Engine!vars, Engine!Next
  <2>3. CASE Crash
    BY <2>3 DEF Crash, Engine!Next
  <2>4. QED
    BY <2>1, <2>2, <2>3, RequestIsAccept DEF Next
<1>3. Spec => []TypeOK
  BY TypeCorrect, PTL
<1>4. QED
  BY <1>1, <1>2, <1>3, PTL DEF Spec, ImplementsRegistry, Engine!Spec

---------------------------------------------------------------------------
(* Commands and accepted requests.                                         *)

Matched == \A a \in AppId : IF Started(a) THEN \E r \in Request : AcceptedNow(a) = {r}
                            ELSE AcceptedNow(a) = {}

\* Nothing is accepted but the state of commands, and no command of a client starts.
LEMMA NothingAccepted ==
    ASSUME \A r \in Request : state[r] # "accepted" /\ state'[r] = "accepted" => method'[r] = "status",
           \A a \in AppId : phase[a] = "idle" /\ phase'[a] = "active" => a \in owed
    PROVE  Matched
BY DEF Matched, Started, AcceptedNow

\* A command is started for the request that is accepted with it, and for no other.
LEMMA CommandMatched ==
    ASSUME TypeOK, NEW r \in Request, ~Engine!Undoing, state[r] \in {"free", "asked"},
           method'[r] # "status", id' \in [Request -> AppId],
           ReplyError(r) \/ Command(r, id'[r])
    PROVE  Matched
<1>1. CASE ReplyError(r)
  BY <1>1, NothingAccepted DEF ReplyError, Respond, TypeOK, engineVars
<1>2. CASE ~Known(id'[r]) /\ Command(r, id'[r])
  <2> DEFINE a == id'[r]
  <2>1. /\ a \in AppId /\ phase[a] = "idle" /\ a \notin owed
        /\ phase' = [phase EXCEPT ![a] = "active"]
        /\ state' = [state EXCEPT ![r] = "accepted"]
    BY <1>2 DEF Command, Known, Respond, Engine!Undoing
  <2>2. Started(a) /\ \A b \in AppId \ {a} : ~Started(b)
    BY <2>1 DEF Started, TypeOK, Engine!TypeOK
  <2>3. AcceptedNow(a) = {r} /\ \A b \in AppId \ {a} : AcceptedNow(b) = {}
    BY <2>1 DEF AcceptedNow, TypeOK
  <2>4. QED
    BY <2>2, <2>3 DEF Matched
<1>3. QED
  BY <1>1, <1>2 DEF Command

\* Only a remove waits for applicationManager.
OnlyRemovesAsk == \A r \in Request : state[r] = "asked" => method[r] = "remove"

LEMMA StepKeepsOnlyRemovesAsk ==
    ASSUME TypeOK, OnlyRemovesAsk, [Next]_vars
    PROVE  OnlyRemovesAsk'
<1>1. ASSUME NEW r \in Request,
             \/ Install(r) \/ Remove(r) \/ RemoveNotSent(r) \/ Status(r)
             \/ AppInfoReplied(r) \/ AppInfoTimedOut(r) \/ Leave(r)
      PROVE  OnlyRemovesAsk'
  <2>1. /\ \A q \in Request \ {r} : state'[q] = state[q] /\ method'[q] = method[q]
        /\ state'[r] = "asked" => Remove(r)
        /\ Remove(r) => method'[r] = "remove"
    BY <1>1 DEF Install, Remove, RemoveNotSent, Status, AppInfoReplied, AppInfoTimedOut,
       TimedOutCall, Leave, Command, ReplyError, Respond, Received, TypeOK
  <2>2. QED
    BY <2>1 DEF OnlyRemovesAsk
<1>2. ASSUME NEW a \in AppId, StatusChanged(a) \/ CommandEnds(a) \/ EngineStep(a)
      PROVE  OnlyRemovesAsk'
  BY <1>2 DEF StatusChanged, CommandEnds, EngineStep, requestVars, OnlyRemovesAsk
<1>3. CASE Crash
  BY <1>3 DEF Crash, OnlyRemovesAsk
<1>4. CASE UNCHANGED vars
  BY <1>4 DEF vars, requestVars, OnlyRemovesAsk
<1>5. QED
  BY <1>1, <1>2, <1>3, <1>4 DEF Next

LEMMA StepsMatch ==
    ASSUME TypeOK, OnlyRemovesAsk, Next
    PROVE  Matched
<1>1. ASSUME NEW r \in Request, Install(r) PROVE Matched
  <2>1. /\ ~Engine!Undoing /\ state[r] = "free" /\ method'[r] # "status"
        /\ id' \in [Request -> AppId]
        /\ ReplyError(r) \/ Command(r, id'[r])
    BY <1>1 DEF Install, Received, TypeOK
  <2>2. QED
    BY <2>1, CommandMatched
<1>2. ASSUME NEW r \in Request, AppInfoReplied(r) PROVE Matched
  <2>1. /\ ~Engine!Undoing /\ state[r] = "asked" /\ method'[r] # "status"
        /\ id' \in [Request -> AppId]
        /\ ReplyError(r) \/ Command(r, id'[r])
    BY <1>2 DEF AppInfoReplied, TypeOK, OnlyRemovesAsk
  <2>2. QED
    BY <2>1, CommandMatched
<1>3. ASSUME NEW r \in Request,
             Remove(r) \/ RemoveNotSent(r) \/ AppInfoTimedOut(r) \/ Leave(r)
      PROVE  Matched
  BY <1>3, NothingAccepted
  DEF Remove, RemoveNotSent, AppInfoTimedOut, TimedOutCall, Leave, ReplyError, Respond,
      TypeOK, engineVars
<1>4. ASSUME NEW r \in Request, Status(r) PROVE Matched
  BY <1>4, NothingAccepted DEF Status, Received, ReplyError, Respond, TypeOK, engineVars
<1>5. ASSUME NEW a \in AppId, StatusChanged(a) \/ CommandEnds(a) \/ EngineStep(a) PROVE Matched
  BY <1>5, NothingAccepted
  DEF StatusChanged, CommandEnds, EngineStep, Engine!End, Engine!Release, Engine!Undo,
      Engine!TypeOK, TypeOK, engineVars, requestVars
<1>6. CASE Crash
  BY <1>6, NothingAccepted DEF Crash, Engine!Forget
<1>7. QED
  BY <1>1, <1>2, <1>3, <1>4, <1>5, <1>6 DEF Next

(***************************************************************************)
(* A client's command starts exactly when one request is accepted.         *)
(***************************************************************************)
THEOREM CommandsMatchAcceptances == Spec => CommandPerAcceptance
<1>1. Init => OnlyRemovesAsk
  BY DEF Init, OnlyRemovesAsk
<1>2. Spec => []TypeOK
  BY TypeCorrect, PTL
<1>3. TypeOK /\ OnlyRemovesAsk /\ [Next]_vars => OnlyRemovesAsk'
  BY StepKeepsOnlyRemovesAsk
<1>4. TypeOK /\ OnlyRemovesAsk /\ [Next]_vars =>
        [\A a \in AppId :
            IF Started(a) THEN \E r \in Request : AcceptedNow(a) = {r}
            ELSE AcceptedNow(a) = {}]_vars
  BY StepsMatch DEF Matched
<1>5. QED
  BY <1>1, <1>2, <1>3, <1>4, PTL DEF Spec, CommandPerAcceptance

=============================================================================
