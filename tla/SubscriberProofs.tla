-------------------------- MODULE SubscriberProofs --------------------------
(***************************************************************************)
(* Proofs about Subscriber, for any number of messages.                    *)
(*                                                                         *)
(* The session goes through its stages once: before the connection is      *)
(* asked for, connecting, connected, subscribed, lost.  No stage comes     *)
(* back, and each callback belongs to one of them; that is the invariant.  *)
(***************************************************************************)
EXTENDS Subscriber, TLAPS

\* Nothing has happened before the task asks for a connection.
NotStarted ==
  task = "start" =>
    /\ link = "none" /\ subscription = "none" /\ cb = "none"
    /\ ~subscribed /\ ~finished /\ ~lost

\* While the connection is sought, and until onConnect has run, there is no
\* subscription and no verdict.
Connecting ==
  link = "connecting" \/ cb = "onConnect" =>
    /\ subscription = "none" /\ waiting = 0
    /\ ~subscribed /\ ~finished /\ ~lost
    /\ link = "connecting" => cb = "none"

\* A connection that was refused, or a subscription that failed, leaves
\* nothing behind.
Failing ==
  /\ cb = "onConnectFailure" => link = "none" /\ ~lost
  /\ cb \in {"onConnectFailure", "onSubscribeFailure"} =>
       subscription = "none" /\ ~subscribed

\* A subscription that is asked for has not been answered; one that is held is
\* held on a connection that is up.
Subscribing ==
  /\ subscription = "asked" => ~subscribed /\ cb # "onSubscribe" /\ (finished => lost)
  /\ subscription = "held" => link = "up" /\ (subscribed \/ cb = "onSubscribe")
  /\ cb = "onSubscribe" => ~finished /\ ~lost /\ link \in {"up", "broken"}
  /\ waiting > 0 => subscription = "held"
  /\ cb = "msgarrvd" => subscribed
  /\ waiting <= published

\* A subscribed session ends only by the loss of its connection.
Ending ==
  /\ subscribed /\ finished => lost
  /\ subscribed /\ cb \notin {"connlost"} /\ ~lost => link \in {"up", "broken"}
  /\ cb = "connlost" => link = "none" /\ subscription # "held" /\ (running => ~lost)
  /\ task \notin {"start", "poll"} => subscribed
  /\ task \in {"destroy", "gone"} => finished
  /\ client = "destroyed" => task = "gone"

IInv ==
  /\ TypeOK /\ ServiceEndsWithLoss /\ DestroyedAfterLoss /\ FailureUnnoticed
  /\ NotStarted /\ Connecting /\ Failing /\ Subscribing /\ Ending

USE SubscriberAssumption DEF flags, session, messages, Callbacks, Places

-----------------------------------------------------------------------------
(***************************************************************************)
(* The invariant is inductive: one lemma for each action.                  *)
(***************************************************************************)

LEMMA InitInv == Init => IInv
<1> SUFFICES ASSUME Init PROVE IInv
  OBVIOUS
<1> USE DEF Init
<1>1. TypeOK
  <2>1. /\ running \in BOOLEAN /\ subscribed \in BOOLEAN /\ finished \in BOOLEAN
        /\ lost \in BOOLEAN
    BY Zenon
  <2>2. published \in 0 .. MaxMessages /\ waiting \in 0 .. MaxMessages
    OBVIOUS
  <2>3. QED BY <2>1, <2>2 DEF TypeOK
<1>2. ServiceEndsWithLoss /\ DestroyedAfterLoss /\ FailureUnnoticed
  BY DEF ServiceEndsWithLoss, DestroyedAfterLoss, FailureUnnoticed
<1>3. NotStarted /\ Connecting /\ Failing /\ Subscribing /\ Ending
  BY DEF NotStarted, Connecting, Failing, Subscribing, Ending
<1>4. QED BY <1>1, <1>2, <1>3 DEF IInv

\* create_mqtt_task.

LEMMA StartConnectStep ==
  ASSUME IInv, StartConnect
  PROVE  IInv'
<1> USE DEF IInv, StartConnect, TypeOK
<1>1. TypeOK'
  OBVIOUS
<1>2. ServiceEndsWithLoss'
  BY DEF ServiceEndsWithLoss, NotStarted
<1>3. DestroyedAfterLoss' /\ FailureUnnoticed'
  BY DEF DestroyedAfterLoss, FailureUnnoticed
<1>4. Connecting'
  BY DEF NotStarted, Connecting, Subscribing
<1>5. Failing'
  BY DEF NotStarted, Failing
<1>6. Subscribing'
  BY DEF NotStarted, Subscribing
<1>7. Ending'
  BY DEF NotStarted, Ending
<1>8. NotStarted'
  BY DEF NotStarted
<1>9. QED BY <1>1, <1>2, <1>3, <1>4, <1>5, <1>6, <1>7, <1>8

LEMMA StartConnectFailsStep ==
  ASSUME IInv, StartConnectFails
  PROVE  IInv'
<1> USE DEF IInv, StartConnectFails, TypeOK
<1>1. TypeOK'
  <2>1. running' \in BOOLEAN
    OBVIOUS
  <2>2. QED BY <2>1
<1>2. ServiceEndsWithLoss' /\ DestroyedAfterLoss' /\ FailureUnnoticed'
  BY DEF ServiceEndsWithLoss, DestroyedAfterLoss, FailureUnnoticed
<1>3. NotStarted' /\ Connecting' /\ Failing' /\ Subscribing' /\ Ending'
  BY DEF NotStarted, Connecting, Failing, Subscribing, Ending
<1>4. QED BY <1>1, <1>2, <1>3

LEMMA PollEndsStep ==
  ASSUME IInv, PollEnds
  PROVE  IInv'
<1> USE DEF IInv, PollEnds, TypeOK
<1>1. TypeOK'
  OBVIOUS
<1>2. ServiceEndsWithLoss' /\ DestroyedAfterLoss' /\ FailureUnnoticed'
  BY DEF ServiceEndsWithLoss, DestroyedAfterLoss, FailureUnnoticed
<1>3. NotStarted' /\ Connecting' /\ Failing' /\ Subscribing' /\ Ending'
  BY DEF NotStarted, Connecting, Failing, Subscribing, Ending
<1>4. QED BY <1>1, <1>2, <1>3

LEMMA CheckStep ==
  ASSUME IInv, Check
  PROVE  IInv'
<1> USE DEF IInv, Check, TypeOK
<1>1. TypeOK'
  OBVIOUS
<1>2. DestroyedAfterLoss'
  BY DEF ServiceEndsWithLoss, DestroyedAfterLoss, Connecting,
         Failing, Subscribing, Ending
<1>3. ServiceEndsWithLoss' /\ FailureUnnoticed'
  BY DEF ServiceEndsWithLoss, FailureUnnoticed
<1>4. NotStarted' /\ Connecting' /\ Failing' /\ Subscribing' /\ Ending'
  BY DEF NotStarted, Connecting, Failing, Subscribing, Ending
<1>5. QED BY <1>1, <1>2, <1>3, <1>4

LEMMA DestroyStep ==
  ASSUME IInv, Destroy
  PROVE  IInv'
<1> USE DEF IInv, Destroy, TypeOK
<1>1. TypeOK'
  OBVIOUS
<1>2. ServiceEndsWithLoss' /\ DestroyedAfterLoss' /\ FailureUnnoticed'
  BY DEF ServiceEndsWithLoss, DestroyedAfterLoss, FailureUnnoticed
<1>3. NotStarted' /\ Connecting' /\ Failing' /\ Subscribing' /\ Ending'
  BY DEF NotStarted, Connecting, Failing, Subscribing, Ending
<1>4. QED BY <1>1, <1>2, <1>3

\* The callbacks.

LEMMA OnConnectStep ==
  ASSUME IInv, OnConnect
  PROVE  IInv'
<1> USE DEF IInv, OnConnect, TypeOK
<1>1. TypeOK'
  <2>1. running' \in BOOLEAN
    OBVIOUS
  <2>2. cb' \in Places /\ subscription' \in {"none", "asked", "held"}
    OBVIOUS
  <2>3. QED BY <2>1, <2>2
<1>2. ServiceEndsWithLoss' /\ DestroyedAfterLoss' /\ FailureUnnoticed'
  BY DEF ServiceEndsWithLoss, DestroyedAfterLoss, FailureUnnoticed
<1>3. Subscribing'
  BY DEF Connecting, Subscribing
<1>4. NotStarted' /\ Connecting' /\ Failing' /\ Ending'
  BY DEF NotStarted, Connecting, Failing, Ending
<1>5. QED BY <1>1, <1>2, <1>3, <1>4

LEMMA OnFailureStep ==
  ASSUME IInv, OnFailure
  PROVE  IInv'
<1> USE DEF IInv, OnFailure, TypeOK
<1>1. TypeOK'
  OBVIOUS
<1>2. FailureUnnoticed'
  BY DEF FailureUnnoticed, NotStarted, Failing, Ending
<1>3. ServiceEndsWithLoss' /\ DestroyedAfterLoss'
  BY DEF ServiceEndsWithLoss, DestroyedAfterLoss
<1>4. Subscribing'
  BY DEF Failing, Subscribing
<1>5. Ending'
  BY DEF Failing, Ending
<1>6. NotStarted' /\ Connecting' /\ Failing'
  BY DEF NotStarted, Connecting, Failing
<1>7. QED BY <1>1, <1>2, <1>3, <1>4, <1>5, <1>6

LEMMA OnSubscribeStep ==
  ASSUME IInv, OnSubscribe
  PROVE  IInv'
<1> USE DEF IInv, OnSubscribe, TypeOK
<1>1. TypeOK'
  OBVIOUS
<1>2. FailureUnnoticed'
  BY DEF FailureUnnoticed, Subscribing
<1>3. ServiceEndsWithLoss' /\ DestroyedAfterLoss'
  BY DEF ServiceEndsWithLoss, DestroyedAfterLoss
<1>4. Ending'
  BY DEF Subscribing, Ending
<1>5. NotStarted' /\ Connecting' /\ Failing' /\ Subscribing'
  BY DEF NotStarted, Connecting, Failing, Subscribing
<1>6. QED BY <1>1, <1>2, <1>3, <1>4, <1>5

LEMMA ConnLostStep ==
  ASSUME IInv, ConnLost
  PROVE  IInv'
<1> USE DEF IInv, ConnLost, TypeOK
<1>1. TypeOK'
  OBVIOUS
<1>2. ServiceEndsWithLoss'
  BY DEF ServiceEndsWithLoss, Ending
<1>3. DestroyedAfterLoss' /\ FailureUnnoticed'
  BY DEF DestroyedAfterLoss, FailureUnnoticed
<1>4. NotStarted' /\ Connecting' /\ Failing' /\ Subscribing' /\ Ending'
  BY DEF NotStarted, Connecting, Failing, Subscribing, Ending
<1>5. QED BY <1>1, <1>2, <1>3, <1>4

LEMMA CallbackReturnsStep ==
  ASSUME IInv, CallbackReturns
  PROVE  IInv'
<1> USE DEF IInv, CallbackReturns, TypeOK
<1>1. TypeOK'
  OBVIOUS
<1>2. ServiceEndsWithLoss' /\ DestroyedAfterLoss' /\ FailureUnnoticed'
  BY DEF ServiceEndsWithLoss, DestroyedAfterLoss, FailureUnnoticed
<1>3. NotStarted' /\ Connecting' /\ Failing' /\ Subscribing' /\ Ending'
  BY DEF NotStarted, Connecting, Failing, Subscribing, Ending
<1>4. QED BY <1>1, <1>2, <1>3

LEMMA MsgArrvdStep ==
  ASSUME IInv, MsgArrvd
  PROVE  IInv'
<1> USE DEF IInv, MsgArrvd, TypeOK
<1>1. TypeOK'
  <2>1. running' \in BOOLEAN
    OBVIOUS
  <2>2. cb' \in Places
    OBVIOUS
  <2>3. QED BY <2>1, <2>2
<1>2. ServiceEndsWithLoss' /\ DestroyedAfterLoss' /\ FailureUnnoticed'
  BY DEF ServiceEndsWithLoss, DestroyedAfterLoss, FailureUnnoticed
<1>3. NotStarted' /\ Connecting' /\ Failing' /\ Subscribing' /\ Ending'
  BY DEF NotStarted, Connecting, Failing, Subscribing, Ending
<1>4. QED BY <1>1, <1>2, <1>3

\* The library and the broker.

LEMMA ConnectAnsweredStep ==
  ASSUME IInv, ConnectAnswered
  PROVE  IInv'
<1> USE DEF IInv, ConnectAnswered, Calls, TypeOK
<1>1. TypeOK'
  OBVIOUS
<1>2. ServiceEndsWithLoss' /\ DestroyedAfterLoss' /\ FailureUnnoticed'
  BY DEF ServiceEndsWithLoss, DestroyedAfterLoss, FailureUnnoticed
<1>3. Failing'
  BY DEF Connecting, Failing
<1>4. NotStarted' /\ Connecting' /\ Subscribing' /\ Ending'
  BY DEF NotStarted, Connecting, Subscribing, Ending
<1>5. QED BY <1>1, <1>2, <1>3, <1>4

LEMMA SubscribeAnsweredStep ==
  ASSUME IInv, SubscribeAnswered
  PROVE  IInv'
<1> USE DEF IInv, SubscribeAnswered, Calls, TypeOK
<1>1. TypeOK'
  OBVIOUS
<1>2. DestroyedAfterLoss'
  BY DEF DestroyedAfterLoss, Subscribing, Ending
<1>3. ServiceEndsWithLoss' /\ FailureUnnoticed'
  BY DEF ServiceEndsWithLoss, FailureUnnoticed
<1>4. Failing'
  BY DEF Failing, Subscribing
<1>5. Subscribing'
  BY DEF ServiceEndsWithLoss, Subscribing
<1>6. NotStarted' /\ Connecting' /\ Ending'
  BY DEF NotStarted, Connecting, Ending
<1>7. QED BY <1>1, <1>2, <1>3, <1>4, <1>5, <1>6

LEMMA MessageArrivesStep ==
  ASSUME IInv, MessageArrives
  PROVE  IInv'
<1> USE DEF IInv, MessageArrives, Calls, TypeOK
<1>1. TypeOK'
  OBVIOUS
<1>2. FailureUnnoticed'
  BY DEF FailureUnnoticed, Subscribing
<1>3. ServiceEndsWithLoss' /\ DestroyedAfterLoss'
  BY DEF ServiceEndsWithLoss, DestroyedAfterLoss
<1>4. NotStarted' /\ Connecting' /\ Failing' /\ Subscribing' /\ Ending'
  BY DEF NotStarted, Connecting, Failing, Subscribing, Ending
<1>5. QED BY <1>1, <1>2, <1>3, <1>4

LEMMA LinkBreaksStep ==
  ASSUME IInv, LinkBreaks
  PROVE  IInv'
<1> USE DEF IInv, LinkBreaks, TypeOK
<1>1. TypeOK'
  OBVIOUS
<1>2. ServiceEndsWithLoss' /\ DestroyedAfterLoss' /\ FailureUnnoticed'
  BY DEF ServiceEndsWithLoss, DestroyedAfterLoss, FailureUnnoticed
<1>3. NotStarted' /\ Connecting' /\ Failing' /\ Subscribing' /\ Ending'
  BY DEF NotStarted, Connecting, Failing, Subscribing, Ending
<1>4. QED BY <1>1, <1>2, <1>3

LEMMA LossNoticedStep ==
  ASSUME IInv, LossNoticed
  PROVE  IInv'
<1> USE DEF IInv, LossNoticed, Calls, TypeOK
<1>1. TypeOK'
  OBVIOUS
<1>2. ServiceEndsWithLoss' /\ DestroyedAfterLoss' /\ FailureUnnoticed'
  BY DEF ServiceEndsWithLoss, DestroyedAfterLoss, FailureUnnoticed
<1>3. Ending'
  BY DEF ServiceEndsWithLoss, Subscribing, Ending
<1>4. NotStarted' /\ Connecting' /\ Failing' /\ Subscribing'
  BY DEF NotStarted, Connecting, Failing, Subscribing
<1>5. QED BY <1>1, <1>2, <1>3, <1>4

LEMMA RequestPublishedStep ==
  ASSUME IInv, RequestPublished
  PROVE  IInv'
<1> USE DEF IInv, RequestPublished, TypeOK
<1>1. TypeOK'
  BY DEF Subscribing
<1>2. ServiceEndsWithLoss' /\ DestroyedAfterLoss' /\ FailureUnnoticed'
  BY DEF ServiceEndsWithLoss, DestroyedAfterLoss, FailureUnnoticed
<1>3. NotStarted' /\ Connecting' /\ Failing' /\ Subscribing' /\ Ending'
  BY DEF NotStarted, Connecting, Failing, Subscribing, Ending
<1>4. QED BY <1>1, <1>2, <1>3

LEMMA ProcessEndsStep ==
  ASSUME IInv, ProcessEnds
  PROVE  IInv'
<1> USE DEF IInv, ProcessEnds, TypeOK
<1>1. TypeOK'
  <2>1. running' \in BOOLEAN
    OBVIOUS
  <2>2. QED BY <2>1
<1>2. ServiceEndsWithLoss' /\ DestroyedAfterLoss' /\ FailureUnnoticed'
  BY DEF ServiceEndsWithLoss, DestroyedAfterLoss, FailureUnnoticed
<1>3. NotStarted' /\ Connecting' /\ Failing' /\ Subscribing' /\ Ending'
  BY DEF NotStarted, Connecting, Failing, Subscribing, Ending
<1>4. QED BY <1>1, <1>2, <1>3

-----------------------------------------------------------------------------
(***************************************************************************)
(* The theorems.                                                           *)
(***************************************************************************)

LEMMA InvariantKept ==
  ASSUME IInv, [Next]_vars
  PROVE  IInv'
<1>1. CASE Next
  BY <1>1, StartConnectStep, StartConnectFailsStep, PollEndsStep, CheckStep,
     DestroyStep, OnConnectStep, OnFailureStep, OnSubscribeStep,
     ConnLostStep, CallbackReturnsStep, MsgArrvdStep, ConnectAnsweredStep, SubscribeAnsweredStep,
     MessageArrivesStep, LinkBreaksStep, LossNoticedStep, RequestPublishedStep,
     ProcessEndsStep
  DEF Next, Task, Callback, Library
<1>2. CASE UNCHANGED vars
  BY <1>2 DEF vars, IInv, TypeOK, ServiceEndsWithLoss, DestroyedAfterLoss,
     FailureUnnoticed, NotStarted, Connecting, Failing, Subscribing, Ending
<1>3. QED BY <1>1, <1>2

\* The session is always in one of its stages, whatever the task, the library
\* and the broker do, and in whatever order.
THEOREM Invariance == Spec => []IInv
BY InitInv, InvariantKept, PTL DEF Spec

\* The variables of the session have their types, for any number of requests.
THEOREM TypeCorrect == Spec => []TypeOK
<1>1. IInv => TypeOK
  BY DEF IInv
<1>2. QED BY Invariance, <1>1, PTL

\* Once connlost has run, no request reaches the gateway (connlost, onSubscribe
\* and msgarrvd of mqtt_sub.c).
THEOREM LossIsFinal == Spec => []ServiceEndsWithLoss
<1>1. IInv => ServiceEndsWithLoss
  BY DEF IInv
<1>2. QED BY Invariance, <1>1, PTL

\* The task destroys the client of a lost connection only, and under no callback
\* but one that has set its flag and returns (MQTTAsync_destroy at mqtt_sub.c:145
\* against the library's thread, finished read at 126 and set at 32).
THEOREM DestroyFollowsLoss == Spec => []DestroyedAfterLoss
<1>1. IInv => DestroyedAfterLoss
  BY DEF IInv
<1>2. QED BY Invariance, <1>1, PTL

\* A connection or a subscription that failed keeps the task polling (the loop
\* at mqtt_sub.c:120 reads subscribed, the failure callbacks set finished).
THEOREM FailuresUnnoticed == Spec => []FailureUnnoticed
<1>1. IInv => FailureUnnoticed
  BY DEF IInv
<1>2. QED BY Invariance, <1>1, PTL

-----------------------------------------------------------------------------
(***************************************************************************)
(* The session implements Session.                                         *)
(***************************************************************************)

\* A step that keeps the stage, what is kept and whether a request is served
\* is no step of Session.
LEMMA Stutters ==
  ASSUME UNCHANGED <<running, published, waiting, Stage>>,
         cb = "msgarrvd" <=> cb' = "msgarrvd"
  PROVE  UNCHANGED Abstract!vars
<1>1. (cb = "msgarrvd") = (cb' = "msgarrvd")
  BY Zenon
<1>2. QED BY <1>1 DEF Abstract!vars

\* A step that ends the process is Session's Stop.
LEMMA Stops ==
  ASSUME running, running' = FALSE, UNCHANGED <<task, cb, link, subscription, published, waiting>>
  PROVE  Abstract!Next
<1>1. UNCHANGED Stage
  BY DEF Stage, SettingUp
<1>2. (cb = "msgarrvd") = (cb' = "msgarrvd")
  OBVIOUS
<1>3. Abstract!Stop
  BY <1>1, <1>2 DEF Abstract!Stop
<1>4. QED BY <1>3 DEF Abstract!Next

\* A step after which the session is over, or as it was.
LEMMA Ends ==
  ASSUME running, Stage' \in {Stage, "over"}, waiting' = 0, Stage = Stage' => waiting = 0,
         UNCHANGED <<running, published>>,
         cb = "msgarrvd" <=> cb' = "msgarrvd"
  PROVE  [Abstract!Next]_(Abstract!vars)
<1>1. CASE Stage' = Stage
  BY <1>1, Stutters
<1>2. CASE Stage' # Stage
  <2>1. (cb = "msgarrvd") = (cb' = "msgarrvd")
    BY Zenon
  <2>2. Abstract!End
    BY <1>2, <2>1 DEF Abstract!End
  <2>3. QED BY <2>2 DEF Abstract!Next
<1>3. QED BY <1>1, <1>2

LEMMA StepImplements ==
  ASSUME IInv, [Next]_vars
  PROVE  [Abstract!Next]_(Abstract!vars)
<1> USE DEF IInv
<1>1. CASE Task
  <2>1. CASE StartConnectFails
    BY <2>1, Stops DEF StartConnectFails
  <2>2. CASE StartConnect
    <3>1. Stage = "before" /\ Stage' = "before" /\ cb # "msgarrvd"
      BY <2>2 DEF StartConnect, Stage, SettingUp, NotStarted
    <3>2. QED BY <2>2, <3>1, Stutters DEF StartConnect
  <2>3. CASE PollEnds \/ Check \/ Destroy
    <3>1. UNCHANGED <<running, published, waiting, cb, Stage>>
      BY <2>3 DEF PollEnds, Check, Destroy, Stage, SettingUp
    <3>2. QED BY <3>1, Stutters
  <2>4. QED BY <1>1, <2>1, <2>2, <2>3 DEF Task
<1>2. CASE OnConnect
  <2>1. CASE running' = FALSE
    BY <1>2, <2>1, Stops DEF OnConnect
  <2>2. CASE running' = running
    <3>1. Stage' = Stage
      BY <1>2, <2>2 DEF OnConnect, Stage, SettingUp, Connecting
    <3>2. QED BY <1>2, <2>2, <3>1, Stutters DEF OnConnect
  <2>3. QED BY <1>2, <2>1, <2>2, Zenon DEF OnConnect
<1>3. CASE OnFailure \/ OnSubscribe \/ CallbackReturns
  <2>1. UNCHANGED <<running, published, waiting, Stage>>
    BY <1>3 DEF OnFailure, OnSubscribe, CallbackReturns, Stage, SettingUp
  <2>2. cb # "msgarrvd" /\ cb' # "msgarrvd"
    BY <1>3 DEF OnFailure, OnSubscribe, CallbackReturns
  <2>3. QED BY <2>1, <2>2, Stutters
<1>4. CASE ConnLost
  <2>1. CASE running' = FALSE
    BY <1>4, <2>1, Stops DEF ConnLost
  <2>2. CASE running' = running
    <3>1. Stage' = Stage
      BY <1>4, <2>2 DEF ConnLost, Stage, SettingUp
    <3>2. QED BY <1>4, <2>2, <3>1, Stutters DEF ConnLost
  <2>3. QED BY <1>4, <2>1, <2>2, Zenon DEF ConnLost
<1>5. CASE MsgArrvd
  <2>1. CASE running' = FALSE
    BY <1>5, <2>1, Stops DEF MsgArrvd
  <2>2. CASE running' = running
    <3>1. UNCHANGED Stage
      BY <1>5, <2>2 DEF MsgArrvd, Stage, SettingUp
    <3>2. (cb' = "msgarrvd") = FALSE
      BY <1>5, <2>2 DEF MsgArrvd
    <3>3. Abstract!Return
      BY <1>5, <2>2, <3>1, <3>2 DEF MsgArrvd, Abstract!Return
    <3>4. QED BY <3>3 DEF Abstract!Next
  <2>3. QED BY <1>5, <2>1, <2>2, Zenon DEF MsgArrvd
<1>6. CASE ConnectAnswered
  <2>1. /\ Stage' \in {Stage, "over"} /\ waiting = 0
        /\ cb # "msgarrvd" /\ cb' # "msgarrvd"
    BY <1>6 DEF ConnectAnswered, Calls, Stage, SettingUp, Connecting
  <2>2. QED BY <1>6, <2>1, Ends DEF ConnectAnswered, Calls
<1>7. CASE SubscribeAnswered
  <2>1. waiting = 0 /\ cb # "msgarrvd" /\ cb' # "msgarrvd"
    BY <1>7 DEF SubscribeAnswered, Calls, Subscribing, TypeOK
  <2>2. CASE subscription' = "none"
    <3>1. Stage' \in {Stage, "over"}
      BY <1>7, <2>2 DEF SubscribeAnswered, Calls, Stage, SettingUp, NotStarted, Connecting
    <3>2. QED BY <1>7, <2>1, <3>1, Ends DEF SubscribeAnswered, Calls
  <2>3. CASE subscription' = "held"
    <3>1. Stage = "before" /\ Stage' = "serving"
      BY <1>7, <2>3 DEF SubscribeAnswered, Calls, Stage, SettingUp
    <3>2. (cb = "msgarrvd") = (cb' = "msgarrvd")
      BY <2>1
    <3>3. Abstract!Serve
      BY <1>7, <3>1, <3>2 DEF SubscribeAnswered, Calls, Abstract!Serve
    <3>4. QED BY <3>3 DEF Abstract!Next
  <2>4. QED BY <1>7, <2>2, <2>3 DEF SubscribeAnswered
<1>8. CASE MessageArrives
  <2>1. Stage = "serving" /\ Stage' = "serving"
    BY <1>8 DEF MessageArrives, Stage, Subscribing
  <2>2. cb # "msgarrvd" /\ (cb' = "msgarrvd") = TRUE
    BY <1>8 DEF MessageArrives, Calls
  <2>3. Abstract!HandOver
    BY <1>8, <2>1, <2>2 DEF MessageArrives, Calls, Abstract!HandOver
  <2>4. QED BY <2>3 DEF Abstract!Next
<1>9. CASE LossNoticed
  <2>1. Stage' = Stage
    BY <1>9 DEF LossNoticed, Calls, Stage, SettingUp
  <2>2. cb # "msgarrvd" /\ cb' # "msgarrvd"
    BY <1>9 DEF LossNoticed, Calls
  <2>3. QED BY <1>9, <2>1, <2>2, Stutters DEF LossNoticed, Calls
<1>10. CASE LinkBreaks
  <2>1. Stage' = "over" \/ Stage' = Stage
    BY <1>10 DEF LinkBreaks, Stage, SettingUp, NotStarted
  <2>2. Stage = Stage' => waiting = 0
    BY <1>10 DEF LinkBreaks, Stage, SettingUp, Subscribing, TypeOK
  <2>3. QED BY <1>10, <2>1, <2>2, Ends DEF LinkBreaks
<1>11. CASE RequestPublished
  <2>1. Stage' = Stage /\ (Stage = "serving" <=> subscription = "held")
    BY <1>11 DEF RequestPublished, Stage, SettingUp
  <2>2. (cb = "msgarrvd") = (cb' = "msgarrvd")
    BY <1>11 DEF RequestPublished
  <2>3. Abstract!Publish
    BY <1>11, <2>1, <2>2 DEF RequestPublished, Abstract!Publish
  <2>4. QED BY <2>3 DEF Abstract!Next
<1>12. CASE ProcessEnds
  BY <1>12, Stops DEF ProcessEnds
<1>13. CASE UNCHANGED vars
  <2>1. UNCHANGED <<running, published, waiting, cb, Stage>>
    BY <1>13 DEF vars, Stage, SettingUp
  <2>2. QED BY <2>1, Stutters
<1>14. QED
  BY <1>1, <1>2, <1>3, <1>4, <1>5, <1>6, <1>7, <1>8, <1>9, <1>10, <1>11, <1>12, <1>13
     DEF Next, Callback, Library

\* The session serves at most once, hands over one request at a time and only
\* while it serves, and mends nothing that fails or breaks.
THEOREM Refinement == Spec => ImplementsSession
<1>1. Init => Abstract!Init
  <2>1. ASSUME Init PROVE (cb = "msgarrvd") = FALSE
    BY <2>1 DEF Init
  <2>2. QED BY <2>1 DEF Init, Abstract!Init, Stage, SettingUp
<1>2. IInv /\ [Next]_vars => [Abstract!Next]_(Abstract!vars)
  BY StepImplements
<1>3. QED
  BY Invariance, <1>1, <1>2, PTL DEF Spec, ImplementsSession, Abstract!Spec

=============================================================================
