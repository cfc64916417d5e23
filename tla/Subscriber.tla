------------------------------ MODULE Subscriber ------------------------------
(***************************************************************************)
(* The MQTT session of the gateway (mqtt_sub.c): the thread that runs      *)
(* create_mqtt_task, and the callbacks that the MQTTAsync library runs, one *)
(* at a time, on a thread of its own.  They share the flags subscribed and *)
(* finished.                                                               *)
(*                                                                         *)
(* What happens inside msgarrvd is RequestHandler; here it takes a message *)
(* and returns, or the process exits.                                      *)
(***************************************************************************)
EXTENDS Integers

CONSTANTS MaxMessages   \* bound on the requests that are published

ASSUME SubscriberAssumption == MaxMessages \in Nat

Callbacks == {"onConnect", "onConnectFailure", "onSubscribe", "onSubscribeFailure",
              "connlost", "msgarrvd"}

\* Where the library's thread can be: in a callback, in one that has set its
\* flag and has only its return left, or in none.
Places == Callbacks \cup {"returns", "none"}

VARIABLES
  running,       \* neither exit() nor a crash has ended the process
  task,          \* where create_mqtt_task is
  client,        \* the library's client object
  subscribed,    \* int subscribed
  finished,      \* int finished
  cb,            \* where the library's thread is
  link,          \* the connection to the broker
  subscription,  \* what the broker knows of our subscription
  published,     \* requests published so far
  waiting,       \* requests the broker or the library hold for us
  lost           \* connlost has been called (history)

flags == <<subscribed, finished>>
session == <<link, subscription>>
messages == <<published, waiting>>
vars == <<running, task, client, flags, cb, session, messages, lost>>

Init ==
  /\ running = TRUE /\ task = "start" /\ client = "made"
  /\ subscribed = FALSE /\ finished = FALSE /\ cb = "none"
  /\ link = "none" /\ subscription = "none"
  /\ published = 0 /\ waiting = 0 /\ lost = FALSE

(***************************************************************************)
(* create_mqtt_task.                                                       *)
(***************************************************************************)

\* MQTTAsync_connect was accepted; how it ends is told to a callback.
StartConnect ==
  /\ running /\ task = "start"
  /\ task' = "poll"
  /\ link' = "connecting"
  /\ UNCHANGED <<running, client, flags, cb, subscription, messages, lost>>

StartConnectFails ==
  /\ running /\ task = "start"
  /\ running' = FALSE                               \* exit(EXIT_FAILURE)
  /\ UNCHANGED <<task, client, flags, cb, session, messages, lost>>

\* Mutant of PollEnds: the loop also looks at finished.
PollEndsOnFailure ==
  /\ running /\ task = "poll"
  /\ subscribed \/ finished
  /\ task' = "check"
  /\ UNCHANGED <<running, client, flags, cb, session, messages, lost>>

\* while (!subscribed) usleep(10000L);
PollEnds ==
  /\ running /\ task = "poll"
  /\ subscribed
  /\ task' = "check"
  /\ UNCHANGED <<running, client, flags, cb, session, messages, lost>>

\* Mutant of Check: the test of finished is gone.
CheckAlwaysEnds ==
  /\ running /\ task = "check"
  /\ task' = "destroy"
  /\ UNCHANGED <<running, client, flags, cb, session, messages, lost>>

\* Mutant of Check: the endless loop ends and the task goes on to disconnect.
CheckGoesOn ==
  /\ running /\ task = "check"
  /\ task' = IF finished THEN "destroy" ELSE "disconnect"
  /\ UNCHANGED <<running, client, flags, cb, session, messages, lost>>

\* if (finished) goto exit; do { sleep(10); } while (1);
Check ==
  /\ running /\ task = "check"
  /\ task' = IF finished THEN "destroy" ELSE "asleep"
  /\ UNCHANGED <<running, client, flags, cb, session, messages, lost>>

\* exit: MQTTAsync_destroy(&client); return NULL;
Destroy ==
  /\ running /\ task = "destroy"
  /\ task' = "gone"
  /\ client' = "destroyed"
  /\ UNCHANGED <<running, flags, cb, session, messages, lost>>

Task == StartConnect \/ StartConnectFails \/ PollEnds \/ Check \/ Destroy

(***************************************************************************)
(* The callbacks.                                                          *)
(***************************************************************************)

\* onConnect asks for the subscription, or ends the process.
OnConnect ==
  /\ running /\ cb = "onConnect"
  /\ \/ cb' = "none" /\ subscription' = "asked" /\ UNCHANGED running
     \/ running' = FALSE /\ UNCHANGED <<cb, subscription>>
  /\ UNCHANGED <<task, client, flags, link, messages, lost>>

\* Mutant of OnFailure: a connection that was refused is asked for again.
OnFailureRetries ==
  /\ running /\ cb \in {"onConnectFailure", "onSubscribeFailure"}
  /\ cb' = "returns"
  /\ finished' = TRUE
  /\ link' = IF cb = "onConnectFailure" THEN "connecting" ELSE link
  /\ UNCHANGED <<running, task, client, subscribed, subscription, messages, lost>>

\* onConnectFailure and onSubscribeFailure.
OnFailure ==
  /\ running /\ cb \in {"onConnectFailure", "onSubscribeFailure"}
  /\ cb' = "returns"
  /\ finished' = TRUE
  /\ UNCHANGED <<running, task, client, subscribed, session, messages, lost>>

OnSubscribe ==
  /\ running /\ cb = "onSubscribe"
  /\ cb' = "returns"
  /\ subscribed' = TRUE
  /\ UNCHANGED <<running, task, client, finished, session, messages, lost>>

\* Mutant of ConnLost: the context is the client, so that it connects again.
ConnLostReconnects ==
  /\ running /\ cb = "connlost"
  /\ cb' = "returns"
  /\ link' = "connecting"
  /\ lost' = TRUE
  /\ UNCHANGED <<running, task, client, flags, subscription, messages>>

\* "Reconnecting": the context that setCallbacks was given is NULL, so the
\* client to connect is NULL.  The library refuses it, or reads through it.
ConnLost ==
  /\ running /\ cb = "connlost"
  /\ \/ cb' = "returns" /\ finished' = TRUE /\ UNCHANGED running
     \/ running' = FALSE /\ UNCHANGED <<cb, finished>>
  /\ lost' = TRUE
  /\ UNCHANGED <<task, client, subscribed, session, messages>>

\* A callback that has set its flag returns; the task may have read the flag.
CallbackReturns ==
  /\ running /\ cb = "returns"
  /\ cb' = "none"
  /\ UNCHANGED <<running, task, client, flags, session, messages, lost>>

\* msgarrvd returns, or a failed publication ends the process.
MsgArrvd ==
  /\ running /\ cb = "msgarrvd"
  /\ \/ cb' = "none" /\ UNCHANGED running
     \/ running' = FALSE /\ UNCHANGED cb
  /\ UNCHANGED <<task, client, flags, session, messages, lost>>

Callback ==
  \/ OnConnect \/ OnFailure \/ OnSubscribe \/ ConnLost \/ CallbackReturns
  \/ MsgArrvd

(***************************************************************************)
(* The library and the broker.                                             *)
(***************************************************************************)

\* The library calls back when nothing else is being called back.
Calls(name) == running /\ client = "made" /\ cb = "none" /\ cb' = name

ConnectAnswered ==
  /\ link = "connecting"
  /\ \/ Calls("onConnect") /\ link' = "up"
     \/ Calls("onConnectFailure") /\ link' = "none"
  /\ UNCHANGED <<running, task, client, flags, subscription, messages, lost>>

\* A subscription that was asked for on a connection that is gone fails.
SubscribeAnswered ==
  /\ subscription = "asked"
  /\ \/ link = "up" /\ Calls("onSubscribe") /\ subscription' = "held"
     \/ Calls("onSubscribeFailure") /\ subscription' = "none"
  /\ UNCHANGED <<running, task, client, flags, link, messages, lost>>

MessageArrives ==
  /\ link = "up" /\ waiting > 0
  /\ Calls("msgarrvd")
  /\ waiting' = waiting - 1
  /\ UNCHANGED <<running, task, client, flags, session, published, lost>>

\* The connection breaks; a clean session leaves nothing behind at the broker.
LinkBreaks ==
  /\ running /\ link = "up"
  /\ link' = "broken"
  /\ subscription' = IF subscription = "held" THEN "none" ELSE subscription
  /\ waiting' = 0
  /\ UNCHANGED <<running, task, client, flags, cb, published, lost>>

LossNoticed ==
  /\ link = "broken"
  /\ Calls("connlost")
  /\ link' = "none"
  /\ UNCHANGED <<running, task, client, flags, subscription, messages, lost>>

\* Somebody publishes a request: it is kept for a subscriber only.
RequestPublished ==
  /\ published < MaxMessages
  /\ published' = published + 1
  /\ waiting' = IF subscription = "held" THEN waiting + 1 ELSE waiting
  /\ UNCHANGED <<running, task, client, flags, cb, session, lost>>

Library == ConnectAnswered \/ SubscribeAnswered \/ MessageArrives \/ LossNoticed

\* Another thread calls exit, or dies of a signal.
ProcessEnds ==
  /\ running
  /\ running' = FALSE
  /\ UNCHANGED <<task, client, flags, cb, session, messages, lost>>

Next ==
  Task \/ Callback \/ Library \/ LinkBreaks \/ RequestPublished \/ ProcessEnds

\* The scheduler runs the task and the library's thread; the library answers
\* and notices a loss.
Fairness == WF_vars(Task) /\ WF_vars(Callback) /\ WF_vars(Library)

Spec == Init /\ [][Next]_vars

FairSpec == Spec /\ Fairness

-----------------------------------------------------------------------------

\* Types of the variables.
TypeOK ==
  /\ running \in BOOLEAN /\ subscribed \in BOOLEAN /\ finished \in BOOLEAN
  /\ lost \in BOOLEAN
  /\ task \in {"start", "poll", "check", "asleep", "destroy", "gone"}
  /\ client \in {"made", "destroyed"}
  /\ cb \in Places
  /\ link \in {"none", "connecting", "up", "broken"}
  /\ subscription \in {"none", "asked", "held"}
  /\ published \in 0 .. MaxMessages
  /\ waiting \in 0 .. MaxMessages

\* A connection that is lost once is lost for good: from connlost on, the
\* process hears no request any more, however long it runs.
ServiceEndsWithLoss ==
  lost => link = "none" /\ subscription # "held" /\ cb # "msgarrvd"

\* Nothing orders MQTTAsync_destroy after the library's thread.  Even so, the
\* task gets there only when a subscribed connection is lost, and it pulls the
\* client from under no callback that still has a flag to set, a request to
\* serve or the client to use: at worst connlost has set finished and has not
\* returned yet, and that does happen.
DestroyedAfterLoss ==
  task \in {"destroy", "gone"} => lost /\ link = "none" /\ cb \in {"returns", "none"}

\* A connection or subscription that fails is never noticed by the task: it
\* polls for subscribed for the rest of the process' life.
FailureUnnoticed ==
  finished /\ ~lost => ~subscribed /\ task = "poll" /\ cb # "msgarrvd"

(***************************************************************************)
(* The promise to the requesters.                                          *)
(***************************************************************************)

\* A session that is being set up: it is not asked for, or not answered, and
\* the connection it was asked for on has not broken.
SettingUp ==
  \/ task = "start" \/ link = "connecting"
  \/ link = "up" /\ (cb = "onConnect" \/ subscription = "asked")

Stage == IF subscription = "held" THEN "serving"
         ELSE IF SettingUp THEN "before" ELSE "over"

Abstract == INSTANCE Session WITH
  stage <- Stage, kept <- waiting, busy <- (cb = "msgarrvd")

\* The session implements Session: it serves once, hands over one request at
\* a time and only while it serves, and nothing that fails or breaks is mended.
ImplementsSession == Abstract!Spec

\* mqtt_sub.c:26 "Reconnecting": a connection that is lost is sought again.
Reconnects == cb = "connlost" ~> (link \in {"connecting", "up"} \/ ~running)

=============================================================================
