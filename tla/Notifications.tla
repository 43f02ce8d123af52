---------------------------- MODULE Notifications ----------------------------
(***************************************************************************)
(* NotificationService: send() opens a delivery row, calls the channel's   *)
(* adapter at once, records the outcome, and on failure puts a retry job   *)
(* on the notification-delivery queue, from where NotificationRetryWorker  *)
(* repeats the attempt.  TrustedContactReviewService.fanOutNotifications   *)
(* is the caller: a contact has one message per channel, and an error of   *)
(* send() is swallowed there.                                              *)
(*                                                                         *)
(* The providers and BullMQ are external.  BullMQ hands a job to one       *)
(* worker at a time, repeats it after a failure up to `attempts` times,    *)
(* puts it back when its worker dies, at most StallBound times, and takes  *)
(* one job per jobId.                                                      *)
(***************************************************************************)
EXTENDS Naturals, FiniteSets

CONSTANTS
    Messages,       \* calls of send()
    ChannelOf,      \* the channel of each: EMAIL, SMS, PUSH, IN_APP or WEBSOCKET
    RetryAttempts,  \* defaultJobOptions.attempts
    StallBound,     \* maxStalledCount of BullMQ
    DeathBound      \* bound on the handlers and workers that die

ASSUME NotificationsAssumption ==
    /\ RetryAttempts \in Nat \ {0} /\ StallBound \in Nat /\ DeathBound \in Nat
    /\ ChannelOf \in [Messages -> {"EMAIL", "SMS", "PUSH", "IN_APP", "WEBSOCKET"}]

VARIABLES
    config,     \* [redis, provider]: is REDIS_URL set, are the provider's keys set
    delivery,   \* notification_deliveries: [status, attempts]
    sender,     \* send(): where it is, and what the adapter answered
    job,        \* retry job: its state, the attempt under way, failed attempts, stalls
    accepted,   \* history: how often the provider took the message
    dead,       \* history: messages whose send() died
    failures

noteVars == <<config, delivery, sender, job, accepted, dead, failures>>

NotOpened == [status |-> "none", attempts |-> 0]
NotStarted == [at |-> "none", answer |-> "none"]
NoJob == [state |-> "none", at |-> "none", answer |-> "none", failed |-> 0, stalls |-> 0]

NotificationsInit ==
    /\ config \in [redis: BOOLEAN, provider: BOOLEAN]
    /\ delivery = [m \in Messages |-> NotOpened]
    /\ sender = [m \in Messages |-> NotStarted]
    /\ job = [m \in Messages |-> NoJob]
    /\ accepted = [m \in Messages |-> 0]
    /\ dead = {}
    /\ failures = 0

----------------------------------------------------------------------------
(* An attempt: adapter.send, then the update of the row.                   *)

\* What the adapters' send returns.  Email, SMS and push are skipped without the
\* provider's keys; the in-app alert and the socket need none.
EmailAdapter == IF config.provider THEN {"ok", "error"} ELSE {"skipped"}
SmsAdapter == IF config.provider THEN {"ok", "error"} ELSE {"skipped"}
PushAdapter == IF config.provider THEN {"ok", "error"} ELSE {"skipped"}
InAppAdapter == {"ok", "error"}
WebsocketAdapter == {"ok", "error"}

adapters == [EMAIL |-> EmailAdapter, SMS |-> SmsAdapter, PUSH |-> PushAdapter,
             IN_APP |-> InAppAdapter, WEBSOCKET |-> WebsocketAdapter]
AdapterAnswers(m) == adapters[ChannelOf[m]]

\* A provider may have taken the message although the adapter reports an error.
Takes(answer) == CASE answer = "ok" -> {1} [] answer = "error" -> {0, 1} [] OTHER -> {0}

outcome(answer) ==
    CASE answer = "ok" -> "SENT" [] answer = "skipped" -> "SKIPPED" [] OTHER -> "FAILED"

\* Mutant: an attempt is counted before the send and again after it.
countAttemptTwice(m, answer) ==
    delivery' = [delivery EXCEPT ![m] = [status |-> outcome(answer), attempts |-> @.attempts + 2]]

attemptDelivery(m, answer) ==
    delivery' = [delivery EXCEPT ![m] = [status |-> outcome(answer), attempts |-> @.attempts + 1]]

----------------------------------------------------------------------------
(* send().                                                                 *)

\* The row is opened up front, PENDING.
Open(m) ==
    /\ sender[m].at = "none"
    /\ delivery' = [delivery EXCEPT ![m] = [status |-> "PENDING", attempts |-> 0]]
    /\ sender' = [sender EXCEPT ![m].at = "opened"]
    /\ UNCHANGED <<config, job, accepted, dead, failures>>

Attempt(m) ==
    /\ sender[m].at = "opened"
    /\ \E answer \in AdapterAnswers(m) : \E k \in Takes(answer) :
          /\ sender' = [sender EXCEPT ![m] = [at |-> "answered", answer |-> answer]]
          /\ accepted' = [accepted EXCEPT ![m] = @ + k]
    /\ UNCHANGED <<config, delivery, job, dead, failures>>

RecordOutcome(m) ==
    /\ sender[m].at = "answered"
    /\ attemptDelivery(m, sender[m].answer)
    /\ sender' = [sender EXCEPT ![m].at =
                      IF sender[m].answer = "error" THEN "recorded" ELSE "returned"]
    /\ UNCHANGED <<config, job, accepted, dead, failures>>

\* Mutant: the retry is only queued for a delivery that was skipped.
enqueueSkipped(m) ==
    /\ sender[m].at = "recorded"
    /\ job' = [job EXCEPT ![m] = IF config.redis /\ delivery[m].status = "SKIPPED"
                                 THEN [NoJob EXCEPT !.state = "waiting"] ELSE @]
    /\ sender' = [sender EXCEPT ![m].at = "returned"]
    /\ UNCHANGED <<config, delivery, accepted, dead, failures>>

\* Without Redis the payload is dropped with a warning.
enqueue(m) ==
    /\ sender[m].at = "recorded"
    /\ job' = [job EXCEPT ![m] = IF config.redis THEN [NoJob EXCEPT !.state = "waiting"] ELSE @]
    /\ sender' = [sender EXCEPT ![m].at = "returned"]
    /\ UNCHANGED <<config, delivery, accepted, dead, failures>>

\* The process dies, or a statement of send() fails and the caller swallows it.
SenderDies(m) ==
    /\ sender[m].at \in {"opened", "answered", "recorded"}
    /\ failures < DeathBound
    /\ sender' = [sender EXCEPT ![m].at = "returned"]
    /\ dead' = dead \union {m}
    /\ failures' = failures + 1
    /\ UNCHANGED <<config, delivery, job, accepted>>

----------------------------------------------------------------------------
(* retryFromQueue, run by the worker.                                      *)

Take(m) ==
    /\ job[m].state = "waiting"
    /\ job' = [job EXCEPT ![m].state = "active", ![m].at = "opened"]
    /\ UNCHANGED <<config, delivery, sender, accepted, dead, failures>>

JobAttempt(m) ==
    /\ job[m].state = "active"
    /\ job[m].at = "opened"
    /\ \E answer \in AdapterAnswers(m) : \E k \in Takes(answer) :
          /\ job' = [job EXCEPT ![m].at = "answered", ![m].answer = answer]
          /\ accepted' = [accepted EXCEPT ![m] = @ + k]
    /\ UNCHANGED <<config, delivery, sender, dead, failures>>

\* BullMQ (external): after a throw, backoff and another attempt up to the cap.
Thrown(j) ==
    [j EXCEPT !.state = IF j.failed + 1 < RetryAttempts THEN "waiting" ELSE "failed",
              !.at = "none", !.answer = "none", !.failed = @ + 1]

\* It throws when the attempt failed.
retryFromQueue(m) ==
    /\ job[m].state = "active"
    /\ job[m].at = "answered"
    /\ attemptDelivery(m, job[m].answer)
    /\ job' = [job EXCEPT ![m] = IF @.answer = "error" THEN Thrown(@)
                                 ELSE [@ EXCEPT !.state = "completed", !.at = "none"]]
    /\ UNCHANGED <<config, sender, accepted, dead, failures>>

\* The update of the row fails: the job fails although the adapter may have sent.
UpdateFails(m) ==
    /\ job[m].state = "active"
    /\ job[m].at = "answered"
    /\ failures < DeathBound
    /\ failures' = failures + 1
    /\ job' = [job EXCEPT ![m] = Thrown(@)]
    /\ UNCHANGED <<config, delivery, sender, accepted, dead>>

\* The worker dies (external: BullMQ puts the stalled job back, or fails it).
Stall(m) ==
    /\ job[m].state = "active"
    /\ failures < DeathBound
    /\ failures' = failures + 1
    /\ job' = [job EXCEPT ![m].state = IF job[m].stalls < StallBound THEN "waiting" ELSE "failed",
                          ![m].at = "none", ![m].answer = "none", ![m].stalls = @ + 1]
    /\ UNCHANGED <<config, delivery, sender, accepted, dead>>

Sending(m) == Open(m) \/ Attempt(m) \/ RecordOutcome(m) \/ enqueue(m)
Retrying(m) == Take(m) \/ JobAttempt(m) \/ retryFromQueue(m)

NotificationsNext ==
    \E m \in Messages : Sending(m) \/ Retrying(m) \/ SenderDies(m) \/ UpdateFails(m) \/ Stall(m)

NotificationsSpec == NotificationsInit /\ [][NotificationsNext]_noteVars

\* A handler and a worker that are running go on.
NotificationsFairness ==
    \A m \in Messages :
        /\ WF_noteVars(Attempt(m) \/ RecordOutcome(m) \/ enqueue(m))
        /\ WF_noteVars(Retrying(m))

----------------------------------------------------------------------------
Attempts == 0..(1 + RetryAttempts + StallBound)

NotificationsTypeOK ==
    /\ config \in [redis: BOOLEAN, provider: BOOLEAN]
    /\ delivery \in [Messages -> [status: {"none", "PENDING", "SENT", "SKIPPED", "FAILED"},
                             attempts: Attempts]]
    /\ sender \in [Messages -> [at: {"none", "opened", "answered", "recorded", "returned"},
                                answer: {"none", "ok", "error", "skipped"}]]
    /\ job \in [Messages -> [state: {"none", "waiting", "active", "completed", "failed"},
                             at: {"none", "opened", "answered"},
                             answer: {"none", "ok", "error", "skipped"},
                             failed: 0..RetryAttempts, stalls: 0..(StallBound + 1)]]
    /\ accepted \in [Messages -> Attempts]
    /\ dead \subseteq Messages
    /\ failures \in 0..DeathBound

\* A row says SENT only when the provider took the message, at whichever attempt,
\* and SKIPPED only when nothing was sent; whatever dies and is repeated
\* (notification.service.ts attemptDelivery).
SentWasSent ==
    \A m \in Messages :
        /\ delivery[m].status = "SENT" => accepted[m] > 0
        /\ delivery[m].status = "SKIPPED" => accepted[m] = 0

\* A row never says SENT of what no provider took, and every delivery that was
\* opened is settled in the end, or its attempts are used up, unless its send()
\* died (notification.service.ts, notification-retry.worker.ts).
DeliverySettles ==
    /\ []SentWasSent
    /\ \A m \in Messages :
          delivery[m].status = "PENDING" ~>
              \/ delivery[m].status \in {"SENT", "SKIPPED"}
              \/ delivery[m].status = "FAILED" /\ (job[m].state = "failed" \/ ~config.redis)
              \/ m \in dead
=============================================================================
