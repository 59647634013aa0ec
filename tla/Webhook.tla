------------------------------ MODULE Webhook ------------------------------
(***************************************************************************)
(* Webhook deliveries (internal/workers/webhook.go): one goroutine for each *)
(* publication (onPublish in main.go) and one request for each test that an *)
(* administrator sends (handleTestWebhook), each with a context that ends   *)
(* the delivery whatever it is doing.                                      *)
(*                                                                         *)
(* Time is counted in tenths of a second from the start of the delivery.   *)
(* An attempt takes no time or all that the client allows, whatever comes  *)
(* of it: what is between is between.  The receiver answers as it likes,   *)
(* which includes the rejection of a signature made with an old secret.    *)
(***************************************************************************)
EXTENDS Integers

CONSTANT Events    \* the event ids that will be sent

VARIABLES
    delivery,    \* SendWebhook: the goroutine of each event
    flight,      \* the answer of the receiver on its way back
    received,    \* how often the receiver got each event
    accepted,    \* the events that it answered with 2xx
    log          \* table webhook_deliveries

webhookVars == <<delivery, flight, received, accepted, log>>

MaxRetries == 5

(* Mutant: a client timeout that five attempts cannot afford.              *)
SlowClient == 300

ClientTimeout == 100
Deadline(source) == IF source = "publication" THEN 1200 ELSE 150

(* The wait after each attempt, doubled every time.                        *)
Backoff == <<1, 2, 4, 8>>

(* Codes of one kind are treated alike; 0 before there was an answer.      *)
Codes == {200, 400, 429, 503}

(* Mutants: 429 is a client error like the others; a client error is       *)
(* retried like everything else.                                           *)
PermanentToo(code) == code \in 400..499
NeverPermanent(code) == FALSE

(* 4xx other than 429 is not retried.                                      *)
Permanent(code) == code \in 400..499 /\ code # 429

NotLogged == [status_code |-> 0, attempt_count |-> 0, failed |-> FALSE]

Attempts == 1..MaxRetries
Times    == 0..1200
Counts   == 0..MaxRetries

DeliveryState ==
    [source : {"publication", "test"},
     pc : {"idle", "start", "request", "send", "wait", "delivered", "failed", "done"},
     attempt : Attempts, elapsed : Times, statusCode : Codes \cup {0},
     end : {"none", "off", "unparsable", "cancelled", "nodb", "crashed", "logged"}]

LogRow == [status_code : Codes \cup {0}, attempt_count : Counts, failed : BOOLEAN]

WebhookTypeOK ==
    /\ delivery \in [Events -> DeliveryState]
    /\ \A e \in Events : delivery[e].elapsed <= Deadline(delivery[e].source)
    /\ flight   \in [Events -> Codes \cup {0, -1}]
    /\ received \in [Events -> Counts]
    /\ accepted \in SUBSET Events
    /\ log      \in [Events -> LogRow]

WebhookInit ==
    /\ delivery = [e \in Events |-> [source |-> "publication", pc |-> "idle", attempt |-> 1,
                                     elapsed |-> 0, statusCode |-> 0, end |-> "none"]]
    /\ flight   = [e \in Events |-> -1]
    /\ received = [e \in Events |-> 0]
    /\ accepted = {}
    /\ log      = [e \in Events |-> NotLogged]

Running(e) == delivery[e].pc \notin {"idle", "done"}
Expired(e) == delivery[e].elapsed >= Deadline(delivery[e].source)

Ends(e, how) == delivery' = [delivery EXCEPT ![e].pc = "done", ![e].end = how]
----------------------------------------------------------------------------
(* A version was published, or an administrator sends a test.              *)
Start(e) ==
    /\ delivery[e].pc = "idle"
    /\ \E source \in {"publication", "test"} :
          delivery' = [delivery EXCEPT ![e].pc = "start", ![e].source = source]
    /\ UNCHANGED <<flight, received, accepted, log>>

(* webhook_url is read: nothing is sent when it is empty or not readable.  *)
LoadTarget(e) ==
    /\ delivery[e].pc = "start"
    /\ \/ Ends(e, "off")
       \/ delivery' = [delivery EXCEPT ![e].pc = "request"]
    /\ UNCHANGED <<flight, received, accepted, log>>

(* NewRequestWithContext refuses a URL that it cannot parse, and so ends   *)
(* the loop at its first attempt, without a row: webhook_url is saved as   *)
(* it was typed.  Later attempts have the same URL, which it has accepted. *)
NewRequest(e) ==
    /\ delivery[e].pc = "request"
    /\ \/ Ends(e, "unparsable")
       \/ delivery' = [delivery EXCEPT ![e].pc = "send"]
    /\ UNCHANGED <<flight, received, accepted, log>>

(* The request reaches the receiver, which decides.                        *)
Receive(e) ==
    /\ delivery[e].pc = "send" /\ flight[e] = -1 /\ ~Expired(e)
    /\ \E code \in Codes :
          /\ flight' = [flight EXCEPT ![e] = code]
          /\ accepted' = IF code = 200 THEN accepted \cup {e} ELSE accepted
    /\ received' = [received EXCEPT ![e] = @ + 1]
    /\ UNCHANGED <<delivery, log>>

(* The request or its answer is lost, or the time is up: the client stops  *)
(* waiting, no later than the context ends.                                *)
Lose(e) ==
    /\ delivery[e].pc = "send" /\ flight[e] # 0
    /\ flight' = [flight EXCEPT ![e] = 0]
    /\ UNCHANGED <<delivery, received, accepted, log>>

(* recordWebhookDelivery: the row is written with the context of the       *)
(* delivery, and the error of the statement is ignored.                    *)
Record(e, row) ==
    \/ /\ ~Expired(e)
       /\ log' = [log EXCEPT ![e] = row]
       /\ Ends(e, "logged")
    \/ /\ Ends(e, IF Expired(e) THEN "cancelled" ELSE "nodb")
       /\ UNCHANGED log

(* Mutant: the request is made without the context.                        *)
ReturnedLate(e, took) ==
    [delivery[e] EXCEPT !.elapsed = @ + took, !.statusCode = IF flight[e] > 0 THEN flight[e] ELSE @]

(* client.Do returns after some time, with the answer when it came before  *)
(* the context ended; an error leaves statusCode as it was.                *)
Returned(e, took) ==
    LET at   == delivery[e].elapsed + took
        late == at >= Deadline(delivery[e].source)
    IN  [delivery[e] EXCEPT
            !.elapsed    = IF late THEN Deadline(delivery[e].source) ELSE at,
            !.statusCode = IF flight[e] > 0 /\ ~late THEN flight[e] ELSE @]

(* Mutant: any answer is taken for a success.                              *)
AnyAnswer(d, answer) == answer > 0 /\ d.elapsed < Deadline(d.source)

Success(d, answer) == answer = 200 /\ d.elapsed < Deadline(d.source)

(* After an answer or an error, statusCode decides whether to try again.   *)
Attempted(e) ==
    /\ delivery[e].pc = "send" /\ flight[e] # -1
    /\ \E took \in {0, ClientTimeout} :
          LET d == Returned(e, took)
          IN  delivery' = [delivery EXCEPT ![e] =
                 [d EXCEPT !.pc = IF Success(d, flight[e]) THEN "delivered"
                                  ELSE IF Permanent(d.statusCode) \/ d.attempt = MaxRetries
                                  THEN "failed" ELSE "wait"]]
    /\ flight' = [flight EXCEPT ![e] = -1]
    /\ UNCHANGED <<received, accepted, log>>

(* The row of a success tells the attempt.                                 *)
Delivered(e) ==
    /\ delivery[e].pc = "delivered"
    /\ Record(e, [status_code |-> delivery[e].statusCode,
                  attempt_count |-> delivery[e].attempt, failed |-> FALSE])
    /\ UNCHANGED <<flight, received, accepted>>

(* The select between ctx.Done and the backoff.                            *)
Wait(e) ==
    LET at == delivery[e].elapsed + Backoff[delivery[e].attempt]
    IN  /\ delivery[e].pc = "wait"
        /\ \/ /\ at >= Deadline(delivery[e].source)
              /\ Ends(e, "cancelled")
           \/ /\ at <= Deadline(delivery[e].source)
              /\ delivery' = [delivery EXCEPT ![e].pc = "send", ![e].elapsed = at,
                                              ![e].attempt = @ + 1]
        /\ UNCHANGED <<flight, received, accepted, log>>

(* The row of a failure says five attempts, also after a rejection.        *)
GiveUp(e) ==
    /\ delivery[e].pc = "failed"
    /\ Record(e, [status_code |-> delivery[e].statusCode, attempt_count |-> MaxRetries,
                  failed |-> TRUE])
    /\ UNCHANGED <<flight, received, accepted>>

(* The administrator leaves the page: the context of a test ends.          *)
Disconnect(e) ==
    /\ delivery[e].source = "test" /\ Running(e)
    /\ delivery' = [delivery EXCEPT ![e].elapsed = Deadline(delivery[e].source)]
    /\ UNCHANGED <<flight, received, accepted, log>>

(* The process stops: nothing remembers what it was sending.               *)
Crash ==
    /\ \E e \in Events : Running(e)
    /\ delivery' = [e \in Events |->
          IF Running(e) THEN [delivery[e] EXCEPT !.pc = "done", !.end = "crashed"]
          ELSE delivery[e]]
    /\ flight' = [e \in Events |-> -1]
    /\ UNCHANGED <<received, accepted, log>>

SendWebhook(e) ==
    \/ LoadTarget(e) \/ NewRequest(e) \/ Lose(e) \/ Attempted(e) \/ Delivered(e)
    \/ Wait(e) \/ GiveUp(e)

WebhookNext ==
    \/ \E e \in Events : Start(e) \/ Receive(e) \/ SendWebhook(e) \/ Disconnect(e)
    \/ Crash

(* The client waits for at most ClientTimeout and the context ends every   *)
(* other wait, so a goroutine that can go on does.                         *)
WebhookFairness == \A e \in Events : WF_webhookVars(SendWebhook(e))

WebhookSpec == WebhookInit /\ [][WebhookNext]_webhookVars /\ WebhookFairness
----------------------------------------------------------------------------
Logged(e) == log[e] # NotLogged

(* A publication leaves a trace: unless no target is set, the target is no *)
(* URL, the database refuses the row or the process stops, the delivery    *)
(* ends with its row in webhook_deliveries.  All five attempts and their   *)
(* waits fit into the two minutes of its context, whatever times out.      *)
EveryPublicationIsLogged ==
    \A e \in Events :
        delivery[e].pc = "start" /\ delivery[e].source = "publication"
            ~> Logged(e) \/ delivery[e].end \in {"off", "unparsable", "nodb", "crashed"}

(* The row is true of the receiver: a success is an event that it accepted *)
(* and got no more often than the row says, also when answers were lost.   *)
LogIsTruthful ==
    \A e \in Events : Logged(e) =>
        /\ received[e] <= log[e].attempt_count
        /\ ~log[e].failed => e \in accepted

(* A delivery fails for good only after a rejection, or after all attempts *)
(* have been made: 429 and server errors are retried, also when the answer *)
(* of a later attempt is lost.                                             *)
GivesUpLate ==
    \A e \in Events : Logged(e) /\ log[e].failed =>
        log[e].status_code = 400 \/ delivery[e].attempt = MaxRetries

(* Once the sender has read an acceptance or a rejection, the receiver     *)
(* does not get that event again.                                          *)
AnswerIsFinal ==
    [][\A e \in Events :
          received'[e] > received[e] => ~Logged(e) /\ delivery[e].statusCode # 400]_webhookVars
============================================================================
