--------------------------- MODULE WebhookProofs ---------------------------
(***************************************************************************)
(* What SendWebhook keeps for any number of concurrent deliveries.         *)
(***************************************************************************)
EXTENDS Webhook, TLAPS

(* The waits before each attempt, and the time after it, at most.          *)
Waited(attempt) == IF attempt = 1 THEN 0 ELSE IF attempt = 2 THEN 1
                   ELSE IF attempt = 3 THEN 3 ELSE IF attempt = 4 THEN 7 ELSE 15

Spent(d) == Waited(d.attempt) + ClientTimeout * (IF d.pc = "send" THEN d.attempt - 1 ELSE d.attempt)

(* One delivery d with the answer f on its way, n requests at the receiver *)
(* that accepted it or not, and its row.                                   *)
DeliveryOK(d, f, n, yes, row) ==
    /\ d.elapsed <= Deadline(d.source)
    /\ d.pc \in {"idle", "start", "request"} => n = 0 /\ d.attempt = 1
    /\ d.pc = "send" => n <= d.attempt /\ (f = -1 => n < d.attempt)
    /\ d.pc # "send" => n <= d.attempt /\ f = -1
    /\ d.source = "publication" => d.elapsed <= Spent(d) /\ d.end # "cancelled"
    /\ d.source = "publication" /\ d.pc \in {"idle", "start", "request"} => d.elapsed = 0
    /\ d.pc = "idle" => d.elapsed = 0 /\ d.end # "cancelled"
    /\ f = 200 => yes
    /\ d.pc = "wait" => d.attempt < MaxRetries
    /\ d.pc = "failed" => d.statusCode = 400 \/ d.attempt = MaxRetries
    /\ d.pc \in {"idle", "start", "request", "send", "wait"} => d.statusCode # 400
    /\ d.pc = "delivered" => yes
    /\ row # NotLogged => /\ d.pc = "done" /\ n <= row.attempt_count
                          /\ IF row.failed THEN row.status_code = 400 \/ d.attempt = MaxRetries
                             ELSE yes

WebhookInv ==
    /\ WebhookTypeOK
    /\ \A e \in Events :
          DeliveryOK(delivery[e], flight[e], received[e], e \in accepted, log[e])
----------------------------------------------------------------------------
(* Five attempts and the waits between them fit into a publication's time. *)
LEMMA TimeSuffices ==
    ASSUME NEW d \in DeliveryState
    PROVE  Spent(d) \in Nat /\ Spent(d) < 1200
<1>1. d.attempt \in Nat /\ 1 <= d.attempt /\ d.attempt <= 5
  BY DEF DeliveryState, Attempts, MaxRetries
<1>2. Waited(d.attempt) \in Nat /\ Waited(d.attempt) <= 15
  BY <1>1 DEF Waited
<1> DEFINE k == IF d.pc = "send" THEN d.attempt - 1 ELSE d.attempt
<1>3. k \in Nat /\ k <= 5
  BY <1>1
<1>4. Spent(d) = Waited(d.attempt) + 100 * k
  BY DEF Spent, ClientTimeout
<1> HIDE DEF k
<1> QED BY <1>2, <1>3, <1>4

(* The invariant after a step of one delivery.                             *)
LEMMA OneDelivery ==
    ASSUME WebhookInv, NEW e \in Events, NEW d \in DeliveryState, NEW f \in Codes \cup {0, -1},
           NEW n \in Counts, NEW row \in LogRow,
           delivery' = [delivery EXCEPT ![e] = d], flight' = [flight EXCEPT ![e] = f],
           received' = [received EXCEPT ![e] = n], log' = [log EXCEPT ![e] = row],
           accepted' \in {accepted, accepted \cup {e}},
           DeliveryOK(d, f, n, e \in accepted', row)
    PROVE  WebhookInv'
<1>1. \A x \in Events :
        /\ delivery'[x] = IF x = e THEN d ELSE delivery[x]
        /\ flight'[x] = IF x = e THEN f ELSE flight[x]
        /\ received'[x] = IF x = e THEN n ELSE received[x]
        /\ log'[x] = IF x = e THEN row ELSE log[x]
        /\ x # e => (x \in accepted' <=> x \in accepted)
  BY DEF WebhookInv, WebhookTypeOK
<1>2. ASSUME NEW x \in Events
      PROVE  DeliveryOK(delivery'[x], flight'[x], received'[x], x \in accepted', log'[x])
  <2>1. CASE x = e
    BY <1>1, <2>1
  <2>2. CASE x # e
    <3>1. DeliveryOK(delivery[x], flight[x], received[x], x \in accepted, log[x])
      BY DEF WebhookInv
    <3> QED BY <1>1, <2>2, <3>1 DEF DeliveryOK
  <2> QED BY <2>1, <2>2
<1>3. WebhookTypeOK'
  <2>1. \A x \in Events : delivery'[x].elapsed <= Deadline(delivery'[x].source)
    BY <1>2 DEF DeliveryOK
  <2> QED BY <2>1 DEF WebhookInv, WebhookTypeOK
<1> QED BY <1>2, <1>3 DEF WebhookInv

(* A delivery that ends, with or without a row.                            *)
LEMMA RecordStep ==
    ASSUME WebhookInv, NEW e \in Events, NEW row \in LogRow, Record(e, row),
           delivery[e].pc \in {"delivered", "failed"},
           received[e] <= row.attempt_count,
           IF row.failed THEN row.status_code = 400 \/ delivery[e].attempt = MaxRetries
           ELSE e \in accepted,
           UNCHANGED <<flight, received, accepted>>
    PROVE  WebhookInv'
<1> DEFINE d == delivery[e]
<1>1. /\ d \in DeliveryState /\ flight[e] \in Codes \cup {0, -1}
      /\ received[e] \in Counts /\ log[e] \in LogRow
      /\ DeliveryOK(d, flight[e], received[e], e \in accepted, log[e])
  BY DEF WebhookInv, WebhookTypeOK
<1>2. flight' = [flight EXCEPT ![e] = flight[e]] /\ received' = [received EXCEPT ![e] = received[e]]
  BY DEF WebhookInv, WebhookTypeOK
<1>3. ASSUME NEW how \in {"logged", "cancelled", "nodb"}, d.source = "publication" => how # "cancelled",
             Ends(e, how), NEW r \in {row, log[e]}, log' = [log EXCEPT ![e] = r]
      PROVE  WebhookInv'
  <2> DEFINE x == [d EXCEPT !.pc = "done", !.end = how]
  <2>1. delivery' = [delivery EXCEPT ![e] = x]
    BY <1>3 DEF Ends, WebhookInv, WebhookTypeOK
  <2>2. /\ x \in DeliveryState /\ x.pc = "done" /\ x.end = how /\ x.attempt = d.attempt
        /\ x.elapsed = d.elapsed /\ x.source = d.source /\ x.statusCode = d.statusCode
    <3>1. d \in DeliveryState /\ how \in {"none", "off", "unparsable", "cancelled", "nodb", "crashed", "logged"}
      BY <1>1
    <3>2. x \in DeliveryState
      BY <3>1 DEF DeliveryState
    <3> QED BY <3>1, <3>2 DEF DeliveryState
  <2>3. Spent(x) = Spent(d)
    BY <2>2 DEF Spent
  <2>4. DeliveryOK(x, flight[e], received[e], e \in accepted, r)
    <3>1. CASE r = row
      BY <1>1, <1>3, <2>2, <2>3, <3>1 DEF DeliveryOK
    <3>2. CASE r = log[e]
      BY <1>1, <1>3, <2>2, <2>3, <3>2 DEF DeliveryOK
    <3> QED BY <3>1, <3>2
  <2> HIDE DEF x
  <2> QED BY <1>1, <1>2, <1>3, <2>1, <2>2, <2>4, OneDelivery
<1>4. d.source = "publication" => ~Expired(e)
  <2>1. d.elapsed \in Nat /\ (d.source = "publication" => d.elapsed <= Spent(d))
    BY <1>1 DEF DeliveryOK, DeliveryState, Times
  <2>2. Spent(d) \in Nat /\ Spent(d) < 1200
    BY <1>1, TimeSuffices
  <2> QED BY <2>1, <2>2 DEF Expired, Deadline
<1>5. CASE log' = [log EXCEPT ![e] = row] /\ Ends(e, "logged")
  BY <1>3, <1>5
<1>6. CASE Ends(e, IF Expired(e) THEN "cancelled" ELSE "nodb") /\ UNCHANGED log
  <2>1. log' = [log EXCEPT ![e] = log[e]]
    BY <1>6 DEF WebhookInv, WebhookTypeOK
  <2> QED BY <1>3, <1>4, <1>6, <2>1
<1> QED BY <1>5, <1>6 DEF Record

(* Before the first request.                                               *)
LEMMA StartStep ==
    ASSUME WebhookInv, NEW e \in Events, Start(e) \/ LoadTarget(e) \/ NewRequest(e)
    PROVE  WebhookInv'
<1> DEFINE d == delivery[e]
<1>1. /\ d \in DeliveryState /\ flight[e] \in Codes \cup {0, -1}
      /\ received[e] \in Counts /\ log[e] \in LogRow
      /\ DeliveryOK(d, flight[e], received[e], e \in accepted, log[e])
  BY DEF WebhookInv, WebhookTypeOK
<1>2. /\ flight' = [flight EXCEPT ![e] = flight[e]]
      /\ received' = [received EXCEPT ![e] = received[e]]
      /\ log' = [log EXCEPT ![e] = log[e]] /\ accepted' = accepted
  BY DEF WebhookInv, WebhookTypeOK, Start, LoadTarget, NewRequest
<1>3. d.elapsed \in Nat /\ d.attempt \in Nat
  BY <1>1 DEF DeliveryState, Times, Attempts, MaxRetries
<1>4. CASE Start(e)
  <2>1. PICK source \in {"publication", "test"} :
           delivery' = [delivery EXCEPT ![e] = [d EXCEPT !.pc = "start", !.source = source]]
    BY <1>4 DEF Start, WebhookInv, WebhookTypeOK
  <2> DEFINE x == [d EXCEPT !.pc = "start", !.source = source]
  <2>2. /\ x \in DeliveryState /\ x.pc = "start" /\ x.end = d.end /\ x.attempt = d.attempt
        /\ x.elapsed = d.elapsed /\ x.source = source /\ d.pc = "idle" /\ x.statusCode = d.statusCode
    BY <1>1, <1>4 DEF DeliveryState, Start
  <2> HIDE DEF x
  <2>3. x.elapsed = 0 /\ x.attempt = 1 /\ received[e] = 0 /\ x.end # "cancelled"
    BY <1>1, <2>2 DEF DeliveryOK
  <2>4. Spent(x) \in Nat
    BY <2>2, TimeSuffices
  <2>5. DeliveryOK(x, flight[e], received[e], e \in accepted, log[e])
    BY <1>1, <2>2, <2>3, <2>4 DEF DeliveryOK, Deadline
  <2> QED BY <1>1, <1>2, <2>1, <2>2, <2>5, OneDelivery DEF x
<1>5. ASSUME NEW how \in {"off", "unparsable"}, Ends(e, how), d.pc \in {"start", "request"}
      PROVE  WebhookInv'
  <2> DEFINE x == [d EXCEPT !.pc = "done", !.end = how]
  <2>1. delivery' = [delivery EXCEPT ![e] = x]
    BY <1>5 DEF Ends, WebhookInv, WebhookTypeOK
  <2>2. /\ x \in DeliveryState /\ x.pc = "done" /\ x.end = how /\ x.attempt = d.attempt
        /\ x.elapsed = d.elapsed /\ x.source = d.source
    BY <1>1, <1>5 DEF DeliveryState
  <2> HIDE DEF x
  <2>3. Spent(x) = Spent(d)
    BY <1>5, <2>2 DEF Spent
  <2>4. DeliveryOK(x, flight[e], received[e], e \in accepted, log[e])
    BY <1>1, <1>5, <2>2, <2>3 DEF DeliveryOK
  <2> QED BY <1>1, <1>2, <2>1, <2>2, <2>4, OneDelivery
<1>6. ASSUME NEW pc \in {"request", "send"}, delivery' = [delivery EXCEPT ![e].pc = pc],
             d.pc \in {"start", "request"}
      PROVE  WebhookInv'
  <2> DEFINE x == [d EXCEPT !.pc = pc]
  <2>1. delivery' = [delivery EXCEPT ![e] = x]
    BY <1>6 DEF WebhookInv, WebhookTypeOK
  <2>2. /\ x \in DeliveryState /\ x.pc = pc /\ x.end = d.end /\ x.attempt = d.attempt
        /\ x.elapsed = d.elapsed /\ x.source = d.source /\ x.statusCode = d.statusCode
    BY <1>1, <1>6 DEF DeliveryState
  <2> HIDE DEF x
  <2>3. x.attempt = 1 /\ received[e] = 0 /\ flight[e] = -1 /\ log[e] = NotLogged
        /\ (x.source = "publication" => x.elapsed = 0)
    BY <1>1, <1>6, <2>2 DEF DeliveryOK
  <2>4. Spent(x) \in Nat
    BY <2>2, TimeSuffices
  <2>5. DeliveryOK(x, flight[e], received[e], e \in accepted, log[e])
    BY <1>1, <1>6, <2>2, <2>3, <2>4 DEF DeliveryOK
  <2> QED BY <1>1, <1>2, <2>1, <2>2, <2>5, OneDelivery
<1>7. CASE LoadTarget(e)
  BY <1>5, <1>6, <1>7 DEF LoadTarget
<1>8. CASE NewRequest(e)
  BY <1>5, <1>6, <1>8 DEF NewRequest
<1> QED BY <1>4, <1>7, <1>8

(* The request at the receiver, and its loss.                              *)
LEMMA FlightStep ==
    ASSUME WebhookInv, NEW e \in Events, Receive(e) \/ Lose(e)
    PROVE  WebhookInv'
<1> DEFINE d == delivery[e]
<1>1. /\ d \in DeliveryState /\ d.pc = "send"
      /\ received[e] \in Counts /\ log[e] \in LogRow
      /\ DeliveryOK(d, flight[e], received[e], e \in accepted, log[e])
  BY DEF WebhookInv, WebhookTypeOK, Receive, Lose
<1>2. /\ delivery' = [delivery EXCEPT ![e] = d] /\ log' = [log EXCEPT ![e] = log[e]]
  BY DEF WebhookInv, WebhookTypeOK, Receive, Lose
<1>3. d.attempt \in Nat /\ d.attempt <= MaxRetries /\ received[e] \in Nat /\ log[e] = NotLogged
  BY <1>1 DEF DeliveryState, Attempts, MaxRetries, Counts, DeliveryOK
<1>4. CASE Receive(e)
  <2>1. PICK code \in Codes :
           /\ flight' = [flight EXCEPT ![e] = code]
           /\ accepted' = IF code = 200 THEN accepted \cup {e} ELSE accepted
    BY <1>4 DEF Receive
  <2>2. received' = [received EXCEPT ![e] = received[e] + 1] /\ flight[e] = -1
    BY <1>4 DEF Receive
  <2>3. received[e] < d.attempt
    BY <1>1, <2>2 DEF DeliveryOK
  <2>4. received[e] + 1 \in Counts /\ received[e] + 1 <= d.attempt
    BY <1>3, <2>3 DEF Counts, MaxRetries
  <2>5. code # -1 /\ code \in Codes \cup {0, -1}
    BY DEF Codes
  <2>6. code = 200 => e \in accepted'
    BY <2>1
  <2>7. DeliveryOK(d, code, received[e] + 1, e \in accepted', log[e])
    BY <1>1, <1>3, <2>4, <2>5, <2>6 DEF DeliveryOK
  <2>8. accepted' \in {accepted, accepted \cup {e}}
    BY <2>1
  <2> QED BY <1>1, <1>2, <2>1, <2>2, <2>4, <2>5, <2>7, <2>8, OneDelivery
<1>5. CASE Lose(e)
  <2>1. /\ flight' = [flight EXCEPT ![e] = 0] /\ accepted' = accepted
        /\ received' = [received EXCEPT ![e] = received[e]]
    BY <1>5 DEF Lose, WebhookInv, WebhookTypeOK
  <2>2. DeliveryOK(d, 0, received[e], e \in accepted, log[e])
    BY <1>1, <1>3 DEF DeliveryOK
  <2>3. 0 \in Codes \cup {0, -1} /\ (e \in accepted' <=> e \in accepted)
    BY <2>1
  <2>4. DeliveryOK(d, 0, received[e], e \in accepted', log[e])
    BY <2>2, <2>3 DEF DeliveryOK
  <2> QED BY <1>1, <1>2, <2>1, <2>3, <2>4, OneDelivery
<1> QED BY <1>4, <1>5

(* The time is capped by the deadline.                                     *)
LEMMA Capped ==
    ASSUME NEW t \in Nat, NEW k \in Nat, NEW cap \in Nat, cap <= 1200
    PROVE  LET el == IF t + k >= cap THEN cap ELSE t + k
           IN  el \in Nat /\ el \in Times /\ el <= cap /\ el <= t + k
<1> DEFINE el == IF t + k >= cap THEN cap ELSE t + k
<1>1. el \in Nat /\ el <= cap /\ el <= t + k
  OBVIOUS
<1> HIDE DEF el
<1>2. el <= 1200
  BY <1>1
<1> QED BY <1>1, <1>2 DEF el, Times

(* What an attempt makes of the delivery.                                  *)
LEMMA ReturnedState ==
    ASSUME WebhookInv, NEW e \in Events, NEW took \in {0, ClientTimeout}, flight[e] # -1,
           delivery[e].pc = "send"
    PROVE  LET d == delivery[e]
               y == Returned(e, took)
           IN  /\ y \in DeliveryState /\ y.source = d.source /\ y.attempt = d.attempt
               /\ y.end = d.end /\ y.elapsed <= Deadline(y.source)
               /\ y.source = "publication" => y.elapsed <= Waited(d.attempt) + 100 * d.attempt
<1> DEFINE d == delivery[e]
           y == Returned(e, took)
           at == d.elapsed + took
           D == Deadline(d.source)
<1>1. /\ d \in DeliveryState /\ flight[e] \in Codes \cup {0, -1}
      /\ DeliveryOK(d, flight[e], received[e], e \in accepted, log[e])
  BY DEF WebhookInv, WebhookTypeOK
<1>2. d.elapsed \in Nat /\ d.attempt \in Nat /\ D \in {150, 1200} /\ took \in {0, 100} /\ at \in Nat
  <2>1. d.elapsed \in Times /\ d.attempt \in Attempts
    BY <1>1 DEF DeliveryState
  <2>2. took \in {0, 100} /\ D \in {150, 1200}
    BY DEF ClientTimeout, Deadline
  <2>3. d.elapsed \in Nat /\ d.attempt \in Nat
    <3>1. Times \subseteq Nat /\ Attempts \subseteq Nat
      BY DEF Times, Attempts, MaxRetries
    <3> QED BY <2>1, <3>1
  <2>4. took \in Nat
    BY <2>2
  <2>5. at \in Nat
    BY <2>3, <2>4
  <2> QED BY <2>2, <2>3, <2>5
<1> HIDE DEF D
<1> DEFINE el == IF at >= D THEN D ELSE at
           sc == IF flight[e] > 0 /\ ~(at >= D) THEN flight[e] ELSE d.statusCode
<1>3. el \in Nat /\ el \in Times /\ el <= D /\ el <= at
  <2>1. took \in Nat /\ D \in Nat /\ D <= 1200
    BY <1>2
  <2> QED BY <1>2, <2>1, Capped
<1>4. sc \in Codes \cup {0}
  BY <1>1 DEF DeliveryState
<1>5. y = [d EXCEPT !.elapsed = el, !.statusCode = sc]
  BY DEF Returned, D
<1> HIDE DEF el, sc
<1>6. /\ y \in DeliveryState /\ y.source = d.source /\ y.attempt = d.attempt
      /\ y.end = d.end /\ y.elapsed = el
  BY <1>1, <1>3, <1>4, <1>5 DEF DeliveryState
<1>7. d.source = "publication" => d.elapsed <= Waited(d.attempt) + 100 * (d.attempt - 1)
  BY <1>1 DEF DeliveryOK, Spent, ClientTimeout
<1>8. Waited(d.attempt) \in Nat
  BY DEF Waited
<1>9. d.source = "publication" => el <= Waited(d.attempt) + 100 * d.attempt
  <2> DEFINE w == Waited(d.attempt)
             n == d.attempt
             t == d.elapsed
  <2>1. w \in Nat /\ n \in Nat /\ t \in Nat /\ el \in Nat /\ took <= 100 /\ took \in Nat /\ el <= t + took
    BY <1>2, <1>3, <1>8
  <2>2. d.source = "publication" => t <= w + 100 * (n - 1)
    BY <1>7
  <2> HIDE DEF w, n, t
  <2>3. d.source = "publication" => el <= w + 100 * n
    BY <2>1, <2>2
  <2> QED BY <2>3 DEF w, n
<1> HIDE DEF y
<1> QED BY <1>3, <1>6, <1>9 DEF y, D

(* client.Do has returned.                                                 *)
LEMMA AttemptedStep ==
    ASSUME WebhookInv, NEW e \in Events, Attempted(e)
    PROVE  WebhookInv'
<1> DEFINE d == delivery[e]
<1>1. /\ d \in DeliveryState /\ d.pc = "send" /\ flight[e] # -1
      /\ received[e] \in Counts /\ log[e] \in LogRow
      /\ DeliveryOK(d, flight[e], received[e], e \in accepted, log[e])
  BY DEF WebhookInv, WebhookTypeOK, Attempted
<1>2. PICK took \in {0, ClientTimeout} :
        delivery' = [delivery EXCEPT ![e] =
           [Returned(e, took) EXCEPT !.pc =
              IF Success(Returned(e, took), flight[e]) THEN "delivered"
              ELSE IF \/ Permanent(Returned(e, took).statusCode)
                      \/ Returned(e, took).attempt = MaxRetries
              THEN "failed" ELSE "wait"]]
  BY DEF Attempted
<1> DEFINE y == Returned(e, took)
           pc == IF Success(y, flight[e]) THEN "delivered"
                 ELSE IF Permanent(y.statusCode) \/ y.attempt = MaxRetries THEN "failed" ELSE "wait"
           x == [y EXCEPT !.pc = pc]
<1>3. /\ y \in DeliveryState /\ y.source = d.source /\ y.attempt = d.attempt
      /\ y.end = d.end /\ y.elapsed <= Deadline(y.source)
      /\ y.source = "publication" => y.elapsed <= Waited(d.attempt) + 100 * d.attempt
  BY <1>1, ReturnedState
<1>4. delivery' = [delivery EXCEPT ![e] = x]
  BY <1>2
<1>5. pc \in {"delivered", "failed", "wait"}
  OBVIOUS
<1>6. pc = "delivered" => flight[e] = 200
  BY DEF Success
<1>7. pc = "failed" => y.statusCode = 400 \/ y.attempt = MaxRetries
  <2>1. y.statusCode \in Codes \cup {0}
    BY <1>3 DEF DeliveryState
  <2>2. Permanent(y.statusCode) => y.statusCode = 400
    BY <2>1 DEF Permanent, Codes
  <2> QED BY <2>2
<1>8. pc = "wait" => y.attempt # MaxRetries /\ y.statusCode # 400
  BY DEF Permanent
<1> HIDE DEF y, pc
<1>9. /\ x \in DeliveryState /\ x.pc = pc /\ x.end = y.end /\ x.attempt = y.attempt
      /\ x.elapsed = y.elapsed /\ x.source = y.source /\ x.statusCode = y.statusCode
  BY <1>3, <1>5 DEF DeliveryState
<1> HIDE DEF x
<1>10. Spent(x) = Waited(d.attempt) + 100 * d.attempt
  BY <1>3, <1>5, <1>9 DEF Spent, ClientTimeout
<1>11. d.attempt \in Nat /\ d.attempt <= MaxRetries /\ log[e] = NotLogged
  BY <1>1 DEF DeliveryState, Attempts, MaxRetries, DeliveryOK
<1>12. (x.attempt < MaxRetries /\ x.statusCode # 400) \/ pc # "wait"
  BY <1>3, <1>8, <1>9, <1>11 DEF MaxRetries
<1>13. /\ flight' = [flight EXCEPT ![e] = -1] /\ accepted' = accepted
       /\ received' = [received EXCEPT ![e] = received[e]] /\ log' = [log EXCEPT ![e] = log[e]]
       /\ -1 \in Codes \cup {0, -1}
  BY DEF Attempted, WebhookInv, WebhookTypeOK
<1>14. DeliveryOK(x, -1, received[e], e \in accepted', log[e])
  BY <1>1, <1>3, <1>5, <1>6, <1>7, <1>9, <1>10, <1>11, <1>12, <1>13 DEF DeliveryOK
<1> QED BY <1>1, <1>4, <1>9, <1>13, <1>14, OneDelivery

(* The backoff, or the end of the context.                                 *)
LEMMA WaitStep ==
    ASSUME WebhookInv, NEW e \in Events, Wait(e)
    PROVE  WebhookInv'
<1> DEFINE d == delivery[e]
           at == d.elapsed + Backoff[d.attempt]
<1>1. /\ d \in DeliveryState /\ d.pc = "wait" /\ flight[e] \in Codes \cup {0, -1}
      /\ received[e] \in Counts /\ log[e] \in LogRow
      /\ DeliveryOK(d, flight[e], received[e], e \in accepted, log[e])
  BY DEF WebhookInv, WebhookTypeOK, Wait
<1>2. /\ d.elapsed \in Nat /\ d.attempt \in Nat /\ 1 <= d.attempt /\ d.attempt < 5
      /\ received[e] <= d.attempt /\ received[e] \in Nat /\ flight[e] = -1 /\ log[e] = NotLogged
  BY <1>1 DEF DeliveryState, Times, Attempts, MaxRetries, DeliveryOK, Counts
<1>3. Backoff[d.attempt] \in Nat
      /\ Waited(d.attempt + 1) = Waited(d.attempt) + Backoff[d.attempt]
      /\ Waited(d.attempt) \in Nat
  <2>1. Backoff[1] = 1 /\ Backoff[2] = 2 /\ Backoff[3] = 4 /\ Backoff[4] = 8
    BY DEF Backoff
  <2>2. d.attempt \in {1, 2, 3, 4}
    BY <1>2
  <2> QED BY <2>1, <2>2 DEF Waited
<1>4. /\ flight' = [flight EXCEPT ![e] = flight[e]] /\ accepted' = accepted
      /\ received' = [received EXCEPT ![e] = received[e]] /\ log' = [log EXCEPT ![e] = log[e]]
  BY DEF Wait, WebhookInv, WebhookTypeOK
<1>5. d.source = "publication" => at <= Waited(d.attempt + 1) + 100 * d.attempt /\ at < 1200
  <2>1. d.source = "publication" => d.elapsed <= Waited(d.attempt) + 100 * d.attempt
    BY <1>1 DEF DeliveryOK, Spent, ClientTimeout
  <2>2. Waited(d.attempt + 1) <= 15 /\ Waited(d.attempt + 1) \in Nat
    BY <1>2 DEF Waited
  <2> QED BY <1>2, <1>3, <2>1, <2>2
<1>6. CASE at >= Deadline(d.source) /\ Ends(e, "cancelled")
  <2> DEFINE x == [d EXCEPT !.pc = "done", !.end = "cancelled"]
  <2>1. delivery' = [delivery EXCEPT ![e] = x]
    BY <1>6 DEF Ends, WebhookInv, WebhookTypeOK
  <2>2. /\ x \in DeliveryState /\ x.pc = "done" /\ x.attempt = d.attempt
        /\ x.elapsed = d.elapsed /\ x.source = d.source
    BY <1>1 DEF DeliveryState
  <2>3. d.source # "publication"
    BY <1>2, <1>3, <1>5, <1>6 DEF Deadline
  <2> HIDE DEF x
  <2>4. DeliveryOK(x, flight[e], received[e], e \in accepted', log[e])
    BY <1>1, <1>2, <1>4, <2>2, <2>3 DEF DeliveryOK
  <2> QED BY <1>1, <1>4, <2>1, <2>2, <2>4, OneDelivery
<1>7. CASE /\ at <= Deadline(d.source)
           /\ delivery' = [delivery EXCEPT ![e].pc = "send", ![e].elapsed = at,
                                           ![e].attempt = @ + 1]
  <2> DEFINE x == [d EXCEPT !.pc = "send", !.elapsed = at, !.attempt = d.attempt + 1]
  <2>1. delivery' = [delivery EXCEPT ![e] = x]
    BY <1>7 DEF WebhookInv, WebhookTypeOK
  <2>2. at \in Times /\ d.attempt + 1 \in Attempts
    <3>1. Deadline(d.source) \in {150, 1200}
      BY DEF Deadline
    <3>2. at \in Nat /\ at <= 1200
      BY <1>2, <1>3, <1>7, <3>1
    <3> HIDE DEF at
    <3> QED BY <1>2, <3>2 DEF Times, Attempts, MaxRetries
  <2> HIDE DEF at
  <2>3. /\ x \in DeliveryState /\ x.pc = "send" /\ x.attempt = d.attempt + 1
        /\ x.elapsed = at /\ x.source = d.source /\ x.end = d.end /\ x.statusCode = d.statusCode
    BY <1>1, <2>2 DEF DeliveryState
  <2> HIDE DEF x
  <2>4. Spent(x) = Waited(d.attempt + 1) + 100 * d.attempt
    BY <1>2, <2>3 DEF Spent, ClientTimeout
  <2>5. /\ x.elapsed <= Deadline(x.source) /\ received[e] < x.attempt
        /\ x.source = "publication" => x.elapsed <= Spent(x)
    BY <1>2, <1>5, <1>7, <2>3, <2>4
  <2>6. received[e] <= x.attempt
    BY <1>2, <2>3, <2>5
  <2>7. DeliveryOK(x, flight[e], received[e], e \in accepted', log[e])
    BY <1>1, <1>2, <1>4, <2>3, <2>5, <2>6 DEF DeliveryOK
  <2> QED BY <1>1, <1>4, <2>1, <2>3, <2>7, OneDelivery
<1> QED BY <1>6, <1>7 DEF Wait

(* The two ends that write a row.                                          *)
LEMMA RowStep ==
    ASSUME WebhookInv, NEW e \in Events, Delivered(e) \/ GiveUp(e)
    PROVE  WebhookInv'
<1> DEFINE d == delivery[e]
<1>1. /\ d \in DeliveryState /\ received[e] \in Counts
      /\ DeliveryOK(d, flight[e], received[e], e \in accepted, log[e])
  BY DEF WebhookInv, WebhookTypeOK
<1>2. /\ d.statusCode \in Codes \cup {0} /\ d.attempt \in Attempts
  BY <1>1 DEF DeliveryState
<1>3. Attempts \subseteq Counts /\ MaxRetries \in Counts
  BY DEF Attempts, Counts, MaxRetries
<1>4. received[e] <= MaxRetries
  BY <1>1 DEF Counts
<1>5. CASE Delivered(e)
  <2> DEFINE row == [status_code |-> d.statusCode, attempt_count |-> d.attempt, failed |-> FALSE]
  <2>1. row \in LogRow /\ row.failed = FALSE /\ row.attempt_count = d.attempt
    BY <1>2, <1>3 DEF LogRow
  <2>2. Record(e, row) /\ UNCHANGED <<flight, received, accepted>> /\ d.pc = "delivered"
    BY <1>5 DEF Delivered
  <2>3. received[e] <= row.attempt_count /\ e \in accepted
    BY <1>1, <2>1, <2>2 DEF DeliveryOK
  <2> HIDE DEF row
  <2> QED BY <2>1, <2>2, <2>3, RecordStep
<1>6. CASE GiveUp(e)
  <2> DEFINE row == [status_code |-> d.statusCode, attempt_count |-> MaxRetries, failed |-> TRUE]
  <2>1. /\ row \in LogRow /\ row.failed = TRUE /\ row.attempt_count = MaxRetries
        /\ row.status_code = d.statusCode
    BY <1>2, <1>3 DEF LogRow
  <2>2. Record(e, row) /\ UNCHANGED <<flight, received, accepted>> /\ d.pc = "failed"
    BY <1>6 DEF GiveUp
  <2>3. row.status_code = 400 \/ d.attempt = MaxRetries
    BY <1>1, <2>1, <2>2 DEF DeliveryOK
  <2> HIDE DEF row
  <2> QED BY <1>4, <2>1, <2>2, <2>3, RecordStep
<1> QED BY <1>5, <1>6

(* The context of a test ends early.                                       *)
LEMMA DisconnectStep ==
    ASSUME WebhookInv, NEW e \in Events, Disconnect(e)
    PROVE  WebhookInv'
<1> DEFINE d == delivery[e]
           x == [d EXCEPT !.elapsed = Deadline(d.source)]
<1>1. /\ d \in DeliveryState /\ d.source = "test" /\ d.pc # "idle"
      /\ flight[e] \in Codes \cup {0, -1} /\ received[e] \in Counts /\ log[e] \in LogRow
      /\ DeliveryOK(d, flight[e], received[e], e \in accepted, log[e])
  BY DEF WebhookInv, WebhookTypeOK, Disconnect, Running
<1>2. /\ flight' = [flight EXCEPT ![e] = flight[e]] /\ accepted' = accepted
      /\ received' = [received EXCEPT ![e] = received[e]] /\ log' = [log EXCEPT ![e] = log[e]]
  BY DEF Disconnect, WebhookInv, WebhookTypeOK
<1>3. delivery' = [delivery EXCEPT ![e] = x]
  BY DEF Disconnect, WebhookInv, WebhookTypeOK
<1>4. Deadline(d.source) \in Times /\ Deadline(d.source) \in Nat
  BY DEF Deadline, Times
<1>5. /\ x \in DeliveryState /\ x.elapsed = Deadline(d.source) /\ x.source = "test"
      /\ x.pc = d.pc /\ x.attempt = d.attempt /\ x.statusCode = d.statusCode /\ x.end = d.end
  BY <1>1, <1>4 DEF DeliveryState
<1> HIDE DEF x
<1>6. x.elapsed <= Deadline(x.source)
  BY <1>1, <1>4, <1>5
<1>7. DeliveryOK(x, flight[e], received[e], e \in accepted', log[e])
  BY <1>1, <1>2, <1>5, <1>6 DEF DeliveryOK
<1> QED BY <1>1, <1>2, <1>3, <1>5, <1>7, OneDelivery

(* The process stops.                                                      *)
LEMMA CrashStep ==
    ASSUME WebhookInv, Crash
    PROVE  WebhookInv'
<1>1. /\ received' = received /\ accepted' = accepted /\ log' = log
      /\ flight' = [e \in Events |-> -1]
      /\ delivery' = [e \in Events |->
            IF Running(e) THEN [delivery[e] EXCEPT !.pc = "done", !.end = "crashed"]
            ELSE delivery[e]]
  BY DEF Crash
<1>2. ASSUME NEW e \in Events
      PROVE  /\ delivery'[e] \in DeliveryState
             /\ delivery'[e].elapsed <= Deadline(delivery'[e].source)
             /\ DeliveryOK(delivery'[e], -1, received[e], e \in accepted, log[e])
  <2> DEFINE d == delivery[e]
             x == [d EXCEPT !.pc = "done", !.end = "crashed"]
  <2>1. d \in DeliveryState /\ DeliveryOK(d, flight[e], received[e], e \in accepted, log[e])
    BY DEF WebhookInv, WebhookTypeOK
  <2>2. CASE Running(e)
    <3>1. delivery'[e] = x
      BY <1>1, <2>2
    <3>2. /\ x \in DeliveryState /\ x.pc = "done" /\ x.end = "crashed" /\ x.source = d.source
          /\ x.attempt = d.attempt /\ x.elapsed = d.elapsed /\ x.statusCode = d.statusCode
      BY <2>1 DEF DeliveryState
    <3>3. d.pc # "done" /\ d.pc # "idle"
      BY <2>2 DEF Running
    <3>4. log[e] = NotLogged /\ received[e] <= d.attempt
      BY <2>1, <3>3 DEF DeliveryOK
    <3>5. d.source = "publication" => d.elapsed <= Spent(x)
      <4>1. d.elapsed \in Nat /\ d.attempt \in Nat /\ 1 <= d.attempt
        BY <2>1 DEF DeliveryState, Times, Attempts, MaxRetries
      <4>2. Waited(d.attempt) \in Nat
        BY DEF Waited
      <4>3. Spent(x) = Waited(d.attempt) + 100 * d.attempt
        BY <3>2 DEF Spent, ClientTimeout
      <4>4. Spent(d) <= Spent(x)
        BY <4>1, <4>2, <4>3 DEF Spent, ClientTimeout
      <4>5. d.source = "publication" => d.elapsed <= Spent(d)
        BY <2>1 DEF DeliveryOK
      <4>6. Spent(d) \in Nat /\ Spent(x) \in Nat
        BY <2>1, <3>2, TimeSuffices
      <4> QED BY <4>1, <4>4, <4>5, <4>6
    <3> HIDE DEF x
    <3>6. DeliveryOK(x, -1, received[e], e \in accepted, log[e])
      BY <2>1, <3>2, <3>4, <3>5 DEF DeliveryOK
    <3> QED BY <3>1, <3>2, <3>6 DEF DeliveryOK
  <2>3. CASE ~Running(e)
    <3>1. delivery'[e] = d /\ d.pc \in {"idle", "done"}
      BY <1>1, <2>3 DEF Running
    <3>2. flight[e] = -1
      BY <2>1, <3>1 DEF DeliveryOK
    <3> QED BY <2>1, <3>1, <3>2 DEF DeliveryOK
  <2> QED BY <2>2, <2>3
<1>3. WebhookTypeOK'
  <2>1. delivery' \in [Events -> DeliveryState]
    BY <1>1, <1>2
  <2>2. flight' \in [Events -> Codes \cup {0, -1}]
    BY <1>1
  <2> QED BY <1>1, <1>2, <2>1, <2>2 DEF WebhookInv, WebhookTypeOK
<1>4. ASSUME NEW e \in Events
      PROVE  DeliveryOK(delivery'[e], flight'[e], received'[e], e \in accepted', log'[e])
  BY <1>1, <1>2
<1> QED BY <1>3, <1>4 DEF WebhookInv
----------------------------------------------------------------------------
(* The inductive invariant.                                                *)
LEMMA WebhookInvariant == WebhookSpec => []WebhookInv
<1>1. WebhookInit => WebhookInv
  <2> SUFFICES ASSUME WebhookInit PROVE WebhookInv
    OBVIOUS
  <2> DEFINE d == [source |-> "publication", pc |-> "idle", attempt |-> 1,
                   elapsed |-> 0, statusCode |-> 0, end |-> "none"]
  <2>1. 1 \in Attempts /\ 0 \in Times /\ 0 \in Counts
    BY DEF Attempts, Times, Counts, MaxRetries
  <2>2. d \in DeliveryState /\ NotLogged \in LogRow
    BY <2>1 DEF DeliveryState, LogRow, NotLogged
  <2>3. \A e \in Events : /\ delivery[e] = d /\ flight[e] = -1 /\ received[e] = 0
                          /\ log[e] = NotLogged
    BY DEF WebhookInit
  <2>4. WebhookTypeOK
    BY <2>1, <2>2 DEF WebhookInit, WebhookTypeOK, Deadline
  <2>5. Spent(d) \in Nat
    BY <2>2, TimeSuffices
  <2>6. ASSUME NEW e \in Events
        PROVE  DeliveryOK(delivery[e], flight[e], received[e], e \in accepted, log[e])
    <3>1. /\ d.pc = "idle" /\ d.attempt = 1 /\ d.elapsed = 0 /\ d.source = "publication"
          /\ d.end = "none" /\ d.statusCode = 0
      OBVIOUS
    <3> HIDE DEF d
    <3>2. DeliveryOK(d, -1, 0, e \in accepted, NotLogged)
      BY <2>5, <3>1 DEF DeliveryOK, Deadline
    <3> QED BY <2>3, <3>2
  <2> QED BY <2>4, <2>6 DEF WebhookInv
<1>2. WebhookInv /\ [WebhookNext]_webhookVars => WebhookInv'
  <2> SUFFICES ASSUME WebhookInv, [WebhookNext]_webhookVars PROVE WebhookInv'
    OBVIOUS
  <2>1. CASE UNCHANGED webhookVars
    BY <2>1 DEF webhookVars, WebhookInv, WebhookTypeOK
  <2>2. ASSUME NEW e \in Events, Start(e) \/ Receive(e) \/ SendWebhook(e) \/ Disconnect(e)
        PROVE  WebhookInv'
    BY <2>2, StartStep, FlightStep, AttemptedStep, WaitStep, RowStep, DisconnectStep
       DEF SendWebhook
  <2>3. CASE Crash
    BY <2>3, CrashStep
  <2> QED BY <2>1, <2>2, <2>3 DEF WebhookNext
<1> QED BY <1>1, <1>2, PTL DEF WebhookSpec

(* A row of webhook_deliveries is true of the receiver, for any number of  *)
(* deliveries: recordWebhookDelivery is called with what happened.         *)
THEOREM LogTruth == WebhookSpec => []LogIsTruthful
<1>1. WebhookInv => LogIsTruthful
  <2> SUFFICES ASSUME WebhookInv, NEW e \in Events, log[e] # NotLogged
               PROVE  received[e] <= log[e].attempt_count /\ (~log[e].failed => e \in accepted)
    BY DEF LogIsTruthful, Logged
  <2> QED BY DEF WebhookInv, DeliveryOK
<1> QED BY <1>1, WebhookInvariant, PTL

(* SendWebhook gives up only after a rejection or after all its attempts.  *)
THEOREM GivingUp == WebhookSpec => []GivesUpLate
<1>1. WebhookInv => GivesUpLate
  <2> SUFFICES ASSUME WebhookInv, NEW e \in Events, log[e] # NotLogged, log[e].failed
               PROVE  log[e].status_code = 400 \/ delivery[e].attempt = MaxRetries
    BY DEF GivesUpLate, Logged
  <2> QED BY DEF WebhookInv, DeliveryOK
<1> QED BY <1>1, WebhookInvariant, PTL

(* The five attempts of a publication and the waits between them always    *)
(* end before its context does: it is never cancelled.                     *)
NeverCancelled ==
    \A e \in Events : delivery[e].source = "publication" => delivery[e].end # "cancelled"

(* The two minutes of onPublish suffice, whatever times out.               *)
THEOREM EnoughTime == WebhookSpec => [](WebhookTypeOK /\ NeverCancelled)
<1>1. WebhookInv => WebhookTypeOK /\ NeverCancelled
  BY DEF WebhookInv, DeliveryOK, NeverCancelled
<1> QED BY <1>1, WebhookInvariant, PTL

(* An acceptance or a rejection that was read ends the requests: the loop  *)
(* of SendWebhook is left.                                                 *)
THEOREM FinalAnswer == WebhookSpec => AnswerIsFinal
<1>1. ASSUME WebhookInv, [WebhookNext]_webhookVars, NEW e \in Events, received'[e] > received[e]
      PROVE  ~Logged(e) /\ delivery[e].statusCode # 400
  <2>1. received \in [Events -> Counts]
    BY <1>1 DEF WebhookInv, WebhookTypeOK
  <2>2. received[e] \in Nat
    BY <2>1 DEF Counts
  <2>3. ~(received' = received)
    BY <1>1, <2>2
  <2>4. PICK f \in Events : Receive(f)
    BY <1>1, <2>3 DEF webhookVars, WebhookNext, SendWebhook, Start, LoadTarget, NewRequest, Lose, Attempted,
                      Delivered, Wait, GiveUp, Disconnect, Crash
  <2>5. f = e /\ delivery[e].pc = "send"
    BY <1>1, <2>1, <2>2, <2>4 DEF Receive
  <2>6. DeliveryOK(delivery[e], flight[e], received[e], e \in accepted, log[e])
    BY <1>1 DEF WebhookInv
  <2> QED BY <2>5, <2>6 DEF DeliveryOK, Logged
<1>2. WebhookInv /\ [WebhookNext]_webhookVars
      => [\A e \in Events : received'[e] > received[e] =>
             ~Logged(e) /\ delivery[e].statusCode # 400]_webhookVars
  BY <1>1
<1> QED BY <1>2, WebhookInvariant, PTL DEF WebhookSpec, AnswerIsFinal
============================================================================
