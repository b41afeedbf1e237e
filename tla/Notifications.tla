---------------------------- MODULE Notifications ----------------------------
(***************************************************************************)
(* internal/notifications: the endpoints of an organization and what was   *)
(* sent to them.  The event bus hands over an event until the handler      *)
(* returns; each matching endpoint is sent to in turn and the outcome is   *)
(* recorded.  Failed deliveries may be sent again by a sweep, which the    *)
(* server itself does not start.                                           *)
(***************************************************************************)
EXTENDS Caller, Naturals, FiniteSets

CONSTANTS Endpoint, NotifyEvent,     \* ids of endpoints, events of the outbox
          MaxSendAttempts,            \* maxAttempts
          MaxDeliveries, MaxNotifyRequests, MaxNotifyFaults  \* bounds

ASSUME NotifyAssumption ==
    /\ Endpoint # {} /\ NotifyEvent # {} /\ MaxSendAttempts \in Nat \ {0}
    /\ MaxDeliveries \in Nat /\ MaxNotifyRequests \in Nat /\ MaxNotifyFaults \in Nat

VARIABLES endpoint,    \* notification_endpoints
          delivery, issued,  \* notification_deliveries and how many there ever were
          pendingEvents, handledEvents,  \* the outbox
          notifying,   \* the handler: its event and the endpoints left
          retrying,    \* RetryFailed: the deliveries it listed and the one it has sent
          sent, uncounted,  \* per delivery: the messages that went out, and those its row does not count
          editing,     \* UpdateEndpoint between its read and its write
          listed,      \* the endpoints the last run of the handler listed for each event
          unrecorded,  \* sends whose outcome could not be recorded
          notifyAsked, notifyFaults  \* bounds

notifyVars == <<endpoint, delivery, issued, pendingEvents, handledEvents, notifying, retrying, editing, listed, unrecorded, sent, uncounted, notifyAsked, notifyFaults>>

NotificationEndpoint == [live : BOOLEAN, used : BOOLEAN, enabled : BOOLEAN, events : SUBSET NotifyEvent]
NoEndpoint == [live |-> FALSE, used |-> FALSE, enabled |-> FALSE, events |-> {}]
LiveEndpoint(on, events) == [live |-> TRUE, used |-> TRUE, enabled |-> on, events |-> events]
NotificationDelivery == [to : Endpoint, event : NotifyEvent \cup {"notification.test"}, status : {"failed", "delivered"}, attempts : 1 .. MaxSendAttempts + 1]
Rows == DOMAIN delivery
NotifyIdle == [pc |-> "idle", event |-> CHOOSE v \in NotifyEvent : TRUE, left |-> {}]
NoDelivery == [to |-> CHOOSE e \in Endpoint : TRUE, event |-> "notification.test", status |-> "failed", attempts |-> 1]
SweepIdle == [pc |-> "idle", left |-> {}, id |-> 0, row |-> NoDelivery]
EditIdle == [pc |-> "idle", id |-> CHOOSE e \in Endpoint : TRUE, row |-> NoEndpoint]

\* Endpoints, deliveries and the handler are well formed.
NotifyTypeOK ==
    /\ endpoint \in [Endpoint -> NotificationEndpoint]
    /\ issued \in 0 .. MaxDeliveries /\ Rows \subseteq 1 .. issued /\ delivery \in [Rows -> NotificationDelivery]
    /\ pendingEvents \subseteq NotifyEvent /\ handledEvents \subseteq NotifyEvent
    /\ notifying \in [pc : {"idle", "deliver"}, event : NotifyEvent, left : SUBSET Endpoint]
    /\ retrying \in [pc : {"idle", "send", "mark"}, left : SUBSET [id : 1 .. issued, row : NotificationDelivery],
                    id : 0 .. issued, row : NotificationDelivery]
    /\ sent \in [1 .. MaxDeliveries -> Nat] /\ uncounted \in [1 .. MaxDeliveries -> Nat]
    /\ editing \in [pc : {"idle", "write"}, id : Endpoint, row : NotificationEndpoint]
    /\ listed \in [NotifyEvent -> SUBSET Endpoint] /\ unrecorded \subseteq Endpoint \X NotifyEvent
    /\ notifyAsked \in 0 .. MaxNotifyRequests /\ notifyFaults \in 0 .. MaxNotifyFaults

NotifyInit ==
    /\ endpoint \in [Endpoint -> {NoEndpoint, LiveEndpoint(TRUE, {})}]
    /\ delivery = <<>> /\ issued = 0 /\ pendingEvents = {} /\ handledEvents = {}
    /\ notifying = NotifyIdle /\ retrying = SweepIdle /\ editing = EditIdle
    /\ sent = [d \in 1 .. MaxDeliveries |-> 0] /\ uncounted = [d \in 1 .. MaxDeliveries |-> 0]
    /\ listed = [v \in NotifyEvent |-> {}] /\ unrecorded = {} /\ notifyAsked = 0 /\ notifyFaults = 0

endpointsSame == UNCHANGED <<endpoint, editing>>
countsSame == UNCHANGED <<sent, uncounted>>
busSame == UNCHANGED <<pendingEvents, handledEvents, notifying, listed>>

-----------------------------------------------------------------------------
(* Rows *)

ListEndpoints == {e \in Endpoint : endpoint[e].live}
\* No filter means every event.
matchesEvents(e, v) == endpoint[e].events = {} \/ v \in endpoint[e].events
WithDelivery(id, row) == [d \in Rows \cup {id} |-> IF d = id THEN row ELSE delivery[d]]
\* A delivery belongs to an endpoint that exists; its row is written once its message went out.
InsertDelivery(row) ==
    /\ endpoint[row.to].live /\ issued < MaxDeliveries /\ issued' = issued + 1
    /\ delivery' = WithDelivery(issued + 1, row)
    /\ sent' = [sent EXCEPT ![issued + 1] = 1] /\ UNCHANGED uncounted
NoInsert == UNCHANGED <<delivery, issued>> /\ countsSame
\* Mutant: the cap is off by one.
ListFailedUpTo == {d \in Rows : delivery[d].status = "failed" /\ delivery[d].attempts <= MaxSendAttempts}
ListFailed == {d \in Rows : delivery[d].status = "failed" /\ delivery[d].attempts < MaxSendAttempts}
MarkRetry(id, row) == UNCHANGED issued /\ delivery' = IF id \in Rows THEN [delivery EXCEPT ![id] = row] ELSE delivery

-----------------------------------------------------------------------------
(* The handler of events *)

Publish(v) ==
    /\ v \notin pendingEvents \cup handledEvents /\ pendingEvents' = pendingEvents \cup {v}
    /\ endpointsSame /\ countsSame /\ UNCHANGED <<delivery, issued, handledEvents, notifying, retrying, listed, unrecorded, notifyAsked, notifyFaults>>
Handle(v) ==
    /\ v \in pendingEvents /\ notifying.pc = "idle"
    /\ LET targets == {e \in ListEndpoints : endpoint[e].enabled /\ matchesEvents(e, v)}
       IN notifying' = [pc |-> "deliver", event |-> v, left |-> targets] /\ listed' = [listed EXCEPT ![v] = targets]
    /\ endpointsSame /\ countsSame /\ UNCHANGED <<delivery, issued, pendingEvents, handledEvents, retrying, unrecorded, notifyAsked, notifyFaults>>
Send == {"failed", "delivered"}
Told(e) == notifying' = [notifying EXCEPT !.left = @ \ {e}]
\* The row cannot be written; a table that has reached the model's bound counts for that too.
RecordFails ==
    \/ notifyFaults < MaxNotifyFaults /\ notifyFaults' = notifyFaults + 1
    \/ issued = MaxDeliveries /\ UNCHANGED notifyFaults
\* Mutant: the first failure ends the event.
deliverStops(e) ==
    /\ \/ \E status \in Send :
             /\ InsertDelivery([to |-> e, event |-> notifying.event, status |-> status, attempts |-> 1])
             /\ notifying' = [notifying EXCEPT !.left = IF status = "failed" THEN {} ELSE @ \ {e}] /\ UNCHANGED <<unrecorded, notifyFaults>>
       \/ ~endpoint[e].live /\ Told(e) /\ NoInsert /\ UNCHANGED <<unrecorded, notifyFaults>>
    /\ endpointsSame /\ UNCHANGED <<pendingEvents, handledEvents, retrying, listed, notifyAsked>>
\* The outcome is recorded, whatever it was; what cannot be recorded is logged.
deliver(e) ==
    /\ \/ \E status \in Send :
             /\ InsertDelivery([to |-> e, event |-> notifying.event, status |-> status, attempts |-> 1])
             /\ Told(e) /\ UNCHANGED <<unrecorded, notifyFaults>>
       \/ ~endpoint[e].live /\ Told(e) /\ NoInsert /\ UNCHANGED <<unrecorded, notifyFaults>>
       \/ /\ RecordFails /\ Told(e) /\ unrecorded' = unrecorded \cup {<<e, notifying.event>>} /\ NoInsert
    /\ endpointsSame /\ UNCHANGED <<pendingEvents, handledEvents, retrying, listed, notifyAsked>>
\* Mutant: a failed send fails the event, which is handed over again.
HandleFails ==
    /\ notifying.pc = "deliver" /\ notifying.left = {} /\ notifying' = NotifyIdle
    /\ LET failed == \E d \in Rows : delivery[d].event = notifying.event /\ delivery[d].status = "failed"
       IN IF failed THEN UNCHANGED <<pendingEvents, handledEvents>>
          ELSE pendingEvents' = pendingEvents \ {notifying.event} /\ handledEvents' = handledEvents \cup {notifying.event}
    /\ endpointsSame /\ countsSame /\ UNCHANGED <<delivery, issued, retrying, listed, unrecorded, notifyAsked, notifyFaults>>
\* The bus takes the return for the end of the event: a failed send is not its business.
HandleReturns ==
    /\ notifying.pc = "deliver" /\ notifying.left = {} /\ notifying' = NotifyIdle
    /\ pendingEvents' = pendingEvents \ {notifying.event} /\ handledEvents' = handledEvents \cup {notifying.event}
    /\ endpointsSame /\ countsSame /\ UNCHANGED <<delivery, issued, retrying, listed, unrecorded, notifyAsked, notifyFaults>>
\* What a sweep has sent and not yet marked stays uncounted.
Uncounted == uncounted' = IF retrying.pc = "mark" THEN [uncounted EXCEPT ![retrying.id] = @ + 1] ELSE uncounted
\* The process stops: the bus hands the event over again, from the first endpoint on, and
\* the sweep is over.
HandlerCrashes ==
    /\ notifying.pc # "idle" \/ retrying.pc # "idle"
    /\ notifyFaults < MaxNotifyFaults /\ notifyFaults' = notifyFaults + 1
    /\ notifying' = NotifyIdle /\ retrying' = SweepIdle /\ editing' = EditIdle /\ Uncounted
    /\ UNCHANGED <<endpoint, delivery, issued, pendingEvents, handledEvents, listed, unrecorded, sent, notifyAsked>>
HandlerStep == (\E v \in NotifyEvent : Handle(v)) \/ (\E e \in notifying.left : deliver(e)) \/ HandleReturns

-----------------------------------------------------------------------------
(* The sweep *)

RetryFailed ==
    /\ retrying.pc = "idle" /\ ListFailed # {}
    /\ retrying' = [SweepIdle EXCEPT !.pc = "send", !.left = {[id |-> d, row |-> delivery[d]] : d \in ListFailed}]
    /\ endpointsSame /\ busSame /\ countsSame /\ UNCHANGED <<delivery, issued, unrecorded, notifyAsked, notifyFaults>>
After(left) == IF left = {} THEN SweepIdle ELSE [SweepIdle EXCEPT !.pc = "send", !.left = left]
\* Oldest first; the endpoint is read now, the delivery was read with the list; a disabled
\* endpoint is sent to as well.  Nothing of the message is written yet.
RetrySend(x) ==
    /\ retrying.pc = "send" /\ x \in retrying.left /\ \A y \in retrying.left : x.id <= y.id
    /\ \/ ~endpoint[x.row.to].live /\ retrying' = After(retrying.left \ {x}) /\ UNCHANGED sent
       \/ /\ endpoint[x.row.to].live /\ sent' = [sent EXCEPT ![x.id] = @ + 1]
          /\ \E status \in Send :
                retrying' = [pc |-> "mark", left |-> retrying.left \ {x}, id |-> x.id,
                             row |-> [x.row EXCEPT !.status = status, !.attempts = @ + 1]]
    /\ endpointsSame /\ busSame /\ UNCHANGED <<delivery, issued, unrecorded, uncounted, notifyAsked, notifyFaults>>
\* The outcome is written over the row, or it is lost with the call: that is logged, and the
\* sweep goes on to the next.
RetryMark ==
    /\ retrying.pc = "mark" /\ retrying' = After(retrying.left)
    /\ \/ MarkRetry(retrying.id, retrying.row) /\ UNCHANGED <<uncounted, notifyFaults>>
       \/ /\ notifyFaults < MaxNotifyFaults /\ notifyFaults' = notifyFaults + 1
          /\ Uncounted /\ UNCHANGED <<delivery, issued>>
    /\ endpointsSame /\ busSame /\ UNCHANGED <<unrecorded, sent, notifyAsked>>

-----------------------------------------------------------------------------
(* Endpoints *)

notifySame == busSame /\ UNCHANGED <<retrying, unrecorded, notifyFaults>>
CreateEndpoint(e) ==
    /\ ~endpoint[e].used
    /\ \E on \in BOOLEAN, events \in SUBSET NotifyEvent : endpoint' = [endpoint EXCEPT ![e] = LiveEndpoint(on, events)]
    /\ notifySame /\ countsSame /\ UNCHANGED <<delivery, issued, editing>>
UpdateEndpoint(e) ==
    /\ endpoint[e].live /\ editing.pc = "idle"
    /\ \E on \in BOOLEAN, events \in SUBSET NotifyEvent :
          editing' = [pc |-> "write", id |-> e, row |-> [endpoint[e] EXCEPT !.enabled = on, !.events = events]]
    /\ notifySame /\ countsSame /\ UNCHANGED <<endpoint, delivery, issued>>
UpdateEndpointRow ==
    /\ editing.pc = "write" /\ editing' = EditIdle /\ notifySame /\ countsSame /\ UNCHANGED <<delivery, issued, notifyAsked>>
    /\ endpoint' = IF endpoint[editing.id].live THEN [endpoint EXCEPT ![editing.id] = editing.row] ELSE endpoint
\* The deliveries of the endpoint go with it.
DeleteEndpoint(e) ==
    /\ endpoint[e].live /\ endpoint' = [endpoint EXCEPT ![e].live = FALSE]
    /\ LET kept == {d \in Rows : delivery[d].to # e} IN delivery' = [d \in kept |-> delivery[d]]
    /\ notifySame /\ countsSame /\ UNCHANGED <<issued, editing>>
\* A message out of turn, recorded like the others, whether the endpoint is enabled or not.
TestEndpoint(e) ==
    /\ endpoint[e].live /\ notifySame /\ endpointsSame
    /\ \E status \in Send : InsertDelivery([to |-> e, event |-> "notification.test", status |-> status, attempts |-> 1])

authorizeNotifications(u) ==
    Authorized(u, "tenant_notifications_manage") /\ notifyAsked < MaxNotifyRequests /\ notifyAsked' = notifyAsked + 1
createEndpoint(u, e) == authorizeNotifications(u) /\ CreateEndpoint(e)
updateEndpoint(u, e) == authorizeNotifications(u) /\ UpdateEndpoint(e)
deleteEndpoint(u, e) == authorizeNotifications(u) /\ DeleteEndpoint(e)
testEndpoint(u, e) == authorizeNotifications(u) /\ TestEndpoint(e)

NotifyNext ==
    \/ HandlerStep \/ HandlerCrashes \/ RetryFailed \/ RetryMark \/ UpdateEndpointRow
    \/ \E x \in retrying.left : RetrySend(x)
    \/ \E v \in NotifyEvent : Publish(v)
    \/ \E u \in User, e \in Endpoint : createEndpoint(u, e) \/ updateEndpoint(u, e) \/ deleteEndpoint(u, e) \/ testEndpoint(u, e)

-----------------------------------------------------------------------------
(* Properties *)

\* When an event counts as handled, every endpoint that was to hear of it and still exists
\* has a delivery to show for it, failed or not, also when an earlier endpoint failed and
\* when the process stopped halfway.
HandledIsRecorded ==
    \A v \in handledEvents : \A e \in listed[v] :
       endpoint[e].live /\ <<e, v>> \notin unrecorded => \E d \in Rows : delivery[d].to = e /\ delivery[d].event = v

\* No delivery goes out more often than the cap, over any number of sweeps that
\* follow one another, but for the sends whose outcome was lost before it reached the row,
\* once each: the row of such a send still has its old count, and the next sweep sends again.
AttemptsCapped == \A d \in Rows : sent[d] <= MaxSendAttempts + uncounted[d]

\* An event never waits for an endpoint: it is handled although sends fail.
EventsAreHandled == \A v \in NotifyEvent : []<>(v \notin pendingEvents)
=============================================================================
