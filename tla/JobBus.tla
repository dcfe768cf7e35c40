------------------------------- MODULE JobBus -------------------------------
(***************************************************************************)
(* KafkaJobBusService (apps/api/src/modules/jobs/kafka/                    *)
(* kafka-job-bus.service.ts): an in-process bus whose topics are lists of  *)
(* handlers.  Publishing calls the handlers one after the other and awaits *)
(* each; while the broker is simulated offline it appends to a buffer that *)
(* the reconnection dispatches.  The retry topics and the dead-letter      *)
(* topic have no handler anywhere in the program, so an event published on *)
(* them while the bus is online goes nowhere.                              *)
(***************************************************************************)
EXTENDS Naturals, Sequences

VARIABLES kafkaOnline,  \* isKafkaConnected
          buffer,       \* offlineBuffer: its dispatched jobs
          subs          \* the handlers on the topic of the modelled worker type

busVars == <<kafkaOnline, buffer, subs>>

BusTypeOK(Task) ==
  /\ kafkaOnline \in BOOLEAN
  /\ buffer \in Seq(Task)
  /\ subs \in Nat

BusInit ==
  /\ kafkaOnline = TRUE
  /\ buffer = <<>>
  /\ subs = 1

-----------------------------------------------------------------------------
\* Fault variant of Publish: what is published during an outage is dropped.
PublishUnbuffered(event) == UNCHANGED busVars

\* What a publish does to the bus itself; who handles the event is JobSystem's.
Publish(event) ==
  /\ buffer' = IF kafkaOnline THEN buffer
               ELSE Append(buffer, event)
  /\ UNCHANGED <<kafkaOnline, subs>>

\* setKafkaConnected(FALSE).  The loop of setKafkaConnected(TRUE) runs without
\* an await, so an outage cannot begin between two of its dispatches.
GoOffline ==
  /\ kafkaOnline
  /\ buffer = <<>>
  /\ kafkaOnline' = FALSE
  /\ UNCHANGED <<buffer, subs>>

GoOnline ==
  /\ kafkaOnline' = TRUE
  /\ UNCHANGED <<buffer, subs>>

\* One turn of the flush loop: the first buffered event leaves the buffer.
FlushHead ==
  /\ kafkaOnline
  /\ buffer # <<>>
  /\ buffer' = Tail(buffer)
  /\ UNCHANGED <<kafkaOnline, subs>>

\* subscribe appends a handler; nothing ever removes one.
Subscribe ==
  /\ subs' = subs + 1
  /\ UNCHANGED <<kafkaOnline, buffer>>
=============================================================================
