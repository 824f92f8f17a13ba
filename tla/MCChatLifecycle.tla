---------------------------- MODULE MCChatLifecycle ----------------------------
(* Two topics and two senders; initialize is called up to three times.           *)
EXTENDS ChatLifecycle, TLC

MCTopics == <<"chat_events", "operator_events">>
================================================================================
