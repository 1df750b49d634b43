------------------------------- MODULE MCMQTT -------------------------------
(***************************************************************************)
(* TLC instances of MQTTSystem.                                            *)
(***************************************************************************)
EXTENDS MQTTSystem

AllKinds == {"connect", "subscribe", "unsubscribe", "publish", "disconnect"}
PublishKinds == {"connect", "publish", "disconnect"}
SafetyKinds == AllKinds \cup {"yield"}
SubscribeKinds == {"connect", "subscribe", "unsubscribe"}
SessionKinds == {"connect", "disconnect"}
=============================================================================
