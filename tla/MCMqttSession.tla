--------------------------- MODULE MCMqttSession ---------------------------
EXTENDS MqttSessionProperties
=============================================================================
