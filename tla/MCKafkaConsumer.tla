--------------------------- MODULE MCKafkaConsumer ---------------------------
EXTENDS KafkaConsumer
=============================================================================
