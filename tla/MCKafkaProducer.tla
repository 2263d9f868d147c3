--------------------------- MODULE MCKafkaProducer ---------------------------
EXTENDS KafkaProducer, TLC

\* local_queue_retry_backoff_seconds * (2 ** retries_used)
Doubling == [n \in 0 .. RetryAttempts |-> 2 ^ n]
==============================================================================
