----------------------------- MODULE MCProducers -----------------------------
(* Small instances of Producers. *)
EXTENDS Producers

AllClients == {"kafka", "redis", "nats", "rabbitmq"}

=============================================================================
