----------------------------- MODULE MCConsumers -----------------------------
(* Small instances of Consumers. *)
EXTENDS Consumers

AllClients == {"kafka", "redis", "waiting", "nats", "rabbitmq"}

=============================================================================
