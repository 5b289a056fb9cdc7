-------------------------- MODULE MCFilterPipeline --------------------------
(* Instances of FilterPipeline for TLC. *)
EXTENDS FilterPipeline

\* Filters with one role, and one that has them all, as ActionFilterAttribute and
\* RabbitService do.
HostRoleSetsValue == {{"init"}, {"sync"}, {"binding", "sync", "async"}}
ClientRoleSetsValue == {{"init"}, {"sync"}, {"async"}, {"received"}}
=============================================================================
