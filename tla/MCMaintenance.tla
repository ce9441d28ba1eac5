--------------------------- MODULE MCMaintenance ----------------------------
(* Requests for TLC: all jobs in the default order, or a single one.            *)
EXTENDS Maintenance, TLC

CONSTANTS publish, purge

BothJobs == {publish, purge}
AllRequests == {<<publish, purge>>, <<publish>>, <<purge>>}
=============================================================================
