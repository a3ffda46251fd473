--------------------------- MODULE MCPgScheduler ---------------------------
(***************************************************************************)
(* A small instance of PgScheduler: one leader, two cron expressions.      *)
(***************************************************************************)
EXTENDS PgScheduler, TLC

CONSTANTS r1, hourly, daily

OneLeader == {r1}
TwoCrons == {hourly, daily}

AnyCron == Permutations(TwoCrons)
=============================================================================
