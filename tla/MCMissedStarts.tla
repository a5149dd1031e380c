--------------------------- MODULE MCMissedStarts ---------------------------
(***************************************************************************)
(* One cron of each kind: dense, sparse, without a next start, refused by  *)
(* the parser, and "@every 2s" and "@every 3s".                            *)
(***************************************************************************)
EXTENDS MissedStarts

Later == 99

MCSchedule == {"each", "odd", "ends", "never", "bad", "delay2", "delay3"}
MCParseable == MCSchedule \ {"bad"}

MCFires == [s \in MCSchedule |->
              CASE s = "each" -> 1..8 \cup {Later}
                [] s = "odd"  -> {1, 3, 6, 8, Later}
                [] s = "ends" -> {2}
                [] OTHER      -> {}]

MCEvery == [s \in MCSchedule |->
              CASE s = "delay2" -> 2 [] s = "delay3" -> 3 [] OTHER -> 0]

MCDeadlines == {-1, 0, 1, 2, 4}
MCZeroTime == -1
=============================================================================
