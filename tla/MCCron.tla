------------------------------- MODULE MCCron -------------------------------
(* Cron for small firms: tasks due from the start, a heartbeat at every    *)
(* time, briefing and chase at the first.                                  *)
EXTENDS Cron

CONSTANTS f1, f2, t1, t2, c1, c2

MCFirmOf == [x \in Tasks \cup Clients |-> IF x \in Tasks THEN f1 ELSE f2]
MCCreatedAt == [f \in Firms |-> IF f = f1 THEN 0 ELSE 1]
MCDueAt == [t \in Tasks |-> 0]
MCFiresAt == [k \in Kinds |-> IF k = "heartbeat" THEN 1..Horizon ELSE {1}]
=============================================================================
