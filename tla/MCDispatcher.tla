---- MODULE MCDispatcher ----
(* Small instances of the dispatcher for TLC. *)
EXTENDS Dispatcher

CONSTANTS t1, t2, t3

TwoTasks   == {t1, t2}
ThreeTasks == {t1, t2, t3}
NoWedge    == {}
OneWedge   == {t1}

====
