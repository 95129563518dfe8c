--------------------------- MODULE MCBotRequests ----------------------------
(* BotRequests on a small instance. *)
EXTENDS BotRequests, TLC

CONSTANTS o1, p1, p2, u1, t1, t2

OneOrg == {o1}
OnePost == {p1}
OneUserbot == {u1}
TwoTasks == {t1, t2}
=============================================================================
