------------------------------- MODULE MCLog -------------------------------
(* Log for TLC: four lines of two LOG_INFOs, one of them above 4, the level of config.ini. *)
EXTENDS Log, TLC

MCSites == {"accept", "epoll"}
MCTexts == {"error", "other"}
MCLines == {[site |-> "accept", level |-> 3, text |-> "error"],
            [site |-> "accept", level |-> 3, text |-> "other"],
            [site |-> "epoll", level |-> 6, text |-> "other"],
            [site |-> "epoll", level |-> 2, text |-> "error"]}
=============================================================================
