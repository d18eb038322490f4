----------------------------- MODULE MCShutdown -----------------------------
(* Shutdown for TLC: three keys of config.ini, and a value that holds the word of another. *)
EXTENDS Shutdown, TLC

MCKeys == <<"Version", "LogLevel", "MySqlDbName">>
MCWritten == [k \in KeyWords |-> CASE k = "Version" -> <<"1", ".", "0">> [] k = "LogLevel" -> <<"4">>
                                   [] OTHER -> <<"LogLevel", "s">>]
=============================================================================
