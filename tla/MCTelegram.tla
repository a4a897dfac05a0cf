---------------------------- MODULE MCTelegram ----------------------------
(***************************************************************************)
(* A small instance: every message is of the one channel there is.         *)
(***************************************************************************)
EXTENDS Telegram

ChannelOf(m) == "news"
=============================================================================
