---------------------------- MODULE MCWebClient ----------------------------
(***************************************************************************)
(* Two cards, three sockets, and as many swipes and undos as it takes to   *)
(* lose one, have it asked again and take one back.                        *)
(***************************************************************************)
EXTENDS WebClient

=============================================================================
