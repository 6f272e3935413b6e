------------------------------ MODULE MCReload ------------------------------
(***************************************************************************)
(* Two savers, two requests and one session, two of them in progress at a  *)
(* time, and any number of crashes.                                        *)
(***************************************************************************)
EXTENDS Reload

CONSTANTS byName, byID, h4, h8, junk

Found0 == {NoFile, [settings |-> [sources |-> byName, ttl |-> junk], token |-> FALSE]}

Edits0 ==
  {[sources |-> byName, ttl |-> None], [sources |-> byID, ttl |-> None],
   [sources |-> None, ttl |-> h8]}

=============================================================================
