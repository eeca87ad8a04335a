---------------------------- MODULE MCWebserver -----------------------------
(***************************************************************************)
(* Small instances of Webserver: the client's run and another one of the   *)
(* same workflow, under another name.                                      *)
(***************************************************************************)
EXTENDS Webserver

CONSTANTS cid, mine, other

MCCid == [s \in RunClient |-> cid]
MCName == [s \in RunClient |-> mine]
MCOtherRun == {<<cid, other>>}
=============================================================================
