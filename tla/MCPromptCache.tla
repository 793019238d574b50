--------------------------- MODULE MCPromptCache ---------------------------
(* Instances of PromptCache for TLC. *)
EXTENDS PromptCache

CONSTANTS x, y

MCPrompts == {<<x>>, <<y, x>>, <<y, y, y>>}
MCConfs ==
    [unified : {FALSE}, clear : {FALSE}, limit : {0}] \cup
    [unified : {TRUE}, clear : BOOLEAN, limit : {5}]
MCStreams == [unified : {FALSE}, clear : {FALSE}, limit : {5}]
=============================================================================
