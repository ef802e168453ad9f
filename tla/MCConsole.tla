---------------------------- MODULE MCConsole ----------------------------
(***************************************************************************)
(* Console with commands of one and two characters.                        *)
(***************************************************************************)
EXTENDS Console

MCExit == <<97, 97>>
MCClear == <<97>>
MCPrint == <<65>>
==========================================================================
