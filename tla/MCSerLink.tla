----------------------------- MODULE MCSerLink ------------------------------
(***************************************************************************)
(* Finite instances of SerLink: block numbers modulo 3, sessions of three  *)
(* or four requests, and lines that lose and damage some of the tokens.    *)
(***************************************************************************)
EXTENDS SerLinkProps

MCNoFaults == {}
MCAnswerFaults == {"lose_answer"}
MCCalls == {"call", "bye"}
=============================================================================
