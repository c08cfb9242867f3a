--------------------------- MODULE MCAnswerPages ---------------------------
(* AnswerPages: its small instance needs no definitions of its own.        *)
EXTENDS AnswerPages
=============================================================================
