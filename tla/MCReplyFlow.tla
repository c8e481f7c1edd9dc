---------------------------- MODULE MCReplyFlow ----------------------------
(* Small trees of runs for TLC. *)
EXTENDS ReplyFlow

CONSTANTS c, d

Siblings == [k \in {c, d} |-> Root]
One == [k \in {c} |-> Root]
=============================================================================
