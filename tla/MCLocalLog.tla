----------------------------- MODULE MCLocalLog -----------------------------
(* Instantiates LocalLog for TLC: appenders and a reader on one log.       *)
EXTENDS LocalLog

CONSTANTS a1, a2, r1

MCAppenders == {a1, a2}
MCReaders   == {r1}
MCOneAppender == {a1}
=============================================================================
