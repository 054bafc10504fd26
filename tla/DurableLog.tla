----------------------------- MODULE DurableLog -----------------------------
(***************************************************************************)
(* What a persistent store promises: a log that only grows, of which a     *)
(* prefix is durable.  The end of its process takes back what is not       *)
(* durable and nothing else.                                               *)
(***************************************************************************)
EXTENDS Integers, Sequences

VARIABLES log, kept      \* kept: the length of the durable prefix

logVars == <<log, kept>>

LogInit == log = <<>> /\ kept = 0

Extend ==
  /\ Len(log') > Len(log) /\ SubSeq(log', 1, Len(log)) = log
  /\ kept' = kept

Keep == kept' = Len(log) /\ log' = log

TakeBack == log' = SubSeq(log, 1, kept) /\ kept' = kept

LogNext == Extend \/ Keep \/ TakeBack

LogSpec == LogInit /\ [][LogNext]_logVars
=============================================================================
