----------------------------- MODULE MCTransports -----------------------------
(* Instances of Transports: one kind at a time, two tasks.                  *)
EXTENDS Transports

CONSTANTS t1, t2
===============================================================================
