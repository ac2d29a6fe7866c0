------------------------------- MODULE MCCodecs -------------------------------
(* An instance of Codecs with short words and two strings.                  *)
EXTENDS Codecs

CONSTANT hello

MCNumbers == -6 .. 17
MCStrings == {Nothing, hello}
MCRssi == -4
===============================================================================
