------------------------------- MODULE MCSDIO -------------------------------
(***************************************************************************)
(* TLC instances of SDIOBus.                                               *)
(***************************************************************************)
EXTENDS SDIOBus

\* enumerate sends the commands and the probes, and a write is a read without the
\* copy
ReadKinds == {"read"}

=============================================================================
