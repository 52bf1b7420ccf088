---------------------------- MODULE MCProcessor ----------------------------
(***************************************************************************)
(* Processor.tla on every file of up to Longest lines, both engines, and   *)
(* chunks of one to Widest lines.                                          *)
(***************************************************************************)
EXTENDS Processor, SequencesExt

CONSTANTS Longest, Widest

MCJobs == [engine : Engines, chunk : 1 .. Widest, lines : BoundedSeq(LineKinds, Longest)]

=============================================================================
