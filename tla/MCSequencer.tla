---------------------------- MODULE MCSequencer ----------------------------
(***************************************************************************)
(* A small sequencer: six numbers, two records, three slots, so that the   *)
(* rings wrap at different times, records are reused while slots point to  *)
(* them, and numbers are skipped, repeated, late and too late; and a clock *)
(* long enough for the same packet to be asked for before and after the    *)
(* threshold.  Packets need no names of their own: the age of an entry of  *)
(* the window tells the records apart.                                     *)
(***************************************************************************)
EXTENDS Sequencer

\* One number, or two in a row.
MCNackLists == {{0}, {1, 2}}
=============================================================================
