-------------------------------- MODULE MCWAL --------------------------------
(* WAL on a small instance. *)
EXTENDS WAL

\* Three records of different lengths, one longer than a digit can say.  Their
\* digits are 2 and 3: read as a length, two of them are 10 or more.
Texts == <<<<2>>, <<3, 2>>, <<2, 3, 3, 2, 3>>>>
ASSUME TextsDiffer == RecordsDiffer
=============================================================================
