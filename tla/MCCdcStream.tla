----------------------------- MODULE MCCdcStream -----------------------------
(* Instances of CdcStream for TLC. *)
EXTENDS CdcStream

TwoRowsThenOne == <<2, 0, 1>>
OneByOne       == <<1, 1>>
InOrderLsn     == <<1, 2, 3>>
InOrderLsn2    == <<1, 2>>
Interleaved    == <<2, 1>>
==============================================================================
