----------------------------- MODULE MCUpgrade -------------------------------
(***************************************************************************)
(* An instance of Upgrade for TLC.                                         *)
(***************************************************************************)
EXTENDS Upgrade

\* Descriptors of one to five digits, as wide as the buffer is made for.
SampleFds == {<<3, 10>>, <<9, 100>>, <<99999, 90000>>}

\* The text of these descriptors fits its buffer and reads back (the lemma TextReads).
ASSUME TextSample == TextReadBack
==============================================================================
