---------------------------- MODULE MCDemuxFiles ----------------------------
(* Instances of DemuxFiles for TLC: units of four bytes, blocks of two units. *)
EXTENDS DemuxFiles, TLC

\* A WAV beside a TrueHD track: the pair, and the half without the core
Only(t, kinds, wav) == [track |-> t, takes |-> kinds, wav |-> wav]
WavAndHalves == <<Only(1, Kinds, TRUE), Only(2, Kinds, FALSE), Only(2, {"rest"}, FALSE)>>
=============================================================================
