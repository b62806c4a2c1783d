------------------------------ MODULE MCTrack --------------------------------
(* Track, with the invariant its proof rests on, for TLC.                   *)
EXTENDS TrackProofs
==============================================================================
