--------------------------- MODULE MCBStationBoard ---------------------------
(* One list has one video of two.  A count that was read is 1, one that was *)
(* not is -2: a video has risen, has not, is new, or has no count to show.  *)
EXTENDS BStationBoard

NotSet == {-2}
=============================================================================
