---------------------------- MODULE MCVpaUpdater ----------------------------
(* An interval of three units, a startup of two units and runs of up to    *)
(* ten units: together with the up to one interval before the first tick,  *)
(* the longest startup and run the five-interval health timeout tolerates. *)
EXTENDS VpaUpdater
=============================================================================
