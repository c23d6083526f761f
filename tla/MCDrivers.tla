------------------------------- MODULE MCDrivers -------------------------------
(***************************************************************************)
(* An instance of Drivers for TLC.                                         *)
(***************************************************************************)
EXTENDS Drivers, TLC

CONSTANTS i1

Small == [power |-> "running", disk |-> 1]
Big   == [power |-> "stopped", disk |-> 2]

TwoManifests == {Small, Big}
================================================================================
