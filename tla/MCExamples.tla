---------------------------- MODULE MCExamples ----------------------------
(* The two libraries of examples/, which share nothing, side by side.      *)
EXTENDS Systemcalls, Threading

ExamplesInit == Init /\ InitThreads

ExamplesNext ==
  \/ Next /\ UNCHANGED threadvars
  \/ NextThreads /\ UNCHANGED vars

ExamplesSpec ==
  /\ ExamplesInit
  /\ [][ExamplesNext]_<<vars, threadvars>>
  /\ Fairness /\ FairThreads
=============================================================================
