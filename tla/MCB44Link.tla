----------------------------- MODULE MCB44Link -----------------------------
(***************************************************************************)
(* Instances of B44Link for TLC.                                           *)
(***************************************************************************)
EXTENDS B44Link

\* A partner that will send pause frames only, and one that does not do full
\* duplex at 100 Mbps.
MCPartners ==
  {[modes |-> Modes, pause |-> {"ASYM"}], [modes |-> {"10F", "100H"}, pause |-> {"CAP"}]}

\* ethtool -s with a forced mode, and with bits that b44_set_settings takes for
\* modes.
MCSettings ==
  {[auto |-> FALSE, advertising |-> {}, mode |-> "10F"],
   [auto |-> TRUE, advertising |-> {"Autoneg", "TP"}, mode |-> "10H"]}

MCMcLists == {<<>>, <<"g2", "g1">>}
=============================================================================
