----------------------------- MODULE MCSbUtils -----------------------------
EXTENDS SbUtils

\* A chip with a chipcommon core, with and without power control, one from
\* before it, and one without the PCI core; and the two that sb_scan's test of
\* an index for truth is about: an EXTIF that is core 0, and none at all.
MCChips ==
  {[cores |-> <<"CC", "DEV", "PCI">>, ccrev |-> 6, pwrctl |-> p, pcirev |-> r] :
      p \in BOOLEAN, r \in {4, 6}}
  \cup {[cores |-> <<"DEV", "PCI", "EXTIF">>, ccrev |-> 0, pwrctl |-> FALSE, pcirev |-> r] : r \in {1, 2}}
  \cup {[cores |-> <<"CC", "DEV">>, ccrev |-> 6, pwrctl |-> TRUE, pcirev |-> 0]}
  \cup {[cores |-> c, ccrev |-> 0, pwrctl |-> FALSE, pcirev |-> 1] :
           c \in {<<"EXTIF", "DEV", "PCI">>, <<"DEV", "PCI">>}}

\* All calls, and all but the three the README tells of.
MCAllCalls == Functions \X Buses
MCCalls ==
  MCAllCalls \ {<<"CLK_SLOW", "PCMCIA">>, <<"sb_corereg", "PCMCIA">>,
                <<"sb_pwrctl_fast_pwrup_delay", "SB">>}
=============================================================================
