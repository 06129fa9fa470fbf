\* ConnectCommand under any order of its calls, with the ledger and
\* LinkManager changing in between.  NEGO_CHANNEL_NULL stands for every
\* negoChannel type other than AUTH and COC; two link generations let a link
\* be replaced.  The run ends in a violation of PreferredChannelIsCurrent.
CONSTANTS
    NegoTypes = {"NEGO_CHANNEL_AUTH", "NEGO_CHANNEL_COC", "NEGO_CHANNEL_NULL"}
    MaxLinkGen = 2
SPECIFICATION Spec
PROPERTY PreferredChannelIsCurrent
CHECK_DEADLOCK FALSE
