--------------------------- MODULE MCAgentTables ---------------------------
(* The model values and the strings of AgentTables_life.cfg.               *)
EXTENDS AgentTables

CONSTANTS psu, image,       \* an item of the inventory, a software image
          manager, health,  \* two services
          text              \* the one text

\* A purpose and the bare name of the enum.
MCStrings == {[base |-> "VersionPurpose", member |-> "BMC"],
              [base |-> "VersionPurpose", member |-> Bare]}
MCIfaces == [kind \in Kinds |->
    IF kind = "inventory" THEN {"Item", "Status"} ELSE {"Version"}]
MCService == [i \in {"Item", "Status", "Version"} |-> IF i = "Status" THEN health ELSE manager]
=============================================================================
