---------------------------- MODULE MCAgentUnit ----------------------------
(* The model values and the strings of AgentUnit_serves.cfg.               *)
EXTENDS AgentUnit

CONSTANTS psu, image,       \* an item of the inventory, a software image
          manager,          \* a service
          text              \* the one text

MCStrings == {[base |-> "VersionPurpose", member |-> "BMC"],
              [base |-> "VersionPurpose", member |-> Bare]}
MCIfaces == [kind \in Kinds |-> IF kind = "inventory" THEN {"Item"} ELSE {"Version"}]
MCService == [i \in {"Item", "Version"} |-> manager]
=============================================================================
