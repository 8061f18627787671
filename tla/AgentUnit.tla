------------------------------ MODULE AgentUnit ------------------------------
(***************************************************************************)
(* The agent of AgentTables as systemd runs it.  The unit says             *)
(* Restart=always and nothing of start limits, so that the default of      *)
(* systemd holds: a process that ends is started again, but not more often *)
(* than StartLimit times in an interval; the next start is refused and the *)
(* unit stays failed.  Nobody stops the unit by hand.                      *)
(***************************************************************************)
EXTENDS AgentTables, Naturals

CONSTANTS
    StartLimit,     \* starts in an interval (StartLimitBurst)
    MaxEnds         \* bound: how often the agent is ended from outside

ASSUME UnitAssumption ==
    /\ StartLimit \in Nat \ {0}
    /\ MaxEnds \in Nat

VARIABLES
    starts,     \* starts in the current interval
    refused,    \* a start was refused: the unit has failed
    ends        \* how often the agent was ended from outside

unit == <<starts, refused, ends>>
unitVars == <<vars, unit>>

InitUnit ==
    /\ Init
    /\ starts = 0
    /\ refused = FALSE
    /\ ends = 0

\* Seeded fault: an agent that was ended from outside is not started again.
StartUnlessEnded ==
    /\ ends = 0
    /\ ~refused /\ starts < StartLimit
    /\ Start
    /\ starts' = starts + 1
    /\ UNCHANGED <<refused, ends>>

\* systemd starts the agent for the first time or again.
StartUnit ==
    /\ ~refused /\ starts < StartLimit
    /\ Start
    /\ starts' = starts + 1
    /\ UNCHANGED <<refused, ends>>

\* It does not if the agent was started too often.
RefuseStart ==
    /\ phase = "down"
    /\ ~refused /\ starts = StartLimit
    /\ refused' = TRUE
    /\ UNCHANGED <<vars, starts, ends>>

\* The interval is over: how much the agent does in one is not known.
IntervalPasses ==
    /\ ~refused /\ starts > 0
    /\ starts' = 0
    /\ UNCHANGED <<vars, refused, ends>>

TerminateUnit ==
    /\ ends < MaxEnds
    /\ Terminate
    /\ ends' = ends + 1
    /\ UNCHANGED <<starts, refused>>

Work == (Update \/ Loop) /\ UNCHANGED unit
Others == (Objects \/ SessionDown \/ SessionUp) /\ UNCHANGED unit

NextUnit ==
    StartUnit \/ RefuseStart \/ IntervalPasses \/ TerminateUnit \/ Work \/ Others

\* The agent has work to do as long as its tables are not filled, and when a
\* signal waits: ENABLED Work, said without the work.
HasWork == phase \in {"software", "inventory"} \/ (phase = "loop" /\ inbox # <<>>)

\* The agent's thread does not rest while it has work, and systemd starts an
\* agent that is down or refuses to: weak fairness of both.  Nothing is assumed
\* of the objects, of the session or of the time it all takes.
UnitSpec ==
    /\ InitUnit /\ [][NextUnit]_unitVars
    /\ []<>~HasWork \/ []<><<Work>>_unitVars
    /\ WF_unitVars(StartUnit \/ RefuseStart)

-----------------------------------------------------------------------------
(* Properties.                                                             *)

\* A value that setFields cannot read takes all tables down with it, again and
\* again, but not for longer than it is published: unless the unit failed of
\* it, once no service publishes one the agent comes to its loop and stays
\* there.  With the limit of systemd the unit does fail of it if the starts
\* follow one another fast enough, and then nothing brings it back.
WellFormed == \A p \in Software : ~Throws("software", val[p])
Serves == <>[]WellFormed /\ []~refused => <>[](phase = "loop")

=============================================================================
