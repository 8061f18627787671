---------------------------- MODULE Configuration ----------------------------
(***************************************************************************)
(* What the configuration manager promises those who use it: a request, if *)
(* it has an effect on snmpd.conf, has it in one step.  Nobody sees a file *)
(* that is being written, a file is replaced only when a name in it has to *)
(* change, and each replacement owes the daemon one reload, which is asked *)
(* for at once or not at all.                                              *)
(***************************************************************************)
EXTENDS SnmpdConf

CONSTANTS
    Faults          \* "full": the disk may be full; "read": reading the file
                    \* may end early

VARIABLES
    file,       \* the lines of snmpd.conf
    property,   \* the Community property
    accepted,   \* the names the daemon accepts
    job,        \* a reload was asked for and has not been done
    due,        \* the file was replaced and the reload not asked for yet
    missed      \* it never was

vars == <<file, property, accepted, job, due, missed>>

Init ==
    /\ file \in Seq(Lines)
    /\ property = NoName
    /\ accepted = NamesOf(file)
    /\ job = FALSE /\ due = FALSE /\ missed = FALSE

\* The server starts and takes the first name of the file.
Start ==
    /\ property = NoName
    /\ \E n \in DOMAIN file :
          /\ file[n] # Other /\ \A k \in DOMAIN file : k < n => file[k] = Other
          /\ property' = file[n]
    /\ UNCHANGED <<file, accepted, job, due, missed>>

Set(name) ==
    /\ ~due
    /\ property' = name
    /\ UNCHANGED <<file, accepted, job, due, missed>>

\* Each line that was read, in order; if the disk is full, up to a part of one.
Replace ==
    /\ ~due /\ due' = TRUE
    /\ UNCHANGED <<property, accepted, job, missed>>
    /\ \E n \in DOMAIN file : ~Keeps(file[n], property)
    /\ file' \in Seq(Lines)
    /\ \E count \in 0 .. Len(file) :
          /\ count = Len(file) \/ "read" \in Faults
          /\ \/ Rewritten(file, count, file', Len(file'), property)
             \/ "full" \in Faults /\ BrokenOff(file, count, file', property)

Ask ==
    /\ due
    /\ due' = FALSE /\ job' = TRUE /\ missed' = FALSE
    /\ UNCHANGED <<file, property, accepted>>

Fail ==
    /\ due
    /\ due' = FALSE /\ missed' = TRUE
    /\ UNCHANGED <<file, property, accepted, job>>

\* The server ends.
Stop ==
    /\ property' = NoName
    /\ due' = FALSE /\ missed' = (missed \/ due)
    /\ UNCHANGED <<file, accepted, job>>

Reload ==
    /\ job
    /\ job' = FALSE
    /\ accepted' = NamesOf(file)
    /\ UNCHANGED <<file, property, due, missed>>

Next ==
    \/ Start \/ Stop \/ (\E name \in Names : Set(name))
    \/ Replace \/ Ask \/ Fail \/ Reload
Spec == Init /\ [][Next]_vars

=============================================================================
