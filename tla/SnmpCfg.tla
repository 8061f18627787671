------------------------------- MODULE SnmpCfg -------------------------------
(***************************************************************************)
(* The configuration manager (snmpcfg/snmpcfg-server.cpp): the D-Bus       *)
(* property Community, the file snmpd.conf it is read from and written to, *)
(* and the SNMP daemon that reads the file when it is told to.             *)
(*                                                                         *)
(* The server is one thread and does one request at a time; what           *)
(* interleaves with it are its own end (crash and restart by systemd) and  *)
(* the daemon's reload.                                                    *)
(***************************************************************************)
EXTENDS SnmpdConf

CONSTANTS
    BadNames,   \* names that are empty or too long
    Faults,     \* see FaultKinds
    MaxLines    \* bound: lines of the first file, and of one that a request
                \* may make longer

FaultKinds == {
    "open",     \* a file cannot be opened
    "read",     \* reading the file ends before its last line
    "full",     \* no space for the temporary file
    "rename",   \* the temporary file can neither replace the file nor be removed
    "reload",   \* the call to systemd cannot be sent
    "crash"}    \* the server ends anywhere and is started again

ASSUME CfgAssumption ==
    /\ Names \cap BadNames = {}
    /\ Faults \subseteq FaultKinds
    /\ MaxLines \in Nat

VARIABLES
    conf,       \* the lines of snmpd.conf
    tmp,        \* the lines of snmpd.conf.tmp, none if there is no file
    value,      \* the Community property
    phase,      \* of the server: "down", "idle" or a step of a request,
                \* "open", "copy", "close" or "reload"
    pos,        \* of writeConfig, while it copies: lines copied so far
    updated,    \* its local variable
    failed,     \* its output stream has failed
    result,     \* of the last request: "none", "ok", "invalid" or "failed"
    daemon,     \* the communities the SNMP daemon accepts
    job,        \* systemd has a reload of the daemon to do
    behind,     \* history: the file did not follow the property when it was
                \* last set or read, because a file could not be opened, read
                \* to its end, written to its end or replaced
    missed      \* history: the reload that the last replacement needs was
                \* never asked for

vars == <<conf, tmp, value, phase, pos, updated, failed, result, daemon, job,
          behind, missed>>

Init ==
    /\ \E n \in 0 .. MaxLines : conf \in [1 .. n -> Lines]
    /\ tmp = <<>>
    /\ value = NoName
    /\ phase = "down"
    /\ pos = 0
    /\ updated = FALSE
    /\ failed = FALSE
    /\ result = "none"
    /\ daemon = NamesOf(conf)
    /\ job = FALSE
    /\ behind = FALSE
    /\ missed = FALSE

-----------------------------------------------------------------------------
(* The server.                                                             *)

\* Seeded fault: only the first com2sec line is rewritten.
rewriteFirst(line) ==
    IF line = Other \/ line = value \/ updated THEN <<line>> ELSE Written[value]

\* A line that was read and what is written for it: the line itself, or a
\* com2sec line with the property's value, in quotes if it has whitespace.
rewrite(line) ==
    IF line = Other \/ line = value THEN <<line>> ELSE Written[value]

\* What is there if there is no space for it.
rewritePart(line) ==
    Torn[IF line = Other \/ line = value THEN line ELSE value]

\* Seeded fault: a line that is no com2sec line is taken for one.
isCommunityAny(n) == \A k \in DOMAIN conf : k < n => conf[k] = Other

\* The line readConfig takes: the first com2sec line.
isCommunity(n) ==
    conf[n] # Other /\ \A k \in DOMAIN conf : k < n => conf[k] = Other

(* The constructor: readConfig leaves the property empty if the file cannot *)
(* be read so far or has no com2sec line.                                   *)
readConfig ==
    /\ phase = "down"
    /\ phase' = "idle"
    /\ \/ /\ \E n \in DOMAIN conf : isCommunity(n) /\ value' = conf[n]
          /\ behind' = FALSE
       \/ /\ NamesOf(conf) = {} \/ {"open", "read"} \cap Faults # {}
          /\ value' = NoName
          /\ behind' = TRUE
    /\ UNCHANGED <<conf, tmp, pos, updated, failed, result, daemon, job, missed>>

Reply(r) == phase' = "idle" /\ result' = r

\* The values of the variables of writeConfig where it has none of them.
NoCopy == pos' = 0 /\ updated' = FALSE /\ failed' = FALSE

(* The setter, up to writeConfig: the property changes first. *)
community(name) ==
    /\ phase = "idle"
    /\ IF name \in BadNames
       THEN Reply("invalid") /\ UNCHANGED value
       ELSE /\ value' = name
            /\ phase' = "open"
            /\ UNCHANGED result
    /\ UNCHANGED <<conf, tmp, pos, updated, failed, daemon, job, behind,
                   missed>>

\* Seeded fault: the temporary file is opened to append to it.
openFilesToAppend ==
    /\ phase = "open"
    /\ phase' = "copy"
    /\ NoCopy
    /\ UNCHANGED <<conf, tmp, value, result, daemon, job, behind, missed>>

(* writeConfig opens both files; without them the request ends well. *)
openFiles ==
    /\ phase = "open"
    /\ NoCopy
    /\ \/ /\ phase' = "copy"
          /\ tmp' = <<>>
          /\ UNCHANGED <<result, behind>>
       \/ /\ "open" \in Faults
          /\ Reply("ok")
          /\ tmp' \in {tmp, <<>>}
          /\ behind' = TRUE
    /\ UNCHANGED <<conf, value, daemon, job, missed>>

\* A line goes to the temporary file, or a part of it if there is no space.
\* Once the stream has failed nothing is written; nobody asks the stream.
write(line) ==
    \/ ~failed /\ tmp' = tmp \o rewrite(line) /\ UNCHANGED failed
    \/ /\ ~failed /\ "full" \in Faults
       /\ \E piece \in rewritePart(line) : tmp' = tmp \o piece
       /\ failed' = TRUE
    \/ failed /\ UNCHANGED <<tmp, failed>>

\* Seeded fault: every com2sec line counts as an update.
copyLineUpdated ==
    /\ phase = "copy"
    /\ pos < Len(conf)
    /\ pos' = pos + 1
    /\ updated' = (updated \/ conf[pos'] # Other)
    /\ write(conf[pos'])
    /\ UNCHANGED <<conf, value, phase, result, daemon, job, behind, missed>>

(* One turn of its loop. *)
copyLine ==
    /\ phase = "copy"
    /\ pos < Len(conf)
    /\ pos' = pos + 1
    /\ updated' = (updated \/ (conf[pos'] # Other /\ conf[pos'] # value))
    /\ write(conf[pos'])
    /\ UNCHANGED <<conf, value, phase, result, daemon, job, behind, missed>>

(* The loop ends when getline does, at the end of the file or before. *)
closeFiles ==
    /\ phase = "copy"
    /\ pos = Len(conf) \/ "read" \in Faults
    /\ phase' = "close"
    /\ UNCHANGED <<conf, tmp, value, pos, updated, failed, result, daemon, job,
                   behind, missed>>

\* Seeded fault: the file is replaced without a reload.
replaceQuietly ==
    /\ phase = "close"
    /\ conf' = IF updated THEN tmp ELSE conf
    /\ tmp' = <<>>
    /\ Reply("ok")
    /\ behind' = FALSE
    /\ NoCopy
    /\ UNCHANGED <<value, daemon, job, missed>>

(* rename over the file when a line has changed, remove otherwise. *)
replace ==
    /\ phase = "close"
    /\ \/ /\ updated
          /\ conf' = tmp
          /\ tmp' = <<>>
          /\ phase' = "reload"
          /\ behind' = failed
          /\ UNCHANGED result
       \/ /\ updated /\ "rename" \in Faults
          /\ Reply("failed")
          /\ behind' = TRUE
          /\ UNCHANGED <<conf, tmp>>
       \/ /\ ~updated
          /\ tmp' \in {<<>>} \union (IF "rename" \in Faults THEN {tmp} ELSE {})
          /\ Reply("ok")
          /\ behind' = (pos < Len(conf))
          /\ UNCHANGED conf
    /\ NoCopy
    /\ UNCHANGED <<value, daemon, job, missed>>

(* The call is sent without waiting for its reply. *)
reloadSnmpDaemon ==
    /\ phase = "reload"
    /\ \/ /\ job' = TRUE
          /\ missed' = FALSE
          /\ Reply("ok")
       \/ /\ "reload" \in Faults
          /\ missed' = TRUE
          /\ Reply("failed")
          /\ UNCHANGED job
    /\ UNCHANGED <<conf, tmp, value, pos, updated, failed, daemon, behind>>

\* The process ends; the files stay.
Crash ==
    /\ "crash" \in Faults
    /\ phase # "down"
    /\ phase' = "down"
    /\ value' = NoName
    /\ result' = "none"
    /\ missed' = (missed \/ phase = "reload")
    /\ NoCopy
    /\ UNCHANGED <<conf, tmp, daemon, job, behind>>

\* The daemon (external): systemd has it read the file again.
Reload ==
    /\ job
    /\ job' = FALSE
    /\ daemon' = NamesOf(conf)
    /\ UNCHANGED <<conf, tmp, value, phase, pos, updated, failed, result, behind,
                   missed>>

Request == \E name \in Names \union BadNames :
    /\ community(name)
    \* bound: no request makes a long file longer
    /\ name \in Names /\ Len(Written[name]) > 1 => Len(conf) <= MaxLines
writeConfig == openFiles \/ copyLine \/ closeFiles \/ replace \/ reloadSnmpDaemon
Server == readConfig \/ writeConfig
Next == Request \/ Server \/ Crash \/ Reload
Spec == Init /\ [][Next]_vars

\* The server goes on with the request it does, and systemd with the jobs it
\* has.  Clients need not ask for anything, nor need a server that has ended
\* be started again.
FairSpec == Spec /\ WF_vars(writeConfig) /\ WF_vars(Reload)

-----------------------------------------------------------------------------
(* Properties.                                                             *)

\* Every variable has its type.
TypeOK ==
    /\ conf \in Seq(Lines) /\ tmp \in Seq(Lines)
    /\ value \in Names \union FileNames \union {NoName}
    /\ phase \in {"open", "copy", "close", "reload"} => value \in Names
    /\ phase \in {"down", "idle", "open", "copy", "close", "reload"}
    /\ pos \in Nat
    /\ updated \in BOOLEAN /\ failed \in BOOLEAN
    /\ job \in BOOLEAN /\ behind \in BOOLEAN /\ missed \in BOOLEAN
    /\ result \in {"none", "ok", "invalid", "failed"}
    /\ daemon \subseteq FileNames \union {NoName}

\* The file is only ever replaced as a whole, although the server may end
\* between any two steps and leave a temporary file behind: the new file has
\* what every line that was read becomes, in order, com2sec lines with another
\* name the lines written for the requested one, the others unchanged, and no
\* line twice or from an earlier request.  Where there was no space the new
\* file breaks off in a line and nothing follows.  That it takes the place of
\* the old one even then is what the code does.
ReplacedWhole ==
    [][conf' # conf =>
        IF failed THEN BrokenOff(conf, pos, conf', value)
                  ELSE Rewritten(conf, pos, conf', Len(conf'), value)]_vars

\* When no request is under way the property is what a restart would read
\* from the file, unless a file could not be opened, read or written to its
\* end, or replaced.  Of a name that is not read back as it was written, for
\* quotes or newlines in it, the file may have what is read back instead, and
\* nothing else whatever was set, read and written before.
PropertyIsFile ==
    phase = "idle" /\ ~behind =>
        \A n \in DOMAIN conf : isCommunity(n) => conf[n] \in {value} \union Stored(value)

\* Why: what a request has copied so far is the rewritten beginning of the
\* file, its first name is the requested one, and while no line has changed
\* there was none to change.
Copied ==
    phase \in {"copy", "close"} =>
        /\ pos <= Len(conf)
        /\ IF failed THEN BrokenOff(conf, pos, tmp, value)
                     ELSE /\ Rewritten(conf, pos, tmp, Len(tmp), value)
                          /\ FirstName(tmp) \subseteq {value} \union Stored(value)
        /\ ~updated => \A n \in 1 .. pos : conf[n] \in {Other, value}
Settled ==
    phase = "reload" /\ ~behind =>
        FirstName(conf) \subseteq {value} \union Stored(value)

\* When nothing is under way the daemon accepts the names of the file and no
\* other, unless the server ended, or could not reach systemd, just before the
\* reload: no other order of requests, failures and restarts leaves it behind.
DaemonIsFile ==
    phase # "reload" /\ ~job /\ ~missed => daemon = NamesOf(conf)

\* The daemon does not stay with names the file no longer has: requests may
\* go on forever, but it catches up with the file, or a reload is missed.
DaemonCatchesUp ==
    daemon # NamesOf(conf) ~> (daemon = NamesOf(conf) \/ missed)

\* However it is interrupted and whatever fails, a request replaces the file
\* in one step, only if a name has to change, and owes the daemon one reload:
\* the temporary file, its remains and the lines copied so far are nobody's
\* concern.
Config == INSTANCE Configuration WITH
    file <- conf,
    property <- value,
    accepted <- daemon,
    due <- phase = "reload"
ConfigSpec == Config!Spec

\* What the interface description says of the property: the "community that
\* allows read-only (GET and GETNEXT) access".  When nothing is under way and
\* a request has succeeded, the daemon accepts the property's value.
CommunityAllowsAccess ==
    phase = "idle" /\ ~job /\ result = "ok" /\ NamesOf(conf) # {}
        => value \in daemon

=============================================================================
