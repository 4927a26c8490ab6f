------------------------------ MODULE Gateway ------------------------------
(***************************************************************************)
(* Gateway mode (main.go, web_server.go): the backup of the host's         *)
(* iptables rules, the rules the program adds to them, and the ways the    *)
(* gateway is switched on and off: at start-up, by the toggle endpoint, by *)
(* the settings page.  No mutex guards gateway_cfg: the requests of the    *)
(* web interface interleave with each other, with the administrator, who   *)
(* edits the firewall himself, and with a restart of the process, which    *)
(* keeps the kernel's rules and the files and loses everything else.       *)
(*                                                                         *)
(* iptables, the file system, the network and the database are external:   *)
(* their commands may fail whenever they are called.                       *)
(***************************************************************************)
EXTENDS Naturals

CONSTANTS
    Request,     \* the requests the web server may be serving at a time
    Main,        \* the goroutine of main(), which initializes at start-up
    NoFile,      \* there is no backup file yet
    MaxRules,    \* bound of the model: copies of our rules in the kernel
    MaxEdits     \* bound of the model: edits by the administrator

ASSUME ProcessAssumption == Main \notin Request
ASSUME BoundAssumption   == MaxRules \in Nat /\ MaxEdits \in Nat
ASSUME FileAssumption    == NoFile \notin [admin : 0 .. MaxEdits, ours : 0 .. MaxRules]

Process == Request \cup {Main}

\* The administrator's version of the rules, and how many copies of ours the
\* built-in chains hold: iptables -A adds one at each configuration.
Rules == [admin : 0 .. MaxEdits, ours : 0 .. MaxRules]

VARIABLES
    rules,       \* in the kernel
    file,        \* the backup file
    saved,       \* enabled and auto_configure in the settings and the database
    enabled, auto_configure, backup_created, is_configured,  \* gateway_cfg
    listening,   \* the transparent proxy and the DNS server serve
    unserved,    \* history variable: in this process, something has left the
                 \* gateway enabled without its servers
    pc,          \* where each process is in its handler
    output,      \* what iptables-save printed for a process
    excuse       \* history variable: what happened that spoils the rules

host    == <<rules, file>>
config  == <<enabled, auto_configure, backup_created, is_configured>>
serving == <<listening, unserved>>
vars    == <<host, saved, config, serving, pc, output, excuse>>

Quiet == \A p \in Request : pc[p] = "idle"
Up    == pc[Main] = "idle"

Init ==
    /\ rules = [admin |-> 0, ours |-> 0]
    /\ file = NoFile
    /\ saved \in [enabled : BOOLEAN, auto_configure : BOOLEAN]
    /\ enabled = saved.enabled
    /\ auto_configure = saved.auto_configure
    /\ backup_created = FALSE /\ is_configured = FALSE
    /\ listening = FALSE /\ unserved = FALSE
    /\ pc = [p \in Process |-> IF p = Main /\ enabled THEN "saving" ELSE "idle"]
    /\ output = [p \in Process |-> rules]
    /\ excuse = {}

Go(p, from, to) == pc[p] = from /\ pc' = [pc EXCEPT ![p] = to]

\* A command or a write that fails is logged, and the handler goes on.
Fail == excuse' = excuse \cup {"failure"}

-----------------------------------------------------------------------------
(* initialize_gateway_mode.                                                *)

\* Without root privileges or a network interface it does nothing and returns an
\* error: a toggle answers with it, main() logs it and leaves `enabled` set.
RefuseIgnored(p) ==
    /\ Go(p, "saving", "idle")
    /\ enabled' = TRUE
    /\ unserved' = (unserved \/ p = Main)
    /\ UNCHANGED <<host, saved, auto_configure, backup_created, is_configured, listening, output, excuse>>
Refuse(p) ==
    /\ Go(p, "saving", "idle")
    /\ unserved' = (unserved \/ p = Main)
    /\ UNCHANGED <<host, saved, config, listening, output, excuse>>

\* Otherwise backup_iptables_rules makes one backup per process, of what
\* iptables-save prints, and only if it is to configure rules at all ...
BackupWanted == auto_configure /\ ~backup_created

Skip(p) ==
    /\ Go(p, "saving", "configuring")
    /\ ~BackupWanted
    /\ UNCHANGED <<host, saved, config, serving, output, excuse>>

Save(p) ==
    /\ Go(p, "saving", "writing")
    /\ BackupWanted
    /\ output' = [output EXCEPT ![p] = rules]
    /\ UNCHANGED <<host, saved, config, serving, excuse>>

Write(p) ==
    /\ Go(p, "writing", "configuring")
    /\ file' = output[p]
    /\ backup_created' = TRUE
    /\ UNCHANGED <<rules, saved, enabled, auto_configure, is_configured, serving, output, excuse>>

BackupFails(p) ==
    /\ \/ BackupWanted /\ Go(p, "saving", "configuring")
       \/ Go(p, "writing", "configuring")
    /\ Fail
    /\ UNCHANGED <<host, saved, config, serving, output>>

\* ... but the rules are configured without one as well.
Configure(p) ==
    /\ Go(p, "configuring", "starting")
    /\ IF auto_configure
       THEN /\ rules.ours < MaxRules
            /\ rules' = [rules EXCEPT !.ours = @ + 1]
            /\ is_configured' = TRUE
       ELSE UNCHANGED <<rules, is_configured>>
    /\ UNCHANGED <<file, saved, enabled, auto_configure, backup_created, serving, output, excuse>>

\* The servers are started in goroutines of their own, which only log that they
\* cannot listen and are never stopped; the toggle's handler sets `enabled` last.
StartServers(p) ==
    /\ Go(p, "starting", "idle")
    /\ listening' \in {TRUE, listening}
    /\ unserved' = (unserved \/ ~listening')
    /\ enabled' = TRUE
    /\ UNCHANGED <<host, saved, auto_configure, backup_created, is_configured, output, excuse>>

-----------------------------------------------------------------------------
(* handleAPIGatewayToggle and cleanup_gateway_mode.                        *)

\* A toggle that starts before another is done.
Overlap == IF Quiet THEN excuse ELSE excuse \cup {"overlap"}

Enable(p) ==
    /\ Up
    /\ Go(p, "idle", "saving")
    /\ ~enabled
    /\ excuse' = Overlap
    /\ UNCHANGED <<host, saved, config, serving, output>>

Disable(p) ==
    /\ Up
    /\ Go(p, "idle", "cleaning up")
    /\ enabled
    /\ excuse' = Overlap
    /\ UNCHANGED <<host, saved, config, serving, output>>

HasBackup == backup_created /\ file # NoFile

\* The backup replaces all rules of the host, and is kept.
RestoreUnguarded == auto_configure
RestoreUnlessFlushed == auto_configure /\ HasBackup /\ ~is_configured
RestoreWanted == auto_configure /\ HasBackup

\* cleanup_gateway_mode: a second toggle may have cleared `enabled` meanwhile.
Restore(p) ==
    /\ Go(p, "cleaning up", "disabling")
    /\ enabled /\ RestoreWanted
    /\ rules' = file
    /\ is_configured' = FALSE
    /\ UNCHANGED <<file, saved, enabled, auto_configure, backup_created, serving, output, excuse>>

\* Without a backup, or when iptables-restore fails, only the program's own
\* chains are flushed; the rules in the built-in chains stay.
FlushChains(p) ==
    /\ Go(p, "cleaning up", "disabling")
    /\ IF enabled /\ RestoreWanted THEN Fail ELSE UNCHANGED excuse
    /\ is_configured' = IF enabled THEN FALSE ELSE is_configured
    /\ UNCHANGED <<host, saved, enabled, auto_configure, backup_created, serving, output>>

ClearEnabled(p) ==
    /\ Go(p, "disabling", "idle")
    /\ enabled' = FALSE
    /\ UNCHANGED <<host, saved, auto_configure, backup_created, is_configured, serving, output, excuse>>

-----------------------------------------------------------------------------
(* The other requests, the administrator, and the restart.                 *)

\* restore_original_iptables_rules, from the web interface; when it fails
\* nothing changes.
ManualRestoreForgetting(p) ==
    /\ Up
    /\ pc[p] = "idle"
    /\ HasBackup
    /\ rules' = file
    /\ is_configured' = FALSE
    /\ backup_created' = FALSE
    /\ UNCHANGED <<file, saved, enabled, auto_configure, serving, pc, output, excuse>>
ManualRestore(p) ==
    /\ Up
    /\ pc[p] = "idle"
    /\ HasBackup
    /\ rules' = file
    /\ is_configured' = FALSE
    /\ UNCHANGED <<file, saved, enabled, auto_configure, backup_created, serving, pc, output, excuse>>

\* handleAPISettings stores the switches it is sent, here and in the database,
\* and neither initializes nor cleans up.  A toggle is not stored, so that
\* `enabled` may differ from what is saved, and stay so when it is not sent.
PostSettings(p) ==
    /\ Up
    /\ pc[p] = "idle"
    /\ saved' \in [enabled : BOOLEAN, auto_configure : BOOLEAN]
    /\ \/ enabled' = saved'.enabled
       \/ UNCHANGED <<enabled, saved.enabled>>
    /\ auto_configure' = saved'.auto_configure
    /\ excuse' = IF <<enabled, auto_configure>>' = <<enabled, auto_configure>>
                 THEN excuse ELSE excuse \cup {"settings"}
    /\ unserved' = (unserved \/ (enabled' /\ ~enabled))
    /\ UNCHANGED <<host, backup_created, is_configured, listening, pc, output>>

EditRules ==
    /\ rules.admin < MaxEdits
    /\ rules' = [rules EXCEPT !.admin = @ + 1]
    /\ UNCHANGED <<file, saved, config, serving, pc, output, excuse>>

\* handleAPIRestart replaces the process image without cleaning up, and a kill
\* ends it as abruptly: main()'s deferred cleanup is behind an endless loop.
Restart ==
    /\ enabled' = saved.enabled
    /\ auto_configure' = saved.auto_configure
    /\ backup_created' = FALSE /\ is_configured' = FALSE
    /\ listening' = FALSE /\ unserved' = FALSE
    /\ pc' = [p \in Process |-> IF p = Main /\ enabled' THEN "saving" ELSE "idle"]
    /\ excuse' = IF rules.ours > 0 THEN excuse \cup {"restart"} ELSE excuse
    /\ UNCHANGED <<host, saved, output>>

-----------------------------------------------------------------------------
Initialize(p) ==
    \/ Refuse(p) \/ Skip(p) \/ Save(p) \/ Write(p) \/ BackupFails(p)
    \/ Configure(p) \/ StartServers(p)

Toggle(p) ==
    Enable(p) \/ Disable(p) \/ Restore(p) \/ FlushChains(p) \/ ClearEnabled(p)

Next ==
    \/ \E p \in Process : Initialize(p)
    \/ \E p \in Request : Toggle(p) \/ ManualRestore(p) \/ PostSettings(p)
    \/ EditRules
    \/ Restart

Spec == Init /\ [][Next]_vars

-----------------------------------------------------------------------------
(* Properties.                                                             *)

\* The types of the host's state, of gateway_cfg and of the processes.
TypeOK ==
    /\ rules \in Rules
    /\ file \in Rules \cup {NoFile}
    /\ saved \in [enabled : BOOLEAN, auto_configure : BOOLEAN]
    /\ enabled \in BOOLEAN /\ auto_configure \in BOOLEAN
    /\ backup_created \in BOOLEAN /\ is_configured \in BOOLEAN
    /\ listening \in BOOLEAN /\ unserved \in BOOLEAN
    /\ pc \in [Process -> {"idle", "saving", "writing", "configuring", "starting",
                           "cleaning up", "disabling"}]
    /\ output \in [Process -> Rules]
    /\ excuse \subseteq {"failure", "overlap", "settings", "restart"}

\* Once the gateway is disabled, none of the program's rules is left in the
\* kernel: unless a command failed, toggles overlapped, the settings page
\* switched the gateway or auto_configure, or the process was restarted with
\* its rules installed.  Edits, manual restores and repeated toggles are fine.
CleanWhenDisabled ==
    Quiet /\ Up /\ ~enabled /\ excuse = {} => rules.ours = 0

\* The backup holds the administrator's rules only, with the same exceptions.
BackupUnspoiled ==
    file # NoFile /\ excuse = {} => file.ours = 0

\* An enabled gateway has its servers running, unless since the process started
\* main() ignored a refused initialization, a server could not listen, or the
\* settings page enabled the gateway: no toggle, no overlap of toggles and no
\* restart makes it claim to serve when it does not.
EnabledMeansServing ==
    Quiet /\ Up /\ enabled => listening \/ unserved

\* Original rules can be restored at any time (README_Gateway.md:365): what is
\* in the backup file is the administrator's, when no command has failed.
OriginalPreserved ==
    file # NoFile /\ "failure" \notin excuse => file.ours = 0
=============================================================================
