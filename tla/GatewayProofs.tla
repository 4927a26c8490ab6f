---------------------------- MODULE GatewayProofs ----------------------------
(***************************************************************************)
(* Proofs about Gateway, for any set of requests and any bounds.  The      *)
(* inductive invariant is TypeOK with ServingInv, BackupInv and CleanInv.  *)
(***************************************************************************)
EXTENDS Gateway, TLAPS

Busy(p) == pc[p] # "idle"

\* A backup that was made in this process is on the disk.
BackupInv == backup_created => file # NoFile

\* An enabled gateway serves, or main() is about to start its servers, or it is
\* known why it does not.
ServingInv == enabled => listening \/ unserved \/ ~Up

\* How far the one handler that is busy has got with the host's rules.
HandlerInv(p) ==
    /\ pc[p] \in {"saving", "writing", "configuring", "disabling"} => rules.ours = 0
    /\ pc[p] = "writing" => output[p].ours = 0
    /\ pc[p] = "configuring" /\ auto_configure => HasBackup
    /\ pc[p] = "cleaning up" => enabled

\* Where the program's rules are installed there is a backup, and a handler
\* that will restore it.
Restorable ==
    rules.ours > 0 =>
        /\ auto_configure /\ HasBackup
        /\ enabled \/ \E p \in Process : pc[p] = "starting"

OneBusy == \A p, q \in Process : Busy(p) /\ Busy(q) => p = q

CleanFile == file # NoFile => file.ours = 0

CleanInv ==
    excuse = {} =>
        /\ OneBusy
        /\ \A p \in Process : HandlerInv(p)
        /\ CleanFile
        /\ Restorable

-----------------------------------------------------------------------------
Stage == {"idle", "saving", "writing", "configuring", "starting", "cleaning up", "disabling"}

HostType   == rules \in Rules /\ file \in Rules \cup {NoFile}
ConfigType ==
    /\ saved \in [enabled : BOOLEAN, auto_configure : BOOLEAN]
    /\ enabled \in BOOLEAN /\ auto_configure \in BOOLEAN
    /\ backup_created \in BOOLEAN /\ is_configured \in BOOLEAN
    /\ listening \in BOOLEAN /\ unserved \in BOOLEAN
HandlerType == pc \in [Process -> Stage] /\ output \in [Process -> Rules]
ExcuseType  == excuse \subseteq {"failure", "overlap", "settings", "restart"}

LEMMA Groups == TypeOK <=> HostType /\ ConfigType /\ HandlerType /\ ExcuseType
BY DEF TypeOK, HostType, ConfigType, HandlerType, ExcuseType, Stage

LEMMA GroupsNext == HostType' /\ ConfigType' /\ HandlerType' /\ ExcuseType' => TypeOK'
BY DEF TypeOK, HostType, ConfigType, HandlerType, ExcuseType, Stage

LEMMA Untouched ==
  ASSUME TypeOK
  PROVE  /\ UNCHANGED host => HostType'
         /\ UNCHANGED <<saved, config, serving>> => ConfigType'
         /\ UNCHANGED <<pc, output>> => HandlerType'
         /\ UNCHANGED excuse => ExcuseType'
         /\ \A p \in Process, from, to \in Stage : Go(p, from, to) /\ UNCHANGED output => HandlerType'
         /\ Fail => ExcuseType'
         /\ excuse' = Overlap => ExcuseType'
<1>1. /\ UNCHANGED host => HostType'
      /\ UNCHANGED <<saved, config, serving>> => ConfigType'
      /\ UNCHANGED <<pc, output>> => HandlerType'
      /\ UNCHANGED excuse => ExcuseType'
  BY Groups DEF HostType, ConfigType, HandlerType, ExcuseType, host, config, serving
<1>2. ASSUME NEW p \in Process, NEW from \in Stage, NEW to \in Stage, Go(p, from, to), UNCHANGED output
      PROVE  HandlerType'
  BY <1>2, Groups DEF HandlerType, Go
<1>3. Fail \/ excuse' = Overlap => ExcuseType'
  BY Groups DEF ExcuseType, Fail, Overlap
<1> QED
  BY <1>1, <1>2, <1>3

\* One more copy of the program's rules, one more edit.
LEMMA RulesChange ==
  ASSUME NEW r \in Rules
  PROVE  /\ r.ours < MaxRules => [r EXCEPT !.ours = @ + 1] \in Rules
         /\ r.admin < MaxEdits => /\ [r EXCEPT !.admin = @ + 1] \in Rules
                                  /\ [r EXCEPT !.admin = @ + 1].ours = r.ours
         /\ r.ours \in Nat
         /\ r # NoFile
BY BoundAssumption, FileAssumption DEF Rules

LEMMA TypeInit == Init => TypeOK
<1> SUFFICES ASSUME Init PROVE TypeOK
  OBVIOUS
<1>1. [admin |-> 0, ours |-> 0] \in Rules
  BY BoundAssumption DEF Rules
<1>2. HostType /\ HandlerType
  BY <1>1 DEF Init, HostType, HandlerType, Stage
<1>3. ConfigType /\ ExcuseType
  BY DEF Init, ConfigType, ExcuseType
<1> QED
  BY <1>2, <1>3, Groups

LEMMA TypeStep ==
  ASSUME TypeOK, [Next]_vars
  PROVE  TypeOK'
<1>1. ASSUME NEW p \in Process, Initialize(p) PROVE TypeOK'
  <2>1. CASE Skip(p) \/ BackupFails(p)
    BY <2>1, Untouched, GroupsNext DEF Skip, BackupFails, Stage
  <2>6. CASE Refuse(p)
    <3>1. ConfigType'
      BY <2>6, Groups DEF Refuse, ConfigType, config
    <3> QED
      BY <2>6, <3>1, Untouched, GroupsNext DEF Refuse, Stage
  <2>2. CASE Save(p)
    <3>1. HandlerType'
      BY <2>2, Groups DEF Save, Go, HandlerType, HostType, Stage
    <3> QED
      BY <2>2, <3>1, Untouched, GroupsNext DEF Save
  <2>3. CASE Write(p)
    <3>1. HostType' /\ ConfigType'
      BY <2>3, Groups DEF Write, HostType, ConfigType, HandlerType, serving
    <3> QED
      BY <2>3, <3>1, Untouched, GroupsNext DEF Write, Stage
  <2>4. CASE Configure(p)
    <3>1. HostType'
      BY <2>4, Groups, RulesChange DEF Configure, HostType
    <3>2. ConfigType'
      BY <2>4, Groups DEF Configure, ConfigType, serving
    <3> QED
      BY <2>4, <3>1, <3>2, Untouched, GroupsNext DEF Configure, Stage
  <2>5. CASE StartServers(p)
    <3>1. ConfigType'
      BY <2>5, Groups DEF StartServers, ConfigType
    <3> QED
      BY <2>5, <3>1, Untouched, GroupsNext DEF StartServers, Stage
  <2> QED
    BY <1>1, <2>1, <2>2, <2>3, <2>4, <2>5, <2>6 DEF Initialize
<1>2. ASSUME NEW p \in Request, Toggle(p) PROVE TypeOK'
  <2>0. p \in Process
    BY DEF Process
  <2>1. CASE Enable(p) \/ Disable(p)
    BY <2>0, <2>1, Untouched, GroupsNext DEF Enable, Disable, Stage
  <2>2. CASE Restore(p)
    <3>1. HostType' /\ ConfigType'
      BY <2>2, Groups DEF Restore, RestoreWanted, HasBackup, HostType, ConfigType, serving
    <3> QED
      BY <2>0, <2>2, <3>1, Untouched, GroupsNext DEF Restore, Stage
  <2>3. CASE FlushChains(p) \/ ClearEnabled(p)
    <3>1. ConfigType' /\ ExcuseType'
      BY <2>3, Untouched, Groups DEF FlushChains, ClearEnabled, ConfigType, serving
    <3> QED
      BY <2>0, <2>3, <3>1, Untouched, GroupsNext DEF FlushChains, ClearEnabled, Stage
  <2> QED
    BY <1>2, <2>1, <2>2, <2>3 DEF Toggle
<1>3. ASSUME NEW p \in Request, ManualRestore(p) PROVE TypeOK'
  <2>1. HostType' /\ ConfigType'
    BY <1>3, Groups DEF ManualRestore, HasBackup, HostType, ConfigType, serving
  <2> QED
    BY <1>3, <2>1, Untouched, GroupsNext DEF ManualRestore
<1>4. ASSUME NEW p \in Request, PostSettings(p) PROVE TypeOK'
  <2>1. ConfigType'
    BY <1>4, Groups DEF PostSettings, ConfigType
  <2>2. ExcuseType'
    BY <1>4, Groups DEF PostSettings, ExcuseType
  <2> QED
    BY <1>4, <2>1, <2>2, Untouched, GroupsNext DEF PostSettings
<1>5. CASE EditRules
  <2>1. HostType'
    BY <1>5, Groups, RulesChange DEF EditRules, HostType
  <2> QED
    BY <1>5, <2>1, Untouched, GroupsNext DEF EditRules
<1>6. CASE Restart
  <2>1. ConfigType'
    BY <1>6, Groups DEF Restart, ConfigType
  <2>2. HandlerType'
    BY <1>6, Groups DEF Restart, HandlerType, Stage
  <2>3. ExcuseType'
    BY <1>6, Groups DEF Restart, ExcuseType
  <2> QED
    BY <1>6, <2>1, <2>2, <2>3, Untouched, GroupsNext DEF Restart
<1>7. CASE UNCHANGED vars
  BY <1>7, Untouched, GroupsNext DEF vars
<1> QED
  BY <1>1, <1>2, <1>3, <1>4, <1>5, <1>6, <1>7 DEF Next

-----------------------------------------------------------------------------
\* Only the start of the servers and the settings page switch the gateway on,
\* only main() may leave it on without them, and only a restart stops them: it
\* goes on to start them when it is to serve.
LEMMA ServingStep ==
  ASSUME TypeOK, ServingInv, [Next]_vars
  PROVE  ServingInv'
<1>0. pc \in [Process -> Stage] /\ Main \in Process /\ \A p \in Request : p \in Process /\ p # Main
  BY Groups, ProcessAssumption DEF HandlerType, Process
<1> USE DEF ServingInv, Up
<1>1. ASSUME NEW p \in Process, Initialize(p) PROVE ServingInv'
  <2>1. CASE StartServers(p)
    BY <2>1 DEF StartServers
  <2>3. CASE Refuse(p)
    <3>1. p # Main => pc'[Main] = pc[Main]
      BY <1>0, <2>3 DEF Refuse, Go
    <3>2. UNCHANGED <<enabled, listening>> /\ unserved' = (unserved \/ p = Main)
      BY <2>3 DEF Refuse, config
    <3> QED
      BY <3>1, <3>2
  <2>2. CASE Skip(p) \/ Save(p) \/ Write(p) \/ BackupFails(p) \/ Configure(p)
    <3>1. pc[Main] # "idle" => pc'[Main] # "idle"
      BY <1>0, <2>2 DEF Skip, Save, Write, BackupFails, Configure, Go
    <3>2. UNCHANGED <<enabled, listening, unserved>>
      BY <2>2 DEF Skip, Save, Write, BackupFails, Configure, config, serving
    <3> QED
      BY <3>1, <3>2
  <2> QED
    BY <1>1, <2>1, <2>2, <2>3 DEF Initialize
<1>2. ASSUME NEW p \in Request, Toggle(p) PROVE ServingInv'
  <2>1. pc'[Main] = pc[Main]
    BY <1>0, <1>2 DEF Toggle, Enable, Disable, Restore, FlushChains, ClearEnabled, Go
  <2>2. UNCHANGED <<listening, unserved>> /\ (enabled' = enabled \/ ~enabled')
    BY <1>2 DEF Toggle, Enable, Disable, Restore, FlushChains, ClearEnabled, config, serving
  <2> QED
    BY <2>1, <2>2
<1>3. ASSUME NEW p \in Request, ManualRestore(p) PROVE ServingInv'
  BY <1>3 DEF ManualRestore, serving
<1>4. ASSUME NEW p \in Request, PostSettings(p) PROVE ServingInv'
  BY <1>4 DEF PostSettings
<1>5. CASE EditRules \/ UNCHANGED vars
  BY <1>5 DEF EditRules, vars, config, serving
<1>6. CASE Restart
  BY <1>0, <1>6 DEF Restart
<1> QED
  BY <1>1, <1>2, <1>3, <1>4, <1>5, <1>6 DEF Next

\* What iptables-save printed is written whole, and a backup is never deleted.
LEMMA BackupStep ==
  ASSUME TypeOK, BackupInv, [Next]_vars
  PROVE  BackupInv'
<1>1. ASSUME NEW p \in Process, Write(p) PROVE BackupInv'
  <2>1. output[p] \in Rules
    BY Groups DEF HandlerType
  <2> QED
    BY <1>1, <2>1, RulesChange DEF Write, BackupInv
<1>2. UNCHANGED <<file, backup_created>> => BackupInv'
  BY DEF BackupInv
<1>3. CASE Restart
  BY <1>3 DEF Restart, BackupInv
<1> QED
  BY <1>1, <1>2, <1>3 DEF Next, Initialize, Toggle, Refuse, Skip, Save, BackupFails, Configure, StartServers,
     Enable, Disable, Restore, FlushChains, ClearEnabled, ManualRestore, PostSettings, EditRules, vars, host, config

\* Nothing that happened is forgotten.
LEMMA ExcuseGrows == [Next]_vars => (excuse' = {} => excuse = {})
BY DEF Next, Initialize, Toggle, Refuse, Skip, Save, Write, BackupFails, Configure, StartServers,
     Enable, Disable, Restore, FlushChains, ClearEnabled, ManualRestore, PostSettings, EditRules, Restart,
     vars, Fail, Overlap

\* A handler that goes on while no other is busy leaves all others idle.
LEMMA OneMoves ==
  ASSUME TypeOK, OneBusy, NEW p \in Process, NEW from \in Stage, NEW to \in Stage,
         Go(p, from, to), from # "idle" \/ (Quiet /\ Up)
  PROVE  /\ OneBusy'
         /\ pc'[p] = to
         /\ \A q \in Process \ {p} : pc'[q] = "idle" /\ pc[q] = "idle"
<1>1. pc \in [Process -> Stage]
  BY Groups DEF HandlerType
<1>2. \A q \in Process \ {p} : pc[q] = "idle"
  BY DEF Go, OneBusy, Busy, Quiet, Up, Process
<1> QED
  BY <1>1, <1>2 DEF Go, OneBusy, Busy

LEMMA NoneLeft == ASSUME rules'.ours = 0 PROVE Restorable'
BY DEF Restorable

LEMMA NoneInstalled == ASSUME rules.ours = 0, UNCHANGED rules PROVE Restorable'
BY DEF Restorable

LEMMA CleanStep ==
  ASSUME TypeOK, BackupInv, CleanInv, [Next]_vars
  PROVE  CleanInv'
<1> DEFINE Kept == OneBusy' /\ (\A q \in Process : HandlerInv(q)') /\ CleanFile' /\ Restorable'
<1> SUFFICES ASSUME excuse' = {} PROVE Kept
  BY DEF CleanInv
<1>0. OneBusy /\ (\A p \in Process : HandlerInv(p)) /\ CleanFile /\ Restorable
  BY ExcuseGrows DEF CleanInv
<1>00. /\ rules \in Rules /\ rules.ours \in Nat /\ file \in Rules \cup {NoFile}
       /\ pc \in [Process -> Stage] /\ output \in [Process -> Rules]
       /\ \A p \in Request : p \in Process
  BY Groups, RulesChange DEF HostType, HandlerType, Process
<1>1. ASSUME NEW p \in Process, Initialize(p) PROVE Kept
  <2>0. HandlerInv(p)
    BY <1>0
  <2>1. ASSUME NEW from \in Stage, NEW to \in Stage, Go(p, from, to), from # "idle", HandlerInv(p)'
        PROVE  OneBusy' /\ \A q \in Process : HandlerInv(q)'
    <3>1. OneBusy' /\ pc'[p] = to /\ \A q \in Process \ {p} : pc'[q] = "idle"
      BY <1>0, <2>1, OneMoves
    <3> QED
      BY <2>1, <3>1 DEF HandlerInv
  <2>8. CASE Refuse(p)
    <3>1. UNCHANGED <<host, config>> /\ pc[p] = "saving" /\ pc'[p] = "idle"
      BY <1>00, <2>8 DEF Refuse, Go
    <3>2. HandlerInv(p)'
      BY <3>1 DEF HandlerInv
    <3>3. CleanFile' /\ Restorable'
      BY <1>0, <2>0, <3>1, NoneInstalled DEF HandlerInv, CleanFile, host
    <3> QED
      BY <2>1, <2>8, <3>2, <3>3 DEF Refuse, Stage
  <2>2. CASE Skip(p)
    <3>1. UNCHANGED <<host, config>> /\ pc[p] = "saving" /\ pc'[p] = "configuring"
      BY <1>00, <2>2 DEF Skip, Go
    <3>2. HandlerInv(p)'
      BY <2>0, <2>2, <3>1 DEF Skip, BackupWanted, HandlerInv, HasBackup, BackupInv, host, config
    <3>3. CleanFile' /\ Restorable'
      BY <1>0, <2>0, <3>1, NoneInstalled DEF HandlerInv, CleanFile, host
    <3> QED
      BY <2>1, <2>2, <3>2, <3>3 DEF Skip, Stage
  <2>3. CASE Save(p)
    <3>1. UNCHANGED <<host, config>> /\ pc[p] = "saving" /\ pc'[p] = "writing" /\ output'[p] = rules
      BY <1>00, <2>3 DEF Save, Go
    <3>2. HandlerInv(p)'
      BY <2>0, <3>1 DEF HandlerInv, host, config
    <3>3. CleanFile' /\ Restorable'
      BY <1>0, <2>0, <3>1, NoneInstalled DEF HandlerInv, CleanFile, host
    <3> QED
      BY <2>1, <2>3, <3>2, <3>3 DEF Save, Stage
  <2>4. CASE Write(p)
    <3>1. /\ UNCHANGED rules /\ pc[p] = "writing" /\ pc'[p] = "configuring"
          /\ file' = output[p] /\ backup_created'
      BY <1>00, <2>4 DEF Write, Go
    <3>2. file' # NoFile /\ rules.ours = 0 /\ file'.ours = 0
      BY <1>00, <2>0, <3>1, RulesChange DEF HandlerInv
    <3>3. HandlerInv(p)' /\ CleanFile' /\ Restorable'
      BY <3>1, <3>2 DEF HandlerInv, CleanFile, Restorable, HasBackup
    <3> QED
      BY <2>1, <2>4, <3>3 DEF Write, Stage
  <2>5. CASE BackupFails(p)
    BY <2>5 DEF BackupFails, Fail
  <2>6. CASE Configure(p)
    <3>1. pc[p] = "configuring" /\ pc'[p] = "starting" /\ UNCHANGED <<file, enabled, auto_configure, backup_created>>
      BY <1>00, <2>6 DEF Configure, Go
    <3>2. HandlerInv(p)' /\ CleanFile'
      BY <1>0, <3>1 DEF HandlerInv, CleanFile
    <3>3. ASSUME auto_configure PROVE Restorable'
      BY <2>0, <3>1, <3>3 DEF HandlerInv, Restorable, HasBackup
    <3>4. ASSUME ~auto_configure PROVE Restorable'
      <4>1. rules' = rules
        BY <2>6, <3>4 DEF Configure
      <4>2. rules.ours = 0
        BY <2>0, <3>1 DEF HandlerInv
      <4> QED
        BY <4>1, <4>2, NoneInstalled
    <3> QED
      BY <2>1, <2>6, <3>2, <3>3, <3>4 DEF Configure, Stage
  <2>7. CASE StartServers(p)
    <3>1. /\ pc[p] = "starting" /\ pc'[p] = "idle" /\ enabled'
          /\ UNCHANGED <<rules, file, auto_configure, backup_created>>
      BY <1>00, <2>7 DEF StartServers, Go, host
    <3>2. HandlerInv(p)' /\ CleanFile' /\ Restorable'
      BY <1>0, <3>1 DEF HandlerInv, CleanFile, Restorable, HasBackup
    <3> QED
      BY <2>1, <2>7, <3>2 DEF StartServers, Stage
  <2> QED
    BY <1>1, <2>2, <2>3, <2>4, <2>5, <2>6, <2>7, <2>8 DEF Initialize
<1>2. ASSUME NEW p \in Request, Toggle(p) PROVE Kept
  <2>0. p \in Process /\ HandlerInv(p)
    BY <1>0, <1>00
  <2>1. ASSUME NEW from \in Stage, NEW to \in Stage, Go(p, from, to), from # "idle" \/ (Quiet /\ Up), HandlerInv(p)'
        PROVE  OneBusy' /\ \A q \in Process : HandlerInv(q)'
    <3>1. OneBusy' /\ pc'[p] = to /\ \A q \in Process \ {p} : pc'[q] = "idle"
      BY <1>0, <2>0, <2>1, OneMoves
    <3> QED
      BY <2>1, <3>1 DEF HandlerInv
  <2>2. CASE Enable(p)
    <3>1. Quiet /\ Up
      BY <2>2 DEF Enable, Overlap
    <3>2. \A q \in Process : pc[q] = "idle"
      BY <3>1 DEF Quiet, Up, Process
    <3>3. rules.ours = 0
      BY <1>0, <1>00, <2>2, <3>2 DEF Enable, Restorable
    <3>4. UNCHANGED <<host, config>> /\ pc'[p] = "saving"
      BY <1>00, <2>0, <2>2 DEF Enable, Go
    <3>5. HandlerInv(p)' /\ CleanFile' /\ Restorable'
      BY <1>0, <3>3, <3>4, NoneInstalled DEF HandlerInv, CleanFile, host
    <3> QED
      BY <2>1, <2>2, <3>1, <3>5 DEF Enable, Stage
  <2>3. CASE Disable(p)
    <3>1. Quiet /\ Up
      BY <2>3 DEF Disable, Overlap
    <3>2. UNCHANGED <<host, config>> /\ pc'[p] = "cleaning up" /\ enabled
      BY <1>00, <2>0, <2>3 DEF Disable, Go
    <3>3. HandlerInv(p)' /\ CleanFile' /\ Restorable'
      BY <1>0, <3>2 DEF HandlerInv, CleanFile, Restorable, HasBackup, host, config
    <3> QED
      BY <2>1, <2>3, <3>1, <3>3 DEF Disable, Stage
  <2>4. CASE Restore(p)
    <3>1. pc'[p] = "disabling" /\ rules' = file /\ file' = file /\ file # NoFile
      BY <1>00, <2>0, <2>4 DEF Restore, RestoreWanted, HasBackup, Go
    <3>2. rules'.ours = 0
      BY <1>0, <3>1 DEF CleanFile
    <3>3. HandlerInv(p)' /\ CleanFile' /\ Restorable'
      BY <1>0, <3>1, <3>2, NoneLeft DEF HandlerInv, CleanFile
    <3> QED
      BY <2>1, <2>4, <3>3 DEF Restore, Stage
  <2>5. CASE FlushChains(p)
    <3>1. pc[p] = "cleaning up" /\ pc'[p] = "disabling" /\ UNCHANGED host
      BY <1>00, <2>0, <2>5 DEF FlushChains, Go
    <3>2. ~RestoreWanted
      BY <2>0, <2>5, <3>1 DEF FlushChains, HandlerInv, Fail
    <3>3. rules.ours = 0
      BY <1>0, <1>00, <3>2 DEF Restorable, RestoreWanted
    <3>4. HandlerInv(p)' /\ CleanFile' /\ Restorable'
      BY <1>0, <3>1, <3>3, NoneInstalled DEF HandlerInv, CleanFile, host
    <3> QED
      BY <2>1, <2>5, <3>4 DEF FlushChains, Stage
  <2>6. CASE ClearEnabled(p)
    <3>1. pc[p] = "disabling" /\ pc'[p] = "idle" /\ UNCHANGED host
      BY <1>00, <2>0, <2>6 DEF ClearEnabled, Go
    <3>2. HandlerInv(p)' /\ CleanFile' /\ Restorable'
      BY <1>0, <2>0, <3>1, NoneInstalled DEF HandlerInv, CleanFile, host
    <3> QED
      BY <2>1, <2>6, <3>2 DEF ClearEnabled, Stage
  <2> QED
    BY <1>2, <2>2, <2>3, <2>4, <2>5, <2>6 DEF Toggle
<1>3. ASSUME NEW p \in Request, ManualRestore(p) PROVE Kept
  <2>1. file # NoFile /\ rules'.ours = 0 /\ UNCHANGED <<file, enabled, auto_configure, backup_created, pc, output>>
    BY <1>0, <1>3 DEF ManualRestore, HasBackup, CleanFile
  <2> QED
    BY <1>0, <2>1, NoneLeft DEF OneBusy, Busy, HandlerInv, CleanFile, HasBackup
<1>4. ASSUME NEW p \in Request, PostSettings(p) PROVE Kept
  <2>1. enabled' = enabled /\ auto_configure' = auto_configure
    BY <1>4 DEF PostSettings
  <2>2. UNCHANGED <<rules, file, enabled, auto_configure, backup_created, pc, output>>
    BY <1>4, <2>1 DEF PostSettings, host
  <2> QED
    BY <1>0, <2>2 DEF OneBusy, Busy, HandlerInv, CleanFile, Restorable, HasBackup
<1>5. CASE EditRules
  <2>1. rules'.ours = rules.ours /\ UNCHANGED <<file, enabled, auto_configure, backup_created, pc, output>>
    BY <1>00, <1>5, RulesChange DEF EditRules, config
  <2> QED
    BY <1>0, <2>1 DEF OneBusy, Busy, HandlerInv, CleanFile, Restorable, HasBackup
<1>6. CASE Restart
  <2>1. rules.ours = 0 /\ UNCHANGED host
    BY <1>00, <1>6 DEF Restart
  <2>2. \A q \in Process : pc'[q] = "idle" \/ (q = Main /\ pc'[q] = "saving")
    BY <1>6 DEF Restart
  <2> QED
    BY <1>0, <2>1, <2>2, NoneInstalled DEF OneBusy, Busy, HandlerInv, CleanFile, host
<1>7. CASE UNCHANGED vars
  BY <1>0, <1>7 DEF vars, host, config, OneBusy, Busy, HandlerInv, CleanFile, Restorable, HasBackup
<1> QED
  BY <1>1, <1>2, <1>3, <1>4, <1>5, <1>6, <1>7 DEF Next

-----------------------------------------------------------------------------
IInv == TypeOK /\ ServingInv /\ BackupInv /\ CleanInv

\* The inductive invariant holds in every behaviour: the types, what an enabled
\* gateway without servers is due to, and how far each handler has got with the
\* rules and the backup while nothing has spoiled them.
THEOREM GatewayInvariant == Spec => []IInv
<1>1. Init => IInv
  <2> SUFFICES ASSUME Init PROVE IInv
    OBVIOUS
  <2>1. ServingInv /\ BackupInv
    BY DEF Init, ServingInv, BackupInv, Up, Process
  <2>2. \A p \in Process : pc[p] = "idle" \/ (p = Main /\ pc[p] = "saving")
    BY DEF Init
  <2>3. rules.ours = 0 /\ file = NoFile
    BY DEF Init
  <2>4. Restorable
    BY <2>3 DEF Restorable
  <2>5. CleanInv
    BY <2>2, <2>3, <2>4 DEF CleanInv, OneBusy, Busy, HandlerInv, CleanFile
  <2> QED
    BY <2>1, <2>5, TypeInit DEF IInv
<1>2. IInv /\ [Next]_vars => IInv'
  BY TypeStep, ServingStep, BackupStep, CleanStep DEF IInv
<1> QED
  BY <1>1, <1>2, PTL DEF Spec

\* In every behaviour the variables keep their types.
THEOREM GatewayTypes == Spec => []TypeOK
BY GatewayInvariant, PTL DEF IInv

\* A gateway that is disabled has left none of its rules in the kernel, but after
\* a failure, overlapping toggles, a change by the settings page or a restart.
THEOREM DisabledIsClean == Spec => []CleanWhenDisabled
<1>1. IInv => CleanWhenDisabled
  <2> SUFFICES ASSUME IInv, Quiet, Up, ~enabled, excuse = {} PROVE rules.ours = 0
    BY DEF CleanWhenDisabled
  <2>1. Restorable
    BY DEF IInv, CleanInv
  <2>2. \A p \in Process : pc[p] = "idle"
    BY DEF Quiet, Up, Process
  <2>3. rules.ours \in Nat
    BY Groups, RulesChange DEF IInv, HostType
  <2> QED
    BY <2>1, <2>2, <2>3 DEF Restorable
<1> QED
  BY <1>1, GatewayInvariant, PTL

\* With the same exceptions the backup holds the administrator's rules only.
THEOREM BackupIsOriginal == Spec => []BackupUnspoiled
<1>1. IInv => BackupUnspoiled
  BY DEF IInv, CleanInv, CleanFile, BackupUnspoiled
<1> QED
  BY <1>1, GatewayInvariant, PTL

\* An enabled gateway has its servers running, unless main() ignored a refused
\* initialization (main.go:963-967), a server could not listen (1358-1362) or the
\* settings page enabled it, in this process.
THEOREM EnabledServes == Spec => []EnabledMeansServing
<1>1. IInv => EnabledMeansServing
  BY DEF IInv, ServingInv, EnabledMeansServing
<1> QED
  BY <1>1, GatewayInvariant, PTL
=============================================================================
