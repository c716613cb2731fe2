--------------------------- MODULE DirectNetwork ---------------------------
(***************************************************************************)
(* The network of one node between the armed pair and the restored port,   *)
(* mutation by mutation: deuces-direct-network.py runs the commands,       *)
(* deuces-direct-snapshot.py observes, deuces-direct-phase.py decides      *)
(* whether what is observed may be touched.  DirectPair has the same       *)
(* handlers as single calls; here a handler may be killed between any two  *)
(* commands, between a command and its receipt, or while the system's own  *)
(* dispatcher hooks still run.                                             *)
(*                                                                         *)
(* A snapshot is abstracted to what the phases tell apart: the service and *)
(* interface fields of the four traffic ports, the owned profile, the      *)
(* owned firewall rules, whether anything is running, and one field for    *)
(* everything that has to stay as it was (identity, management port, other *)
(* routes, rules, tables and services).                                    *)
(***************************************************************************)
EXTENDS Naturals, Sequences, FiniteSets, SequencesExt

CONSTANTS
    Disconnects,    \* ports the fabric service's ExecStop really disconnects
    Reviewed,       \* fabricStopDisconnects of the guard config
    Lingers,        \* dispatcher hooks may outlive the command that woke them
    MaxDrift        \* bound: changes made by somebody else

Switch == <<"switch1", "switch2">>          \* cfg['switchInterfaces'], in order
SwitchPorts == ToSet(Switch)
DirectPorts == {"direct", "sibling"}
Ports == DirectPorts \cup SwitchPorts
Rules == 1..2                               \* cfg['firewallRules'], in order

ASSUME NetworkAssumption ==
    /\ Disconnects \subseteq Reviewed /\ Reviewed \subseteq SwitchPorts
    /\ Lingers \in BOOLEAN /\ MaxDrift \in Nat

VARIABLES
    lifecycle,  \* networkLifecycle of the guard config
    original,   \* network-before.json
    net,        \* the network now
    files,      \* intents, done receipts and phase receipts in the state root
    handler,    \* the guard handler under the lock: operation, commands left,
                \* and whether the first one has been dispatched
    script,     \* how far the direct model script is with its own profile, what is
                \* left of its remote shells, and what they have done too late
    closed,     \* both nodes' resources and the controller are proved stopped
    drift       \* what somebody else changed so far

vars == <<lifecycle, original, net, files, handler, script, closed, drift>>

-----------------------------------------------------------------------------
(* Snapshots.                                                               *)

\* The two sysctls of a port's ARP policy; the set of those that are guarded.
Guard == {"ignore", "announce"}
Port == [uuid : {"none", "own", "foreign"}, addr : BOOLEAN, up : BOOLEAN,
         mtu : {"base", "run"}, arp : SUBSET Guard,
         route : {"none", "own", "metric"}]
Services == {"exited", "dead", "other"}
Snapshot == [fabric : Services, idle : Services, ray : Services,
             work : BOOLEAN, ports : [Ports -> Port], profile : BOOLEAN,
             rules : [Rules -> 0..1], dispatcher : BOOLEAN, rest : {"same", "changed"}]

IdlePort == [uuid |-> "none", addr |-> FALSE, up |-> TRUE, mtu |-> "base",
             arp |-> {}, route |-> "none"]
ActivePort == [IdlePort EXCEPT !.uuid = "own", !.addr = TRUE, !.route = "own"]
DownPort == [IdlePort EXCEPT !.up = FALSE]

Transient == [fabric |-> "exited", idle |-> "exited", ray |-> "dead", work |-> FALSE,
              ports |-> [p \in Ports |-> IF p \in SwitchPorts THEN ActivePort ELSE IdlePort],
              profile |-> FALSE, rules |-> [r \in Rules |-> 0],
              dispatcher |-> FALSE, rest |-> "same"]
Predeclared == [Transient EXCEPT !.fabric = "dead", !.profile = TRUE,
                  !.ports = [p \in Ports |->
                     IF p \in SwitchPorts THEN DownPort
                     ELSE IF p = "direct" THEN [ActivePort EXCEPT !.mtu = "run", !.arp = Guard]
                     ELSE [IdlePort EXCEPT !.arp = Guard]]]

Lifecycles == {"transient-switched", "predeclared-direct"}
IsPredeclared == lifecycle = "predeclared-direct"

\* What a node may be found in: a reviewed baseline, or one that differs
\* from it in a field.
Baselines == {Transient, Predeclared,
              [Transient EXCEPT !.work = TRUE], [Transient EXCEPT !.profile = TRUE],
              [Transient EXCEPT !.ports["switch2"] = DownPort],
              [Transient EXCEPT !.ports["direct"].addr = TRUE],
              [Predeclared EXCEPT !.ports["direct"].uuid = "foreign"],
              [Predeclared EXCEPT !.ports["direct"].route = "metric"],
              [Predeclared EXCEPT !.ports["switch1"].up = TRUE],
              [Predeclared EXCEPT !.profile = FALSE]}

\* validate_original: the only states a run may start from.
ValidOriginal(o) ==
    /\ ~o.work /\ o.ray = "dead" /\ o.idle = "exited"
    /\ IF IsPredeclared
       THEN /\ o.fabric = "dead"
            /\ o.ports["direct"] = Predeclared.ports["direct"]
            /\ o.ports["sibling"] = Predeclared.ports["sibling"]
            /\ o.profile
            /\ \A p \in SwitchPorts : o.ports[p] = DownPort
       ELSE /\ o.fabric = "exited" /\ ~o.profile
            /\ \A p \in DirectPorts : o.ports[p] = IdlePort
            /\ \A p \in SwitchPorts : o.ports[p] = ActivePort

-----------------------------------------------------------------------------
(* The phases.                                                              *)

\* What every phase asks: nobody else's change, no workload, no service of
\* the system beyond the baseline's, no owned rule twice.
Undisturbed(n) ==
    /\ n.rest = "same" /\ ~n.work /\ ~n.dispatcher
    /\ n.ray = "dead"
    /\ \A r \in Rules : n.rules[r] <= 1

\* No rule and no profile of this run (phases 'switched' and 'idle').
NothingOwned(n) ==
    /\ n.rules = original.rules
    /\ n.profile = original.profile

\* The switch side is down and the fabric service is idle, as the phases
\* 'idle' and 'direct-or-idle' ask.
SwitchIdle(n) ==
    /\ n.fabric = "dead" /\ n.idle = original.idle
    /\ \A p \in SwitchPorts :
          /\ n.ports[p].uuid = "none" /\ ~n.ports[p].addr /\ ~n.ports[p].up
          /\ n.ports[p].mtu = original.ports[p].mtu
          /\ n.ports[p].arp = original.ports[p].arp
          /\ n.ports[p].route = "none"

(* Mutant: the interfaces are not compared with the original ones.         *)
SwitchedServices(n) ==
    /\ Undisturbed(n) /\ NothingOwned(n)
    /\ ~IsPredeclared
    /\ n.fabric = original.fabric /\ n.idle = original.idle

ValidSwitched(n) ==
    /\ Undisturbed(n) /\ NothingOwned(n)
    /\ ~IsPredeclared
    /\ n.ports = original.ports
    /\ n.fabric = original.fabric /\ n.idle = original.idle

ValidIdle(n) ==
    /\ Undisturbed(n) /\ NothingOwned(n) /\ SwitchIdle(n)
    /\ ~IsPredeclared
    /\ \A p \in DirectPorts : n.ports[p] = original.ports[p]

\* The ARP policy of the direct ports is the original one or the guard, never
\* one sysctl of each.
ArpKnown(n) == \A p \in DirectPorts : n.ports[p].arp \in {original.ports[p].arp, Guard}

\* The direct ports while the owned profile may be there, or half gone.
DirectShape(n) ==
    LET d == n.ports["direct"]
        s == n.ports["sibling"]
        os == original.ports["sibling"]
    IN  /\ d.up = original.ports["direct"].up
        /\ d.mtu \in {original.ports["direct"].mtu, "run"}
        /\ d.uuid \in {"none", "own"}
        /\ d.addr => d.uuid = "own"
        /\ d.route # "none" => d.addr
        /\ [s EXCEPT !.arp = os.arp] = os
DirectPartly(n) == ArpKnown(n) /\ DirectShape(n)

ValidDirectOrIdle(n) ==
    /\ Undisturbed(n) /\ SwitchIdle(n) /\ DirectPartly(n)
    /\ IsPredeclared =>
          /\ n.profile
          /\ n.ports["direct"].uuid = "own" /\ n.ports["direct"].addr
          /\ \A p \in DirectPorts : n.ports[p].route = original.ports[p].route

(* Mutant: a disconnect that the reviewed ExecStop does is not permitted.   *)
EntryPartialByIntent(n, attempted) ==
    /\ n.fabric \in {original.fabric, "dead"}
    /\ \A p \in SwitchPorts :
          \/ n.ports[p] = original.ports[p]
          \/ <<"switch-disconnect", p>> \in attempted
    /\ ValidSwitched([n EXCEPT !.fabric = original.fabric,
                        !.ports = [p \in Ports |-> IF p \in SwitchPorts
                                                   THEN original.ports[p] ELSE n.ports[p]]])

\* An entry that stopped half way: what differs on the switch side must be
\* explained by an intent, and all the rest be switched.
ValidEntryPartial(n, attempted) ==
    /\ n.fabric \in {original.fabric, "dead"}
    /\ \A p \in SwitchPorts :
          LET now == n.ports[p]
              was == original.ports[p]
              mayDisconnect == \/ p \in Reviewed
                               \/ <<"switch-disconnect", p>> \in attempted
          IN  /\ now.mtu = was.mtu /\ now.arp = was.arp
              /\ \/ now.uuid = was.uuid /\ now.addr = was.addr
                 \/ mayDisconnect /\ now.uuid = "none" /\ ~now.addr
              /\ now.up = was.up \/ (<<"switch-admin-down", p>> \in attempted /\ ~now.up)
              /\ ~now.up => now.uuid = "none" /\ ~now.addr
              /\ now.route = was.route \/ (mayDisconnect /\ now.route = "none")
    /\ ValidSwitched([n EXCEPT !.fabric = original.fabric,
                        !.ports = [p \in Ports |-> IF p \in SwitchPorts
                                                   THEN original.ports[p] ELSE n.ports[p]]])

Settled(n) == [n EXCEPT !.dispatcher = FALSE]

-----------------------------------------------------------------------------
(* The commands.  A label names a mutation and its target; its intent, its  *)
(* done receipt and the phase receipts are files written once.              *)

Host == "host"
Intent(l) == <<"intent", l>>
Done(l) == <<"done", l>>
Phase(name) == <<"phase", name>>
Has(file) == file \in files
HasPhase(name) == Has(Phase(name))

\* What a command changes when it takes.  Activating a switch profile puts
\* the profile's own metric, MTU and ARP policy on the port, which the
\* commands behind it bring back to the saved live values.
Off(port) == [port EXCEPT !.uuid = "none", !.addr = FALSE, !.route = "none"]
\* A connection that is deleted while it is active is taken down with it.
WithoutProfile ==
    [net EXCEPT !.profile = FALSE,
                !.ports["direct"] = IF @.uuid = "own" THEN Off(@) ELSE @]
Effect(l) ==
    LET p == l[2] IN
    \/ /\ l[1] = "fabric-stop"
       /\ net' = [net EXCEPT !.fabric = "dead",
                             !.ports = [q \in Ports |-> IF q \in Disconnects THEN Off(@[q]) ELSE @[q]]]
    \/ /\ l[1] = "fabric-start"
       /\ net' = [net EXCEPT !.fabric = "exited"]
    \/ /\ l[1] \in {"switch-disconnect", "direct-down"}
       /\ net' = [net EXCEPT !.ports[p] = Off(@), !.dispatcher = Lingers]
    \/ /\ l[1] = "switch-admin-down"
       /\ net' = [net EXCEPT !.ports[p].up = FALSE]
    \/ /\ l[1] = "switch-up"
       /\ net' = [net EXCEPT !.ports[p] = [uuid |-> "own", addr |-> TRUE, up |-> TRUE, mtu |-> "run",
                                           arp |-> Guard, route |-> "metric"],
                             !.dispatcher = Lingers]
    \/ /\ l[1] = "switch-metric"
       /\ net' = [net EXCEPT !.ports[p].route = "own"]
    \/ /\ l[1] \in {"switch-mtu", "direct-mtu"}
       /\ net' = [net EXCEPT !.ports[p].mtu = original.ports[p].mtu]
    \/ /\ l[1] \in {"switch-arp", "direct-arp"}
       /\ net' = [net EXCEPT !.ports[p].arp = original.ports[p].arp]
    \/ /\ l[1] = "direct-admin"
       /\ net' = [net EXCEPT !.ports[p].up = original.ports[p].up]
    \/ /\ l[1] = "direct-delete"
       /\ net' = WithoutProfile
    \/ /\ l[1] = "firewall-insert"
       /\ net' = [net EXCEPT !.rules[p] = @ + 1]
    \/ /\ l[1] = "firewall-remove"
       /\ net' = [net EXCEPT !.rules[p] = @ - 1]

\* Some commands are only given when what they undo is there.
Needed(l) ==
    /\ l[1] = "switch-disconnect" => net.ports[l[2]].uuid = "own"
    /\ l[1] = "direct-down" => net.profile /\ net.ports["direct"].uuid = "own"
    /\ l[1] = "direct-delete" => net.profile
    /\ l[1] = "firewall-remove" => net.rules[l[2]] = 1

\* What the code reads right before a command and refuses to go on without.
Permitted(l) ==
    /\ l[1] = "switch-disconnect" => net.ports[l[2]].uuid # "foreign"
    /\ l[1] = "direct-down" /\ net.profile => net.ports["direct"].uuid # "foreign"
    /\ l[1] = "direct-delete" /\ net.profile => net.ports["direct"].uuid = "none"
    /\ l[1] = "direct-mtu" => ~net.profile
    /\ l[1] = "firewall-insert" => net.rules[l[2]] = 0
    /\ l[1] = "firewall-remove" => net.rules[l[2]] <= 1

\* The commands of an operation, in order; <<"check", phase>> validates a
\* snapshot and writes the receipt of its name.
Down(p) == <<<<"switch-disconnect", p>>, <<"switch-admin-down", p>>>>
Up(p) == <<<<"switch-up", p>>, <<"switch-metric", p>>, <<"switch-mtu", p>>, <<"switch-arp", p>>>>

Entry == <<<<"fabric-stop", Host>>>> \o Down(Switch[1]) \o Down(Switch[2]) \o <<<<"check", "idle">>>>
Install == <<<<"firewall-insert", 1>>, <<"firewall-insert", 2>>, <<"check", "firewall-ready">>>>
Removal == <<<<"firewall-remove", 1>>, <<"firewall-remove", 2>>>>

(* Mutant: the saved live metric is not put back.                           *)
RestoreWithoutMetric ==
    LET Bare(p) == <<<<"switch-up", p>>, <<"switch-mtu", p>>, <<"switch-arp", p>>>> IN
    <<<<"fabric-start", Host>>>> \o Bare(Switch[1]) \o Bare(Switch[2])
        \o <<<<"check", "switched-restored">>>>

RestoreSwitch ==
    <<<<"fabric-start", Host>>>> \o Up(Switch[1]) \o Up(Switch[2])
        \o <<<<"check", "switched-restored">>>>

(* Mutant: the switch side comes back before the direct profile is gone.    *)
FallbackSwitchFirst ==
    Removal \o RestoreSwitch
            \o <<<<"direct-down", "direct">>, <<"direct-delete", "direct">>,
                 <<"direct-mtu", "direct">>, <<"direct-admin", "direct">>,
                 <<"direct-arp", "direct">>, <<"direct-arp", "sibling">>,
                 <<"check", "idle-restored">>>>

Fallback ==
    Removal \o <<<<"direct-down", "direct">>, <<"direct-delete", "direct">>,
                 <<"direct-mtu", "direct">>, <<"direct-admin", "direct">>,
                 <<"direct-arp", "direct">>, <<"direct-arp", "sibling">>,
                 <<"check", "idle-restored">>>> \o RestoreSwitch
PredeclaredRestore == Removal \o <<<<"check", "predeclared-restored">>>>

-----------------------------------------------------------------------------
(* Handlers.                                                                *)

Nobody == [op |-> "none", todo |-> <<>>, sent |-> FALSE]

Init ==
    /\ lifecycle \in Lifecycles
    /\ original \in Baselines /\ net = original
    /\ files = {} /\ handler = Nobody
    /\ script = [at |-> "none", shell |-> <<>>, stray |-> <<>>, late |-> FALSE]
    /\ closed = FALSE /\ drift = 0

\* Every handler first loads Network, which refuses an unreviewed baseline.
Opens == handler = Nobody /\ ValidOriginal(original)
Frame == UNCHANGED <<lifecycle, original, script, closed, drift>>

Start(op, todo, written) ==
    /\ handler' = [op |-> op, todo |-> todo, sent |-> FALSE]
    /\ files' = files \cup written
    /\ UNCHANGED net /\ Frame

\* enter-idle; in the predeclared lifecycle it only checks and records.
Enter ==
    /\ Opens /\ ~closed
    /\ \/ /\ ~IsPredeclared /\ ValidSwitched(net)
          /\ ~HasPhase("transition-started")
          /\ Start("enter", Entry, {Phase("transition-started")})
       \/ /\ IsPredeclared /\ ValidDirectOrIdle(net)
          /\ ~HasPhase("idle")
          /\ Start("none", <<>>, {Phase("idle")})

\* direct-ready: the script's profile is really active.  The controller calls
\* it behind the answered enter-idle, and firewall-ready behind it.
DirectReady ==
    /\ Opens /\ ~closed /\ HasPhase("idle")
    /\ ValidDirectOrIdle(net)
    /\ net.ports["direct"].uuid = "own" /\ net.ports["direct"].addr
    /\ net.ports["direct"].mtu = "run"
    /\ ~HasPhase("direct-ready")
    /\ Start("none", <<>>, {Phase("direct-ready")})

\* firewall-ready.
InstallFirewall ==
    /\ Opens /\ ~closed /\ HasPhase("direct-ready")
    /\ ValidDirectOrIdle(net) /\ net.ports["direct"].uuid = "own"
    /\ ~HasPhase("firewall-ready")
    /\ Start("install", Install, {})

\* entry_intents: the recorded intents of an entry, if they are the prefix of
\* the entry program that the completed commands allow.
Attempted == {l \in ToSet(Entry) : Has(Intent(l))}
IntentsInOrder ==
    /\ ~HasPhase("idle") /\ ~HasPhase("direct-ready") /\ ~HasPhase("restore-started")
    /\ <<"fabric-stop", Host>> \in Attempted
    /\ \A i \in DOMAIN Switch :
          (\E kind \in {"switch-disconnect", "switch-admin-down"} :
              <<kind, Switch[i]>> \in Attempted)
          => /\ Has(Done(<<"fabric-stop", Host>>))
             /\ i > 1 => Has(Done(<<"switch-admin-down", Switch[i - 1]>>))


\* Does restore accept what it finds, in the branch it takes?
EntryBegan == HasPhase("transition-started")
Entered == HasPhase("idle")
AcceptsUnentered(n) ==
    /\ files = {}
    /\ IF IsPredeclared THEN ValidDirectOrIdle(n) /\ n.rules = original.rules
       ELSE ValidSwitched(n)
AcceptsPartial(n) == IntentsInOrder /\ ValidEntryPartial(n, Attempted)
AcceptsEntered(n) ==
    /\ ValidDirectOrIdle(n)
    /\ ~IsPredeclared => ~HasPhase("restore-started")

RestoreUnentered ==
    /\ IF IsPredeclared THEN ~Entered ELSE ~EntryBegan
    /\ AcceptsUnentered(net)
    /\ Start("none", <<>>, {Phase("unchanged")})
RestorePartial ==
    /\ ~IsPredeclared /\ EntryBegan /\ ~Entered
    /\ AcceptsPartial(net)
    /\ Start("restore", RestoreSwitch, {Phase("restore-started")})
RestoreEntered ==
    /\ Entered /\ ~HasPhase("predeclared-restored")
    /\ AcceptsEntered(net)
    /\ Start("restore", IF IsPredeclared THEN PredeclaredRestore ELSE Fallback,
             {Phase("restore-started")})

\* restore, once the bridge has proved both nodes stopped.
Restore ==
    /\ Opens /\ closed
    /\ RestoreUnentered \/ RestorePartial \/ RestoreEntered

Next1(h) == IF Len(h.todo) = 1 THEN Nobody
            ELSE [h EXCEPT !.todo = Tail(@), !.sent = FALSE]
Busy == handler # Nobody
Command == Head(handler.todo)
IsCheck == Command[1] = "check"
Raise == handler' = Nobody

\* mutate: the intent is durable before the command is given, and exists once.
Dispatch ==
    /\ Busy /\ ~IsCheck /\ ~handler.sent
    /\ Permitted(Command) /\ Needed(Command)
    /\ ~Has(Intent(Command))
    /\ handler' = [handler EXCEPT !.sent = TRUE]
    /\ files' = files \cup {Intent(Command)}
    /\ UNCHANGED net /\ Frame

Skip ==
    /\ Busy /\ ~IsCheck /\ ~handler.sent
    /\ Permitted(Command) /\ ~Needed(Command)
    /\ handler' = Next1(handler)
    /\ UNCHANGED <<net, files>> /\ Frame

\* The command took and its receipt is written; a rule is read back.
ReadBack(l, n) ==
    /\ l[1] = "firewall-insert" => ValidDirectOrIdle(n) /\ n.rules[l[2]] = 1
    /\ l[1] = "firewall-remove" => n.rules[l[2]] = 0

\* It fails when a late shell of the script or somebody else was faster.
CommandTakes == handler.sent /\ Needed(Command) /\ Effect(Command)
Complete ==
    /\ Busy /\ CommandTakes
    /\ files' = files \cup {Done(Command)}
    /\ IF ReadBack(Command, net') THEN handler' = Next1(handler) ELSE Raise
    /\ Frame

Passes(phase, n) ==
    /\ phase \in {"idle", "idle-restored"} => ValidIdle(n)
    /\ phase = "switched-restored" => ValidSwitched(n)
    /\ phase = "predeclared-restored" => ValidDirectOrIdle(n) /\ n.rules = original.rules

Check ==
    /\ Busy /\ IsCheck
    /\ Passes(Command[2], net)
    /\ files' = files \cup {Phase(Command[2])}
    /\ handler' = Next1(handler)
    /\ UNCHANGED net /\ Frame

\* check_settled waits for the dispatcher, and for nothing else; check does not.
Waits(phase) == phase \in {"idle", "switched-restored"}
Refuse ==
    /\ Busy
    /\ IF IsCheck
       THEN ~Passes(Command[2], IF Waits(Command[2]) THEN Settled(net) ELSE net)
       ELSE /\ ~handler.sent
            /\ ~Permitted(Command) \/ (Needed(Command) /\ Has(Intent(Command)))
    /\ Raise
    /\ UNCHANGED <<net, files>> /\ Frame

\* The handler is killed, times out or sees its command fail: what it had
\* dispatched may have taken.
Die ==
    /\ Busy
    /\ UNCHANGED net \/ CommandTakes
    /\ Raise
    /\ UNCHANGED files /\ Frame

-----------------------------------------------------------------------------
(* Around the handlers.                                                     *)

\* The direct model script in the transient lifecycle, outside the guard's
\* lock.  Every stage is one remote shell: the ports are guarded against ARP,
\* the profile is added and activated, the guards are set again; the EXIT
\* trap takes the profile back, resets the port and bares it of the guards.
GuardArp(p) == <<<<"guard", p, "ignore">>, <<"guard", p, "announce">>>>
RestoreArp(p) == <<<<"bare", p, "ignore">>, <<"bare", p, "announce">>>>
Shell == [none |-> <<>>,
          guard |-> GuardArp("direct"), guard2 |-> GuardArp("sibling"),
          add |-> <<<<"add">>>>,
          up |-> <<<<"up">>>> \o GuardArp("direct"),
          again |-> GuardArp("direct"), again2 |-> GuardArp("sibling"),
          remove |-> <<<<"down">>, <<"delete">>>>, reset |-> <<<<"mtu">>>>,
          bare2 |-> RestoreArp("sibling"), bare |-> RestoreArp("direct"),
          over |-> <<>>]
Stages == DOMAIN Shell
Building == <<"none", "guard", "guard2", "add", "up", "again", "again2">>
Trap == <<"remove", "reset", "bare2", "bare", "over">>
Follows(stages, from, to) ==
    \E i \in 1..Len(stages) - 1 : stages[i] = from /\ stages[i + 1] = to

\* The script takes its next stage when the shell of the last one is done.
ScriptFrame == UNCHANGED <<lifecycle, original, files, handler, closed, drift>>
ScriptAt(stages) == ~IsPredeclared /\ Entered /\ ~closed /\ script.at \in ToSet(stages)
NextShell(stages) ==
    /\ ScriptAt(stages) /\ script.shell = <<>>
    /\ \E to \in Stages :
          /\ Follows(stages, script.at, to)
          /\ script' = [script EXCEPT !.at = to, !.shell = Shell[to]]
    /\ UNCHANGED net /\ ScriptFrame

\* What is left of a shell whose command failed is not run; of one whose
\* connection was lost it is, by nobody's order any more (one at a time).
Strays == {script.stray} \cup IF script.stray = <<>> THEN {script.shell} ELSE {}

\* The script fails or is through: its trap removes a profile it may have
\* added, unless something runs on the node, and then resets the port.
ScriptExits ==
    /\ ScriptAt(Building) /\ script.at # "none"
    /\ \E to \in {"remove", "reset", "over"}, stray \in Strays :
          /\ to = "reset" <=> script.at \in {"guard", "guard2"}
          /\ to = "remove" => ~net.work
          /\ script' = [script EXCEPT !.at = to, !.shell = Shell[to], !.stray = stray]
    /\ UNCHANGED net /\ ScriptFrame

\* A removal that fails ends the trap, a reset that fails does not.
TrapFails ==
    /\ ScriptAt(Trap) /\ script.shell # <<>>
    /\ \E to \in Stages, stray \in Strays :
          /\ IF script.at = "remove" THEN to = "over" ELSE Follows(Trap, script.at, to)
          /\ script' = [script EXCEPT !.at = to, !.shell = Shell[to], !.stray = stray]
    /\ UNCHANGED net /\ ScriptFrame

\* What a command of a shell finds and leaves; NetworkManager activates only a
\* profile that is there, and the removal takes down only its own.
Carries(l) ==
    /\ l[1] = "add" => ~net.profile
    /\ l[1] \in {"up", "delete"} => net.profile
    /\ l[1] = "down" => net.ports["direct"].uuid # "foreign"
Carried(l) ==
    \/ /\ l[1] = "guard"
       /\ net' = [net EXCEPT !.ports[l[2]].arp = @ \cup {l[3]}]
    \/ /\ l[1] = "bare"
       /\ net' = [net EXCEPT !.ports[l[2]].arp =
                      (@ \ {l[3]}) \cup (original.ports[l[2]].arp \cap {l[3]})]
    \/ /\ l[1] = "add"
       /\ net' = [net EXCEPT !.profile = TRUE]
    \/ /\ l[1] = "up"
       /\ net' = [net EXCEPT !.ports["direct"] = [@ EXCEPT !.uuid = "own", !.addr = TRUE,
                                                           !.route = "own", !.mtu = "run"],
                             !.dispatcher = Lingers]
    \/ /\ l[1] = "down"
       /\ IF net.ports["direct"].uuid = "own"
          THEN net' = [net EXCEPT !.ports["direct"] = Off(@), !.dispatcher = Lingers]
          ELSE UNCHANGED net
    \/ /\ l[1] = "delete"
       /\ net' = WithoutProfile
    \/ /\ l[1] = "mtu"
       /\ net' = [net EXCEPT !.ports["direct"].mtu = original.ports["direct"].mtu]

\* A remote shell runs its next command whether or not anybody still waits for
\* it: on the worker it outlives the script, also behind the proof that both
\* nodes are stopped and under a restore.  (On the head it is killed with the
\* script: it just goes no further.)  What builds the pair up once a restore
\* has begun is remembered.
TooLate(l) == /\ HasPhase("restore-started") /\ l[1] \in {"guard", "add", "up"}
              /\ net' # net
ShellStep ==
    \E s \in {"shell", "stray"} :
        /\ script[s] # <<>>
        /\ LET l == Head(script[s]) IN
           /\ Carries(l) /\ Carried(l)
           /\ script' = [script EXCEPT ![s] = Tail(@), !.late = @ \/ TooLate(l)]
        /\ ScriptFrame

Script == NextShell(Building) \/ NextShell(Trap) \/ ScriptExits \/ TrapFails \/ ShellStep

\* The cleanup bridge has its proof: the script is terminal, and no handler of
\* the run is left (it takes the same lock).  The proof asks for no remote
\* shell of the script.
Close ==
    /\ ~closed /\ handler = Nobody
    /\ closed' = TRUE
    /\ UNCHANGED <<lifecycle, original, net, files, handler, script, drift>>

Settle ==
    /\ net.dispatcher
    /\ net' = Settled(net)
    /\ UNCHANGED files /\ UNCHANGED handler /\ Frame

\* Somebody else starts a job, changes what has to stay as it was, or brings
\* a profile of their own up on a traffic port.
Drift ==
    /\ drift < MaxDrift
    /\ \/ net' = [net EXCEPT !.work = TRUE]
       \/ net' = [net EXCEPT !.rest = "changed"]
       \/ \E p \in Ports : net' = [net EXCEPT !.ports[p].uuid = "foreign", !.ports[p].addr = TRUE]
    /\ drift' = drift + 1
    /\ UNCHANGED <<lifecycle, original, files, handler, script, closed>>

Next ==
    \/ Enter \/ DirectReady \/ InstallFirewall \/ Restore
    \/ Dispatch \/ Skip \/ Complete \/ Check \/ Refuse \/ Die
    \/ Script \/ Close \/ Settle \/ Drift

Spec == Init /\ [][Next]_vars

-----------------------------------------------------------------------------
(* Properties.                                                              *)

Commands == {"fabric-stop", "fabric-start"} \X {Host}
            \cup {"switch-disconnect", "switch-admin-down", "switch-up", "switch-metric",
                  "switch-mtu", "switch-arp"} \X SwitchPorts
            \cup {"direct-down", "direct-delete", "direct-mtu", "direct-admin"} \X {"direct"}
            \cup {"direct-arp"} \X DirectPorts
            \cup {"firewall-insert", "firewall-remove"} \X Rules
Phases == {"transition-started", "idle", "direct-ready", "firewall-ready", "restore-started",
           "idle-restored", "switched-restored", "predeclared-restored", "unchanged"}

\* What the variables may be; in particular no owned rule is ever there more
\* than once, so no rule of this run can be left behind by removing it once.
TypeOK ==
    /\ lifecycle \in Lifecycles /\ original \in Baselines
    /\ net \in Snapshot
    /\ files \subseteq {Intent(l) : l \in Commands} \cup {Done(l) : l \in Commands}
                  \cup {Phase(p) : p \in Phases}
    /\ handler.sent => Busy /\ ~IsCheck /\ Has(Intent(Command))
    /\ script.at \in Stages /\ script.late \in BOOLEAN
    /\ closed \in BOOLEAN /\ drift \in 0..MaxDrift

\* Whatever a killed entry, installation or script has left, restore accepts it
\* (once the dispatcher has settled): no command sequence that the code can
\* stop in the middle of is one that its own partial-state checks refuse, and
\* no shell of the script that still runs makes one.  The exceptions are the
\* gap in front of the first intent (StartedRestorable) and a direct port on
\* which a shell of the script has stopped between its two sysctls.
AwaitsRestore == closed /\ ~Busy /\ drift = 0 /\ ValidOriginal(original)
                     /\ ~HasPhase("restore-started") /\ ~HasPhase("unchanged")
AcceptsRestore(n) ==
    IF Entered THEN AcceptsEntered(n)
    ELSE IF EntryBegan THEN AcceptsPartial(n) ELSE AcceptsUnentered(n)
Restorable ==
    AwaitsRestore /\ ArpKnown(net) /\ (EntryBegan => Attempted # {} \/ Entered)
        => AcceptsRestore(Settled(net))

\* deuces-direct-guard.py lets every node with the complete relay restore; a
\* node whose entry has begun is one restore takes back, gap or not.  The code
\* refuses it when enter-idle was killed between phase-transition-started.json
\* and the fabric-stop intent.
StartedRestorable == AwaitsRestore /\ ArpKnown(net) => AcceptsRestore(Settled(net))

\* The switched fabric and the direct profile are never up together: the
\* switch side is idle before the profile may exist, and the profile is gone
\* before the switch side comes back, also behind a killed handler, and no
\* activation that comes too late finds the profile again.
NeverBothFabrics ==
    ~IsPredeclared =>
    ~(/\ net.ports["direct"].uuid = "own"
      /\ \E p \in SwitchPorts : net.ports[p].uuid = "own")

\* A terminal receipt is written only over the exact original network, also
\* when somebody else has changed something meanwhile.
Terminal == {Phase("switched-restored"), Phase("predeclared-restored"), Phase("unchanged")}
RestoredTruthful ==
    [][(files' \ files) \cap Terminal # {} => net' = original]_vars

\* A restore that has begun gives up only for what somebody else did, for what
\* a remote shell of the dead script has built up behind its back - a guard, a
\* profile, an activation, never what its trap takes back -, for dispatcher hooks
\* that a connection going down has woken (the check in front of the switch side
\* does not wait for them), or, when it is a second attempt, for an intent the
\* first one has left; never for a state its own commands have made.  This is
\* what restore reads and refuses; a command of its own that fails, because a
\* shell was faster, ends it as Die does.
RestoreGivesUpForOthers ==
    [][Refuse /\ handler.op = "restore" =>
          \/ drift > 0 \/ script.late
          \/ Command = <<"check", "idle-restored">> /\ net.dispatcher
          \/ IsPredeclared /\ ~IsCheck /\ Has(Intent(Command))]_vars

=============================================================================
