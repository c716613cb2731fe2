------------------------- MODULE DirectNetworkProofs -------------------------
(***************************************************************************)
(* TypeOK, NeverBothFabrics, RestoredTruthful, Restorable and              *)
(* RestoreGivesUpForOthers for any set of ports that the fabric's stop     *)
(* disconnects, with and without lingering hooks, and any number of        *)
(* changes by somebody else.                                               *)
(***************************************************************************)
EXTENDS DirectNetwork, SequenceTheorems, TLAPS

Checks == {"check"} \X {"idle", "firewall-ready", "idle-restored", "switched-restored",
                        "predeclared-restored"}
Orders == Commands \cup Checks
Operations == {"none", "enter", "install", "restore"}

Reviewables == Baselines \cap Snapshot

Written == {Intent(l) : l \in Commands} \cup {Done(l) : l \in Commands}
               \cup {Phase(p) : p \in Phases}

NetTypes ==
    /\ lifecycle \in Lifecycles /\ original \in Baselines
    /\ net \in Snapshot /\ files \subseteq Written
    /\ handler \in [op : Operations, todo : Seq(Orders), sent : BOOLEAN]
    /\ Busy => handler.todo # <<>> /\ handler.op # "none"
    /\ handler.sent => Busy /\ ~IsCheck /\ Has(Intent(Command))
    /\ closed \in BOOLEAN /\ drift \in 0..MaxDrift

(* A dispatched rule command finds what the code has read before it.        *)
RulesRead ==
    handler.sent =>
        /\ Command[1] = "firewall-insert" => net.rules[Command[2]] = 0
        /\ Command[1] = "firewall-remove" => net.rules[Command[2]] = 1

(* Only a node with a reviewed baseline is ever touched.                    *)
Reviewing == Busy \/ Entered => ValidOriginal(original)

(* The switch side is only brought up by a restore, and behind the check of *)
(* the idle ports if the node was ever idle.                                *)
Restoring ==
    /\ handler.op = "restore" =>
          closed /\ \A j \in DOMAIN handler.todo : handler.todo[j] # <<"check", "idle">>
    /\ Busy /\ handler.op # "restore" =>
          \A j \in DOMAIN handler.todo : /\ handler.todo[j][1] # "switch-up"
                                         /\ handler.todo[j] # <<"check", "idle-restored">>
    /\ \A j \in DOMAIN handler.todo :
          handler.todo[j][1] = "switch-up" =>
              \/ ~Entered \/ HasPhase("idle-restored")
              \/ \E i \in 1..(j - 1) : handler.todo[i] = <<"check", "idle-restored">>
    /\ \A j \in DOMAIN handler.todo :
          handler.todo[j] = <<"check", "predeclared-restored">> => IsPredeclared
    /\ HasPhase("idle-restored") => closed

DirectOwned == net.ports["direct"].uuid = "own"
SwitchOwned == \E p \in SwitchPorts : net.ports[p].uuid = "own"

(* Which of the two fabrics may be up, by the phases.                       *)
OneFabric ==
    ~IsPredeclared =>
        /\ ~(DirectOwned /\ SwitchOwned)
        /\ Entered /\ ~HasPhase("idle-restored") => ~SwitchOwned
        /\ ValidOriginal(original) /\ (~Entered \/ HasPhase("idle-restored")) => ~DirectOwned

HandlerInv == NetTypes /\ RulesRead /\ Reviewing /\ Restoring
NetInv == HandlerInv /\ OneFabric

-----------------------------------------------------------------------------
(* Ports, commands and programs.                                            *)

LEMMA PortNames ==
    /\ SwitchPorts = {"switch1", "switch2"} /\ Rules = {1, 2}
    /\ Ports = {"direct", "sibling", "switch1", "switch2"}
    /\ Switch[1] = "switch1" /\ Switch[2] = "switch2"
<1>1. SwitchPorts = {"switch1", "switch2"}
  <2>1. DOMAIN Switch = {1, 2} /\ Switch[1] = "switch1" /\ Switch[2] = "switch2"
    BY DEF Switch
  <2> QED
    BY <2>1 DEF SwitchPorts, ToSet
<1>2. Rules = {1, 2}
  BY DEF Rules
<1> QED
  BY <1>1, <1>2 DEF Ports, DirectPorts, Switch

(* An order tells a command from a check, and a command its target.         *)
LEMMA OrderShapes ==
    ASSUME NEW l \in Orders
    PROVE  /\ l = <<l[1], l[2]>>
           /\ l[1] = "check" <=> l \in Checks
           /\ l \notin Checks => l \in Commands
           /\ l \in Commands =>
                 /\ l[1] \in {"fabric-stop", "fabric-start"} => l[2] = Host
                 /\ l[1] \in {"switch-disconnect", "switch-admin-down", "switch-up",
                              "switch-metric", "switch-mtu", "switch-arp"} => l[2] \in SwitchPorts
                 /\ l[1] \in {"direct-down", "direct-delete", "direct-mtu", "direct-admin"} =>
                       l[2] = "direct"
                 /\ l[1] = "direct-arp" => l[2] \in DirectPorts
                 /\ l[1] \in {"firewall-insert", "firewall-remove"} => l[2] \in Rules
  BY DEF Orders, Commands, Checks

IsProgram(s, n) == s \in Seq(Orders) /\ Len(s) = n

\* Two programs of orders one after the other are a program.
LEMMA Joined ==
    ASSUME NEW s, NEW m \in Nat, IsProgram(s, m), NEW t, NEW n \in Nat, IsProgram(t, n)
    PROVE  IsProgram(s \o t, m + n)
<1>1. s \in Seq(Orders) /\ t \in Seq(Orders) /\ Len(s) = m /\ Len(t) = n
  BY DEF IsProgram
<1>2. s \o t \in Seq(Orders) /\ Len(s \o t) = Len(s) + Len(t)
  BY <1>1, ConcatProperties
<1> QED
  BY <1>1, <1>2 DEF IsProgram

\* Entry, firewall insertion and the three restores are programs of the lengths the guard walks.
LEMMA Programs ==
    /\ IsProgram(Entry, 6) /\ IsProgram(Install, 3) /\ IsProgram(RestoreSwitch, 10)
    /\ IsProgram(Fallback, 19) /\ IsProgram(PredeclaredRestore, 3)
<1> DEFINE stop == <<<<"fabric-stop", Host>>>>
           start == <<<<"fabric-start", Host>>>>
           idle == <<<<"check", "idle">>>>
           switched == <<<<"check", "switched-restored">>>>
           predeclared == <<<<"check", "predeclared-restored">>>>
           down1 == Down(Switch[1])   down2 == Down(Switch[2])
           up1 == Up(Switch[1])       up2 == Up(Switch[2])
           direct == <<<<"direct-down", "direct">>, <<"direct-delete", "direct">>,
                 <<"direct-mtu", "direct">>, <<"direct-admin", "direct">>,
                 <<"direct-arp", "direct">>, <<"direct-arp", "sibling">>,
                 <<"check", "idle-restored">>>>
<1>1. /\ IsProgram(stop, 1) /\ IsProgram(start, 1) /\ IsProgram(idle, 1)
      /\ IsProgram(switched, 1) /\ IsProgram(predeclared, 1)
  BY DEF IsProgram, Orders, Commands, Checks
<1>2. IsProgram(down1, 2) /\ IsProgram(down2, 2) /\ IsProgram(up1, 4) /\ IsProgram(up2, 4)
  BY PortNames DEF IsProgram, Down, Up, Orders, Commands
<1>3. IsProgram(direct, 7)
  BY DEF IsProgram, Orders, Commands, Checks, DirectPorts
<1>4. IsProgram(Install, 3)
  BY PortNames DEF IsProgram, Install, Orders, Commands, Checks
<1>5. IsProgram(Removal, 2)
  BY PortNames DEF IsProgram, Removal, Orders, Commands
<1>6. /\ Entry = stop \o down1 \o down2 \o idle
      /\ RestoreSwitch = start \o up1 \o up2 \o switched
      /\ Fallback = Removal \o direct \o RestoreSwitch
      /\ PredeclaredRestore = Removal \o predeclared
  BY DEF Entry, RestoreSwitch, Fallback, PredeclaredRestore
<1> HIDE DEF stop, start, idle, switched, predeclared, down1, down2, up1, up2, direct
<1>7. IsProgram(Entry, 6)
  <2>1. IsProgram(stop \o down1, 1 + 2)
    BY <1>1, <1>2, Joined
  <2>2. IsProgram(stop \o down1 \o down2, 3 + 2)
    BY <1>2, <2>1, Joined
  <2>3. IsProgram(stop \o down1 \o down2 \o idle, 5 + 1)
    BY <1>1, <2>2, Joined
  <2> QED
    BY <1>6, <2>3
<1>8. IsProgram(RestoreSwitch, 10)
  <2>1. IsProgram(start \o up1, 1 + 4)
    BY <1>1, <1>2, Joined
  <2>2. IsProgram(start \o up1 \o up2, 5 + 4)
    BY <1>2, <2>1, Joined
  <2>3. IsProgram(start \o up1 \o up2 \o switched, 9 + 1)
    BY <1>1, <2>2, Joined
  <2> QED
    BY <1>6, <2>3
<1>9. IsProgram(Fallback, 19)
  <2>1. IsProgram(Removal \o direct, 2 + 7)
    BY <1>3, <1>5, Joined
  <2>2. IsProgram(Removal \o direct \o RestoreSwitch, 9 + 10)
    BY <1>8, <2>1, Joined
  <2> QED
    BY <1>6, <2>2
<1>10. IsProgram(PredeclaredRestore, 3)
  <2>1. IsProgram(Removal \o predeclared, 2 + 1)
    BY <1>1, <1>5, Joined
  <2> QED
    BY <1>6, <2>1
<1> QED
  BY <1>4, <1>7, <1>8, <1>9, <1>10

(* Only RestoreSwitch and Fallback bring the switch side up, and Fallback   *)
(* does it behind the check of the idle ports.                              *)
LEMMA ProgramOrder ==
    /\ \A i \in 1..6 : Entry[i][1] # "switch-up" /\ Entry[i] # <<"check", "idle-restored">>
    /\ \A i \in 1..3 : Install[i][1] # "switch-up" /\ Install[i] # <<"check", "idle-restored">>
    /\ \A i \in 1..10 : RestoreSwitch[i] # <<"check", "idle">>
    /\ \A i \in 1..3 : /\ PredeclaredRestore[i][1] # "switch-up"
                       /\ PredeclaredRestore[i] # <<"check", "idle">>
    /\ \A i \in 1..19 : /\ Fallback[i] # <<"check", "idle">>
                        /\ Fallback[i][1] = "switch-up" => i > 9
    /\ Fallback[9] = <<"check", "idle-restored">>
    /\ \A i \in 1..6 : Entry[i] # <<"check", "predeclared-restored">>
    /\ \A i \in 1..3 : Install[i] # <<"check", "predeclared-restored">>
    /\ \A i \in 1..10 : RestoreSwitch[i] # <<"check", "predeclared-restored">>
    /\ \A i \in 1..19 : Fallback[i] # <<"check", "predeclared-restored">>
<1>1. \A i \in 1..6 : Entry[i][1] # "switch-up" /\ Entry[i] # <<"check", "idle-restored">>
  BY SMT DEF Entry, Down, Switch
<1>2. \A i \in 1..3 : Install[i][1] # "switch-up" /\ Install[i] # <<"check", "idle-restored">>
  BY SMT DEF Install
<1>3. \A i \in 1..10 : RestoreSwitch[i] # <<"check", "idle">>
  BY SMT DEF RestoreSwitch, Up, Switch
<1>4. \A i \in 1..3 : /\ PredeclaredRestore[i][1] # "switch-up"
                     /\ PredeclaredRestore[i] # <<"check", "idle">>
  BY SMT DEF PredeclaredRestore, Removal
<1>5. \A i \in 1..19 : Fallback[i] # <<"check", "idle">>
  BY SMT DEF Fallback, Removal, RestoreSwitch, Up, Switch
<1>6. \A i \in 1..19 : Fallback[i][1] = "switch-up" => i > 9
  BY SMT DEF Fallback, Removal, RestoreSwitch, Up, Switch
<1>7. Fallback[9] = <<"check", "idle-restored">>
  BY SMT DEF Fallback, Removal, RestoreSwitch, Up, Switch
<1>8. \A i \in 1..6 : Entry[i] # <<"check", "predeclared-restored">>
  BY SMT DEF Entry, Down, Switch
<1>9. \A i \in 1..3 : Install[i] # <<"check", "predeclared-restored">>
  BY SMT DEF Install
<1>10. \A i \in 1..10 : RestoreSwitch[i] # <<"check", "predeclared-restored">>
  BY SMT DEF RestoreSwitch, Up, Switch
<1>11. \A i \in 1..19 : Fallback[i] # <<"check", "predeclared-restored">>
  BY SMT DEF Fallback, Removal, RestoreSwitch, Up, Switch
<1> QED
  BY <1>1, <1>2, <1>3, <1>4, <1>5, <1>6, <1>7, <1>8, <1>9, <1>10, <1>11

-----------------------------------------------------------------------------
(* Snapshots.                                                               *)

LEMMA PortTypes ==
    /\ IdlePort \in Port /\ ActivePort \in Port /\ DownPort \in Port
    /\ ActivePort.uuid = "own" /\ IdlePort.uuid = "none" /\ DownPort.uuid = "none"
    /\ Predeclared.ports \in [Ports -> Port] /\ Transient.ports \in [Ports -> Port]
    /\ Predeclared.ports["direct"] = [ActivePort EXCEPT !.mtu = "run", !.arp = Guard]
    /\ Predeclared.ports["sibling"] = [IdlePort EXCEPT !.arp = Guard]
<1>1. /\ IdlePort \in Port /\ ActivePort \in Port /\ DownPort \in Port
      /\ ActivePort.uuid = "own" /\ IdlePort.uuid = "none" /\ DownPort.uuid = "none"
  BY DEF Port, IdlePort, ActivePort, DownPort
<1>2. /\ [ActivePort EXCEPT !.mtu = "run", !.arp = Guard] \in Port
      /\ [IdlePort EXCEPT !.arp = Guard] \in Port
  BY <1>1 DEF Port
<1>3. Transient.ports = [p \in Ports |-> IF p \in SwitchPorts THEN ActivePort ELSE IdlePort]
  BY DEF Transient
<1>4. Predeclared.ports = [p \in Ports |->
                     IF p \in SwitchPorts THEN DownPort
                     ELSE IF p = "direct" THEN [ActivePort EXCEPT !.mtu = "run", !.arp = Guard]
                     ELSE [IdlePort EXCEPT !.arp = Guard]]
  BY DEF Predeclared, Transient
<1>5. Predeclared.ports \in [Ports -> Port] /\ Transient.ports \in [Ports -> Port]
  BY <1>1, <1>2, <1>3, <1>4
<1>6. /\ Predeclared.ports["direct"] = [ActivePort EXCEPT !.mtu = "run", !.arp = Guard]
      /\ Predeclared.ports["sibling"] = [IdlePort EXCEPT !.arp = Guard]
  BY <1>4, PortNames
<1> QED
  BY <1>1, <1>5, <1>6

(* Replacing one port.                                                      *)
LEMMA PortUpdate ==
    ASSUME NEW n \in Snapshot, NEW p \in Ports, NEW d \in Port
    PROVE  /\ [n EXCEPT !.ports[p] = d] \in Snapshot
           /\ [n EXCEPT !.ports[p] = d].ports[p] = d
           /\ \A q \in Ports : q # p => [n EXCEPT !.ports[p] = d].ports[q] = n.ports[q]
<1> DEFINE m == [n EXCEPT !.ports[p] = d]
<1>1. n.ports \in [Ports -> Port]
  BY DEF Snapshot
<1>2. m.ports = [n.ports EXCEPT ![p] = d]
  BY DEF Snapshot
<1>3. m.ports \in [Ports -> Port] /\ m.ports[p] = d
      /\ \A q \in Ports : q # p => m.ports[q] = n.ports[q]
  BY <1>1, <1>2
<1>4. m = [n EXCEPT !.ports = m.ports]
  BY <1>2 DEF Snapshot
<1>5. m \in Snapshot
  <2> HIDE DEF m
  <2> QED
    BY <1>3, <1>4 DEF Snapshot
<1> QED
  BY <1>3, <1>5

\* Everything of m but its ports, its rules and its hooks is as in n.
SameElse(m, n) ==
    /\ m.fabric = n.fabric /\ m.idle = n.idle /\ m.ray = n.ray
    /\ m.work = n.work /\ m.profile = n.profile /\ m.rest = n.rest

\* The network m is n with port p replaced by d, whatever the hooks do.
Replaces(m, n, p, d) ==
    /\ m \in Snapshot /\ m.rules = n.rules /\ SameElse(m, n)
    /\ m.ports[p] = d
    /\ \A q \in Ports : q # p => m.ports[q] = n.ports[q]

\* An EXCEPT on one port, with or without the dispatcher flag, replaces that port alone.
LEMMA PortChange ==
    ASSUME NEW n \in Snapshot, NEW p \in Ports, NEW d \in Port, NEW b \in BOOLEAN, NEW m,
           \/ m = [n EXCEPT !.ports[p] = d]
           \/ m = [n EXCEPT !.ports[p] = d, !.dispatcher = b]
    PROVE  Replaces(m, n, p, d)
<1> DEFINE k == [n EXCEPT !.ports[p] = d]
<1>1. k \in Snapshot /\ k.ports[p] = d /\ \A q \in Ports : q # p => k.ports[q] = n.ports[q]
  BY PortUpdate
<1>2. k.rules = n.rules /\ SameElse(k, n)
  BY DEF Snapshot, SameElse
<1>3. m = k \/ m = [k EXCEPT !.dispatcher = b]
  OBVIOUS
<1> HIDE DEF k
<1>4. m \in Snapshot /\ m.ports = k.ports /\ m.rules = k.rules /\ SameElse(m, k)
  BY <1>1, <1>3 DEF Snapshot, SameElse
<1>5. SameElse(m, n)
  BY <1>2, <1>4 DEF SameElse
<1> QED
  BY <1>1, <1>2, <1>4, <1>5 DEF Replaces

\* Changing one field of a port to a value of its range leaves a port.
LEMMA FieldUpdate ==
    ASSUME NEW d \in Port
    PROVE  /\ \A b \in BOOLEAN : /\ [d EXCEPT !.addr = b] \in Port
                                 /\ [d EXCEPT !.up = b] \in Port
           /\ \A u \in {"none", "own", "foreign"} : [d EXCEPT !.uuid = u] \in Port
           /\ \A u \in {"none", "own", "foreign"}, b \in BOOLEAN :
                 [d EXCEPT !.uuid = u, !.addr = b] \in Port
           /\ \A r \in {"none", "own", "metric"} : [d EXCEPT !.route = r] \in Port
           /\ \A m \in {"base", "run"} : [d EXCEPT !.mtu = m] \in Port
           /\ \A a \in SUBSET Guard : [d EXCEPT !.arp = a] \in Port
  BY DEF Port

(* A baseline has nothing of the run or of others in it.                    *)
Fine(s) ==
    /\ s \in Snapshot /\ s.dispatcher = FALSE /\ s.rest = "same"
    /\ s.rules = [r \in Rules |-> 0]

\* A well-formed snapshot stays one when a port or a flag of it changes.
LEMMA FineKept ==
    ASSUME NEW s, Fine(s)
    PROVE  /\ \A p \in Ports, d \in Port : Fine([s EXCEPT !.ports[p] = d])
           /\ \A b \in BOOLEAN : Fine([s EXCEPT !.work = b]) /\ Fine([s EXCEPT !.profile = b])
<1>1. s \in Snapshot
  BY DEF Fine
<1>2. ASSUME NEW p \in Ports, NEW d \in Port
      PROVE  Fine([s EXCEPT !.ports[p] = d])
  <2>1. [s EXCEPT !.ports[p] = d] \in Snapshot
    BY <1>1, PortUpdate
  <2>2. /\ [s EXCEPT !.ports[p] = d].dispatcher = s.dispatcher
        /\ [s EXCEPT !.ports[p] = d].rest = s.rest
        /\ [s EXCEPT !.ports[p] = d].rules = s.rules
    BY <1>1 DEF Snapshot
  <2> QED
    BY <2>1, <2>2 DEF Fine
<1>3. ASSUME NEW b \in BOOLEAN
      PROVE  Fine([s EXCEPT !.work = b]) /\ Fine([s EXCEPT !.profile = b])
  BY DEF Fine, Snapshot
<1> QED
  BY <1>2, <1>3

\* Every baseline the guard can read is a well-formed snapshot.
LEMMA BaselineTypes ==
    ASSUME NEW o \in Baselines
    PROVE  Fine(o)
<1>1. Fine(Transient)
  <2>1. Transient.ports \in [Ports -> Port]
    BY PortTypes
  <2> DEFINE ports == Transient.ports
  <2>2. Transient = [fabric |-> "exited", idle |-> "exited", ray |-> "dead", work |-> FALSE,
              ports |-> ports, profile |-> FALSE, rules |-> [r \in Rules |-> 0],
              dispatcher |-> FALSE, rest |-> "same"]
    BY DEF Transient
  <2>3. [r \in Rules |-> 0] \in [Rules -> 0..1]
    OBVIOUS
  <2> HIDE DEF ports
  <2>4. ports \in [Ports -> Port]
    BY <2>1 DEF ports
  <2>5. Transient \in Snapshot
    BY <2>2, <2>3, <2>4 DEF Snapshot, Services
  <2> QED
    BY <2>2, <2>5 DEF Fine
<1>2. Fine(Predeclared)
  <2> DEFINE ports == Predeclared.ports
  <2>1. ports \in [Ports -> Port]
    BY PortTypes
  <2>2. Predeclared = [Transient EXCEPT !.fabric = "dead", !.profile = TRUE, !.ports = ports]
    BY DEF Predeclared, Transient
  <2> HIDE DEF ports
  <2> QED
    BY <1>1, <2>1, <2>2 DEF Fine, Snapshot, Services
<1>3. /\ Transient.ports["direct"] \in Port /\ Predeclared.ports["direct"] \in Port
      /\ Predeclared.ports["switch1"] \in Port
  BY PortTypes, PortNames
<1>4. Fine([Transient EXCEPT !.ports["switch2"] = DownPort])
  BY <1>1, FineKept, PortTypes, PortNames
<1>5. Fine([Transient EXCEPT !.ports["direct"].addr = TRUE])
  <2>1. [Transient.ports["direct"] EXCEPT !.addr = TRUE] \in Port
    BY <1>3, FieldUpdate
  <2>2. [Transient EXCEPT !.ports["direct"].addr = TRUE] =
            [Transient EXCEPT !.ports["direct"] = [Transient.ports["direct"] EXCEPT !.addr = TRUE]]
    OBVIOUS
  <2> QED
    BY <2>1, <2>2, <1>1, FineKept, PortNames
<1>6. Fine([Predeclared EXCEPT !.ports["direct"].uuid = "foreign"])
  <2>1. [Predeclared.ports["direct"] EXCEPT !.uuid = "foreign"] \in Port
    BY <1>3, FieldUpdate
  <2>2. [Predeclared EXCEPT !.ports["direct"].uuid = "foreign"] =
            [Predeclared EXCEPT !.ports["direct"] = [Predeclared.ports["direct"] EXCEPT !.uuid = "foreign"]]
    OBVIOUS
  <2> QED
    BY <2>1, <2>2, <1>2, FineKept, PortNames
<1>7. Fine([Predeclared EXCEPT !.ports["direct"].route = "metric"])
  <2>1. [Predeclared.ports["direct"] EXCEPT !.route = "metric"] \in Port
    BY <1>3, FieldUpdate
  <2>2. [Predeclared EXCEPT !.ports["direct"].route = "metric"] =
            [Predeclared EXCEPT !.ports["direct"] = [Predeclared.ports["direct"] EXCEPT !.route = "metric"]]
    OBVIOUS
  <2> QED
    BY <2>1, <2>2, <1>2, FineKept, PortNames
<1>8. Fine([Predeclared EXCEPT !.ports["switch1"].up = TRUE])
  <2>1. [Predeclared.ports["switch1"] EXCEPT !.up = TRUE] \in Port
    BY <1>3, FieldUpdate
  <2>2. [Predeclared EXCEPT !.ports["switch1"].up = TRUE] =
            [Predeclared EXCEPT !.ports["switch1"] = [Predeclared.ports["switch1"] EXCEPT !.up = TRUE]]
    OBVIOUS
  <2> QED
    BY <2>1, <2>2, <1>2, FineKept, PortNames
<1>9. /\ Fine([Transient EXCEPT !.work = TRUE]) /\ Fine([Transient EXCEPT !.profile = TRUE])
      /\ Fine([Predeclared EXCEPT !.profile = FALSE])
  BY <1>1, <1>2, FineKept
<1> QED
  BY <1>1, <1>2, <1>4, <1>5, <1>6, <1>7, <1>8, <1>9 DEF Baselines

(* What a command may do to the network.                                    *)
LEMMA CommandShape ==
    ASSUME NetTypes, Busy
    PROVE  Command \in Orders /\ (~IsCheck => Command \in Commands) /\ (IsCheck => Command \in Checks)
<1>1. handler.todo \in Seq(Orders) /\ handler.todo # <<>>
  BY DEF NetTypes
<1>2. Command \in Orders
  BY <1>1 DEF Command
<1> QED
  BY <1>2, OrderShapes DEF IsCheck

\* What the command l makes of a port that is d and was o at first.
Upped == [uuid |-> "own", addr |-> TRUE, up |-> TRUE, mtu |-> "run", arp |-> Guard,
          route |-> "metric"]
Taken(l, d, o) ==
    IF l[1] \in {"switch-disconnect", "direct-down"} THEN Off(d)
    ELSE IF l[1] = "switch-admin-down" THEN [d EXCEPT !.up = FALSE]
    ELSE IF l[1] = "switch-up" THEN Upped
    ELSE IF l[1] = "switch-metric" THEN [d EXCEPT !.route = "own"]
    ELSE IF l[1] \in {"switch-mtu", "direct-mtu"} THEN [d EXCEPT !.mtu = o.mtu]
    ELSE IF l[1] \in {"switch-arp", "direct-arp"} THEN [d EXCEPT !.arp = o.arp]
    ELSE IF l[1] = "direct-admin" THEN [d EXCEPT !.up = o.up]
    ELSE d

PortCommands == {"switch-disconnect", "direct-down", "switch-admin-down", "switch-up",
                 "switch-metric", "switch-mtu", "direct-mtu", "switch-arp", "direct-arp",
                 "direct-admin"}

\* What no step of the run changes.
SameAside(m, n) == m.idle = n.idle /\ m.ray = n.ray /\ m.work = n.work /\ m.rest = n.rest

\* The network behind the command l, field by field.
Takes(l) ==
    /\ net' \in Snapshot
    /\ SameAside(net', net)
    /\ l[1] \notin PortCommands => net'.dispatcher = net.dispatcher
    /\ net'.fabric = IF l[1] = "fabric-stop" THEN "dead"
                     ELSE IF l[1] = "fabric-start" THEN "exited" ELSE net.fabric
    /\ net'.profile = IF l[1] = "direct-delete" THEN FALSE ELSE net.profile
    /\ \A r \in Rules :
          net'.rules[r] = IF l = <<"firewall-insert", r>> THEN 1
                          ELSE IF l = <<"firewall-remove", r>> THEN 0 ELSE net.rules[r]
    /\ \A q \in Ports :
          net'.ports[q] =
              IF l[1] = "fabric-stop" THEN IF q \in Disconnects THEN Off(net.ports[q]) ELSE net.ports[q]
              ELSE IF l[1] = "direct-delete"
                   THEN IF q = "direct" /\ net.ports[q].uuid = "own" THEN Off(net.ports[q]) ELSE net.ports[q]
              ELSE IF l[1] \in PortCommands /\ l[2] = q
                   THEN Taken(l, net.ports[q], original.ports[q])
                   ELSE net.ports[q]

\* A profile that is deleted takes its address with it, and nothing else.
LEMMA ProfileGone ==
    ASSUME net \in Snapshot, net' = WithoutProfile
    PROVE  /\ net' \in Snapshot /\ net'.profile = FALSE
           /\ SameAside(net', net) /\ net'.dispatcher = net.dispatcher
           /\ net'.fabric = net.fabric /\ net'.rules = net.rules
           /\ net'.ports = [q \in Ports |-> IF q = "direct" /\ net.ports[q].uuid = "own"
                                            THEN Off(net.ports[q]) ELSE net.ports[q]]
<1> DEFINE d == IF net.ports["direct"].uuid = "own" THEN Off(net.ports["direct"])
                ELSE net.ports["direct"]
           k == [net EXCEPT !.profile = FALSE]
<1>1. net.ports \in [Ports -> Port] /\ "direct" \in Ports
  BY PortNames DEF Snapshot
<1>2. d \in Port
  BY <1>1 DEF Off, Port
<1>3. /\ k \in Snapshot /\ k.profile = FALSE /\ SameAside(k, net) /\ k.dispatcher = net.dispatcher
      /\ k.fabric = net.fabric /\ k.rules = net.rules /\ k.ports = net.ports
  BY DEF Snapshot, SameAside
<1>4. net' = [k EXCEPT !.ports["direct"] = d]
  BY <1>1 DEF WithoutProfile, Snapshot
<1>5. net'.dispatcher = k.dispatcher
  BY <1>3, <1>4 DEF Snapshot
<1> HIDE DEF d, k
<1>6. /\ net' \in Snapshot /\ net'.ports["direct"] = d /\ net'.rules = k.rules
      /\ SameElse(net', k) /\ \A q \in Ports : q # "direct" => net'.ports[q] = k.ports[q]
  <2>1. Replaces(net', k, "direct", d)
    BY <1>1, <1>2, <1>3, <1>4, PortChange
  <2> QED
    BY <2>1 DEF Replaces
<1> USE DEF d
<1>7. net'.ports \in [Ports -> Port]
  BY <1>6 DEF Snapshot
<1>8. \A q \in Ports : net'.ports[q] = IF q = "direct" /\ net.ports[q].uuid = "own"
                                       THEN Off(net.ports[q]) ELSE net.ports[q]
  BY <1>3, <1>6
<1> QED
  BY <1>3, <1>5, <1>6, <1>7, <1>8 DEF SameAside, SameElse

\* What a command makes of a port is a port.
LEMMA TakenTypes ==
    ASSUME NEW l \in Commands, NEW d \in Port, NEW o \in Port
    PROVE  Taken(l, d, o) \in Port
<1>1. Off(d) \in Port /\ Upped \in Port
  BY DEF Off, Upped, Port
<1>2. o.up \in BOOLEAN /\ o.mtu \in {"base", "run"} /\ o.arp \in SUBSET Guard
  BY DEF Port
<1> QED
  BY <1>1, <1>2, FieldUpdate DEF Taken

(* A command that takes changes its target alone.                           *)
LEMMA TakesEffect ==
    ASSUME NetTypes, RulesRead, Busy, handler.sent, Effect(Command)
    PROVE  Takes(Command)
<1> DEFINE l == Command
           p == l[2]
<1> SUFFICES Takes(l)
  OBVIOUS
<1>1. /\ l \in Commands /\ l \in Orders /\ l \notin Checks /\ l = <<l[1], l[2]>>
  BY CommandShape, OrderShapes DEF NetTypes, IsCheck
<1>2. /\ l[1] \in {"switch-disconnect", "switch-admin-down", "switch-up",
                     "switch-metric", "switch-mtu", "switch-arp"} => p \in SwitchPorts
      /\ l[1] \in {"direct-down", "direct-delete", "direct-mtu", "direct-admin"} => p = "direct"
      /\ l[1] = "direct-arp" => p \in DirectPorts
      /\ l[1] \in {"firewall-insert", "firewall-remove"} => p \in Rules
  BY <1>1, OrderShapes
<1>3. /\ net \in Snapshot /\ original \in Snapshot
      /\ net.ports \in [Ports -> Port] /\ original.ports \in [Ports -> Port]
      /\ net.rules \in [Rules -> 0..1]
  BY BaselineTypes DEF NetTypes, Snapshot, Fine
<1>4. /\ l[1] = "firewall-insert" => net.rules[p] = 0
      /\ l[1] = "firewall-remove" => net.rules[p] = 1
  BY DEF RulesRead
<1>5. l[1] \in PortCommands => p \in Ports
  BY <1>2, PortNames DEF DirectPorts, PortCommands
<1>6. Lingers \in BOOLEAN
  BY NetworkAssumption
<1>7. \A r \in Rules : /\ l = <<"firewall-insert", r>> <=> l[1] = "firewall-insert" /\ p = r
                       /\ l = <<"firewall-remove", r>> <=> l[1] = "firewall-remove" /\ p = r
  BY <1>1
<1> HIDE DEF l, p
<1>8. ASSUME l[1] \in PortCommands,
             Replaces(net', net, p, Taken(l, net.ports[p], original.ports[p]))
      PROVE  Takes(l)
  <2>1. /\ l[1] \notin {"fabric-stop", "fabric-start", "direct-delete",
                        "firewall-insert", "firewall-remove"}
    BY <1>8 DEF PortCommands
  <2> DEFINE d == Taken(l, net.ports[p], original.ports[p])
  <2>2. /\ net' \in Snapshot /\ net'.rules = net.rules /\ SameElse(net', net)
        /\ net'.ports[p] = d
        /\ \A q \in Ports : q # p => net'.ports[q] = net.ports[q]
    BY <1>8 DEF Replaces
  <2>3. \A q \in Ports : net'.ports[q] = IF p = q THEN Taken(l, net.ports[q], original.ports[q])
                                         ELSE net.ports[q]
    BY <2>2
  <2> HIDE DEF d
  <2> QED
    BY <1>7, <1>8, <2>1, <2>2, <2>3 DEF Takes, SameElse, SameAside, p
<1>9. ASSUME l[1] \in PortCommands,
             LET d == Taken(l, net.ports[p], original.ports[p])
             IN  \/ net' = [net EXCEPT !.ports[p] = d]
                 \/ net' = [net EXCEPT !.ports[p] = d, !.dispatcher = Lingers]
      PROVE  Takes(l)
  <2> DEFINE d == Taken(l, net.ports[p], original.ports[p])
  <2>1. p \in Ports /\ net.ports[p] \in Port /\ original.ports[p] \in Port
    BY <1>3, <1>5, <1>9
  <2>2. d \in Port
    BY <1>1, <1>9, <2>1, TakenTypes DEF l
  <2>3. \/ net' = [net EXCEPT !.ports[p] = d]
        \/ net' = [net EXCEPT !.ports[p] = d, !.dispatcher = Lingers]
    BY <1>9
  <2>4. ASSUME NEW e, e = d PROVE Replaces(net', net, p, e)
    <3> HIDE DEF d
    <3> QED
      BY <1>3, <1>6, <2>1, <2>2, <2>3, <2>4, PortChange
  <2> QED
    BY <1>8, <1>9, <2>4
<1>10. ASSUME l[1] \notin PortCommands,
              net' \in Snapshot, SameAside(net', net), net'.dispatcher = net.dispatcher,
              net'.ports = IF l[1] = "fabric-stop"
                           THEN [q \in Ports |-> IF q \in Disconnects THEN Off(net.ports[q]) ELSE net.ports[q]]
                           ELSE IF l[1] = "direct-delete"
                           THEN [q \in Ports |-> IF q = "direct" /\ net.ports[q].uuid = "own"
                                                 THEN Off(net.ports[q]) ELSE net.ports[q]]
                           ELSE net.ports,
              net'.fabric = IF l[1] = "fabric-stop" THEN "dead"
                     ELSE IF l[1] = "fabric-start" THEN "exited" ELSE net.fabric,
              net'.profile = IF l[1] = "direct-delete" THEN FALSE ELSE net.profile,
              net'.rules = IF l[1] = "firewall-insert" THEN [net.rules EXCEPT ![p] = 1]
                           ELSE IF l[1] = "firewall-remove" THEN [net.rules EXCEPT ![p] = 0]
                           ELSE net.rules
       PROVE  Takes(l)
  <2>1. \A r \in Rules :
          net'.rules[r] = IF l = <<"firewall-insert", r>> THEN 1
                          ELSE IF l = <<"firewall-remove", r>> THEN 0 ELSE net.rules[r]
    BY <1>3, <1>7, <1>10
  <2>2. \A q \in Ports :
          net'.ports[q] =
              IF l[1] = "fabric-stop" THEN IF q \in Disconnects THEN Off(net.ports[q]) ELSE net.ports[q]
              ELSE IF l[1] = "direct-delete"
                   THEN IF q = "direct" /\ net.ports[q].uuid = "own" THEN Off(net.ports[q]) ELSE net.ports[q]
              ELSE net.ports[q]
    BY <1>10
  <2> QED
    BY <1>10, <2>1, <2>2 DEF Takes
<1>a. CASE l[1] = "fabric-stop" /\ net' = [net EXCEPT !.fabric = "dead",
             !.ports = [q \in Ports |-> IF q \in Disconnects THEN Off(@[q]) ELSE @[q]]]
  <2>1. \A d \in Port : Off(d) \in Port
    BY DEF Off, Port
  <2>2. [q \in Ports |-> IF q \in Disconnects THEN Off(net.ports[q]) ELSE net.ports[q]] \in [Ports -> Port]
    BY <1>3, <2>1
  <2>3. /\ net' \in Snapshot /\ SameAside(net', net) /\ net'.dispatcher = net.dispatcher
        /\ net.profile' = net.profile /\ net.rules' = net.rules
        /\ net'.fabric = "dead"
        /\ net'.ports = [q \in Ports |-> IF q \in Disconnects THEN Off(net.ports[q]) ELSE net.ports[q]]
    BY <1>a, <1>3, <2>2 DEF Snapshot, Services, SameAside
  <2> QED
    BY <1>a, <2>3, <1>10 DEF PortCommands
<1>b. CASE l[1] = "fabric-start" /\ net' = [net EXCEPT !.fabric = "exited"]
  <2>1. /\ net' \in Snapshot /\ net'.fabric = "exited"
        /\ SameAside(net', net) /\ net'.dispatcher = net.dispatcher
        /\ net.profile' = net.profile /\ net.rules' = net.rules /\ net.ports' = net.ports
    BY <1>b, <1>3 DEF Snapshot, Services, SameAside
  <2> QED
    BY <1>b, <2>1, <1>10 DEF PortCommands
<1>c. CASE /\ l[1] \in {"switch-disconnect", "direct-down"}
           /\ net' = [net EXCEPT !.ports[p] = Off(@), !.dispatcher = Lingers]
  <2>1. l[1] \in PortCommands /\ Taken(l, net.ports[p], original.ports[p]) = Off(net.ports[p])
    BY <1>c DEF PortCommands, Taken
  <2>2. net' = [net EXCEPT !.ports[p] = Off(net.ports[p]), !.dispatcher = Lingers]
    BY <1>c
  <2> QED
    BY <1>9, <2>1, <2>2
<1>d. CASE l[1] = "switch-admin-down" /\ net' = [net EXCEPT !.ports[p].up = FALSE]
  <2>1. /\ l[1] \in PortCommands
        /\ Taken(l, net.ports[p], original.ports[p]) = [net.ports[p] EXCEPT !.up = FALSE]
    BY <1>d DEF PortCommands, Taken
  <2>2. net' = [net EXCEPT !.ports[p] = [net.ports[p] EXCEPT !.up = FALSE]]
    BY <1>d
  <2> QED
    BY <1>9, <2>1, <2>2
<1>e. CASE /\ l[1] = "switch-up"
           /\ net' = [net EXCEPT !.ports[p] = [uuid |-> "own", addr |-> TRUE, up |-> TRUE,
                                 mtu |-> "run", arp |-> Guard, route |-> "metric"],
                                 !.dispatcher = Lingers]
  <2>1. l[1] \in PortCommands /\ Taken(l, net.ports[p], original.ports[p]) = Upped
    BY <1>e DEF PortCommands, Taken
  <2>2. net' = [net EXCEPT !.ports[p] = Upped, !.dispatcher = Lingers]
    BY <1>e DEF Upped
  <2> QED
    BY <1>9, <2>1, <2>2
<1>f. CASE l[1] = "switch-metric" /\ net' = [net EXCEPT !.ports[p].route = "own"]
  <2>1. /\ l[1] \in PortCommands
        /\ Taken(l, net.ports[p], original.ports[p]) = [net.ports[p] EXCEPT !.route = "own"]
    BY <1>f DEF PortCommands, Taken
  <2>2. net' = [net EXCEPT !.ports[p] = [net.ports[p] EXCEPT !.route = "own"]]
    BY <1>f
  <2> QED
    BY <1>9, <2>1, <2>2
<1>g. CASE l[1] \in {"switch-mtu", "direct-mtu"} /\ net' = [net EXCEPT !.ports[p].mtu = original.ports[p].mtu]
  <2>1. /\ l[1] \in PortCommands
        /\ Taken(l, net.ports[p], original.ports[p]) = [net.ports[p] EXCEPT !.mtu = original.ports[p].mtu]
    BY <1>g DEF PortCommands, Taken
  <2>2. net' = [net EXCEPT !.ports[p] = [net.ports[p] EXCEPT !.mtu = original.ports[p].mtu]]
    BY <1>g
  <2> QED
    BY <1>9, <2>1, <2>2
<1>h. CASE l[1] \in {"switch-arp", "direct-arp"} /\ net' = [net EXCEPT !.ports[p].arp = original.ports[p].arp]
  <2>1. /\ l[1] \in PortCommands
        /\ Taken(l, net.ports[p], original.ports[p]) = [net.ports[p] EXCEPT !.arp = original.ports[p].arp]
    BY <1>h DEF PortCommands, Taken
  <2>2. net' = [net EXCEPT !.ports[p] = [net.ports[p] EXCEPT !.arp = original.ports[p].arp]]
    BY <1>h
  <2> QED
    BY <1>9, <2>1, <2>2
<1>i. CASE l[1] = "direct-admin" /\ net' = [net EXCEPT !.ports[p].up = original.ports[p].up]
  <2>1. /\ l[1] \in PortCommands
        /\ Taken(l, net.ports[p], original.ports[p]) = [net.ports[p] EXCEPT !.up = original.ports[p].up]
    BY <1>i DEF PortCommands, Taken
  <2>2. net' = [net EXCEPT !.ports[p] = [net.ports[p] EXCEPT !.up = original.ports[p].up]]
    BY <1>i
  <2> QED
    BY <1>9, <2>1, <2>2
<1>j. CASE l[1] = "direct-delete" /\ net' = WithoutProfile
  <2>1. /\ net' \in Snapshot /\ net'.profile = FALSE
        /\ SameAside(net', net) /\ net'.dispatcher = net.dispatcher /\ net'.fabric = net.fabric
        /\ net'.rules = net.rules
        /\ net'.ports = [q \in Ports |-> IF q = "direct" /\ net.ports[q].uuid = "own"
                                         THEN Off(net.ports[q]) ELSE net.ports[q]]
    BY <1>j, <1>3, ProfileGone
  <2> QED
    BY <1>j, <2>1, <1>10 DEF PortCommands
<1>k. CASE \/ l[1] = "firewall-insert" /\ net' = [net EXCEPT !.rules[p] = @ + 1]
           \/ l[1] = "firewall-remove" /\ net' = [net EXCEPT !.rules[p] = @ - 1]
  <2> DEFINE v == IF l[1] = "firewall-insert" THEN 1 ELSE 0
  <2>1. net' = [net EXCEPT !.rules[p] = v] /\ v \in 0..1 /\ p \in Rules
    BY <1>k, <1>2, <1>4
  <2>2. [net.rules EXCEPT ![p] = v] \in [Rules -> 0..1]
    BY <1>3, <2>1
  <2>3. /\ net' \in Snapshot /\ net'.rules = [net.rules EXCEPT ![p] = v]
        /\ SameAside(net', net) /\ net'.dispatcher = net.dispatcher /\ net.fabric' = net.fabric
        /\ net.profile' = net.profile /\ net.ports' = net.ports
    BY <1>3, <2>1, <2>2 DEF Snapshot, SameAside
  <2> QED
    BY <1>k, <2>3, <1>10 DEF PortCommands
<1> QED
  BY <1>a, <1>b, <1>c, <1>d, <1>e, <1>f, <1>g, <1>h, <1>i, <1>j, <1>k DEF Effect, l, p

\* An effect leaves a snapshot, and only switch-up makes a profile of this run appear on a port.
LEMMA EffectTypes ==
    ASSUME NetTypes, RulesRead, Busy, handler.sent, Effect(Command)
    PROVE  /\ net' \in Snapshot
           /\ net'.ports["direct"].uuid = "own" => net.ports["direct"].uuid = "own"
           /\ \A p \in SwitchPorts :
                 net'.ports[p].uuid = "own" => net.ports[p].uuid = "own" \/ Command[1] = "switch-up"
<1> DEFINE l == Command
<1>1. l \in Commands /\ (l[1] = "switch-up" => l[2] \in SwitchPorts)
  BY CommandShape, OrderShapes DEF NetTypes, IsCheck
<1>2. Takes(l)
  BY TakesEffect
<1>3. net.ports \in [Ports -> Port] /\ original.ports \in [Ports -> Port]
  BY BaselineTypes DEF NetTypes, Snapshot, Fine
<1> HIDE DEF l
<1>4. \A d, o \in Port : /\ Off(d).uuid = "none"
                         /\ Taken(l, d, o).uuid = "own" => d.uuid = "own" \/ l[1] = "switch-up"
  BY DEF Off, Taken, Port
<1>5. \A q \in Ports : net'.ports[q].uuid = "own" =>
            net.ports[q].uuid = "own" \/ (l[1] = "switch-up" /\ l[2] = q)
  BY <1>2, <1>3, <1>4 DEF Takes
<1> QED
  BY <1>1, <1>2, <1>5, PortNames DEF Takes, l

-----------------------------------------------------------------------------
(* How a step moves the handler.                                            *)

Calls == [op : Operations, todo : Seq(Orders), sent : BOOLEAN]

\* After an order is finished the handler holds the rest of the program, nothing sent.
LEMMA Advanced ==
    ASSUME NetTypes, Busy, handler' \in {Nobody, Next1(handler)}
    PROVE  /\ handler' \in Calls /\ ~handler'.sent
           /\ handler' # Nobody => handler'.todo # <<>> /\ handler'.op = handler.op
           /\ \A j \in DOMAIN handler'.todo :
                 /\ j \in Nat /\ j >= 1
                 /\ j + 1 \in DOMAIN handler.todo
                 /\ handler'.todo[j] = handler.todo[j + 1]
                 /\ handler'.op = handler.op
           /\ Command = handler.todo[1] /\ 1 \in DOMAIN handler.todo
<1> DEFINE s == handler.todo
<1>1. s \in Seq(Orders) /\ s # <<>>
  BY DEF NetTypes
<1>2. /\ Head(s) = s[1] /\ Len(s) \in Nat /\ Len(s) >= 1 /\ DOMAIN s = 1..Len(s)
      /\ Tail(s) \in Seq(Orders) /\ Len(Tail(s)) = Len(s) - 1
      /\ \A j \in 1..(Len(s) - 1) : Tail(s)[j] = s[j + 1]
  BY <1>1
<1>3. DOMAIN Tail(s) = 1..(Len(s) - 1)
  BY <1>2
<1>4. CASE handler' = Nobody
  <2>1. handler' \in Calls /\ ~handler'.sent /\ handler'.todo = <<>>
    BY <1>4 DEF Nobody, Calls, Operations
  <2> QED
    BY <1>2, <1>4, <2>1 DEF Command
<1>5. CASE handler' # Nobody
  <2>1. handler' = [handler EXCEPT !.todo = Tail(s), !.sent = FALSE] /\ Len(s) # 1
    BY <1>5 DEF Next1
  <2> HIDE DEF s
  <2>2. handler \in Calls
    BY DEF NetTypes, Calls
  <2>3. /\ handler' \in Calls /\ ~handler'.sent /\ handler'.todo = Tail(s)
        /\ handler'.op = handler.op
    BY <1>2, <2>1, <2>2 DEF Calls
  <2>4. Tail(s) # <<>>
    BY <1>2, <2>1
  <2> QED
    BY <1>2, <1>3, <2>3, <2>4 DEF Command, s
<1> QED
  BY <1>4, <1>5

\* With the snapshot kept, its validity and its kind stay what they were.
LEMMA SameOriginal ==
    ASSUME UNCHANGED <<lifecycle, original>>
    PROVE  /\ ValidOriginal(original)' <=> ValidOriginal(original)
           /\ IsPredeclared' <=> IsPredeclared
  BY DEF ValidOriginal, IsPredeclared

(* A handler goes on to its next order, or ends.                            *)
LEMMA GoesOn ==
    ASSUME HandlerInv, Busy, Frame, net' \in Snapshot,
           handler' \in {Nobody, Next1(handler)},
           files \subseteq files', files' \subseteq Written,
           Entered' => Entered \/ handler.op # "restore",
           HasPhase("idle-restored")' =>
               HasPhase("idle-restored") \/ Command = <<"check", "idle-restored">>,
           Command = <<"check", "idle-restored">> =>
               HasPhase("idle-restored")' \/ handler' = Nobody
    PROVE  HandlerInv'
<1> USE DEF HandlerInv
<1>1. UNCHANGED <<lifecycle, original, script, closed, drift>>
  BY DEF Frame
<1>2. /\ handler' \in Calls /\ ~handler'.sent
      /\ handler' # Nobody => handler'.todo # <<>> /\ handler'.op = handler.op
      /\ Command = handler.todo[1] /\ 1 \in DOMAIN handler.todo
  BY Advanced
<1>3. \A j \in DOMAIN handler'.todo :
         /\ j \in Nat /\ j >= 1 /\ j + 1 \in DOMAIN handler.todo
         /\ handler'.todo[j] = handler.todo[j + 1] /\ handler'.op = handler.op
  BY Advanced
<1>4. NetTypes'
  BY <1>1, <1>2 DEF NetTypes, Calls, Busy
<1>5. RulesRead'
  BY <1>2 DEF RulesRead
<1>6. Reviewing'
  BY <1>1, SameOriginal DEF Reviewing
<1>7. (handler.op = "restore" =>
          closed /\ \A j \in DOMAIN handler.todo : handler.todo[j] # <<"check", "idle">>)'
  <2>1. handler'.op = "restore" => handler.op = "restore"
    BY <1>2 DEF Nobody
  <2> QED
    BY <1>1, <1>3, <2>1 DEF Restoring
<1>8. (Busy /\ handler.op # "restore" =>
          \A j \in DOMAIN handler.todo : /\ handler.todo[j][1] # "switch-up"
                                         /\ handler.todo[j] # <<"check", "idle-restored">>)'
  BY <1>3 DEF Restoring, Busy
<1>9. (\A j \in DOMAIN handler.todo :
          handler.todo[j][1] = "switch-up" =>
              \/ ~Entered \/ HasPhase("idle-restored")
              \/ \E i \in 1..(j - 1) : handler.todo[i] = <<"check", "idle-restored">>)'
  <2> SUFFICES ASSUME NEW j \in DOMAIN handler'.todo, handler'.todo[j][1] = "switch-up",
                      Entered', ~HasPhase("idle-restored")'
               PROVE  \E i \in 1..(j - 1) : handler'.todo[i] = <<"check", "idle-restored">>
    OBVIOUS
  <2>1. j + 1 \in DOMAIN handler.todo /\ handler.todo[j + 1][1] = "switch-up"
    BY <1>3
  <2>2. handler.op = "restore" /\ Entered /\ ~HasPhase("idle-restored")
    BY <2>1 DEF Restoring, HasPhase, Has
  <2>3. PICK i \in 1..j : handler.todo[i] = <<"check", "idle-restored">>
    BY <1>3, <2>1, <2>2 DEF Restoring
  <2>4. handler' # Nobody
    BY DEF Nobody
  <2>5. i # 1
    BY <1>2, <2>3, <2>4
  <2>6. i - 1 \in 1..(j - 1) /\ i - 1 \in DOMAIN handler'.todo
    <3>1. j \in Nat /\ handler'.todo \in Seq(Orders)
      BY <1>2, <1>3 DEF Calls
    <3> QED
      BY <3>1, <2>5
  <2>7. handler'.todo[i - 1] = handler.todo[i]
    BY <1>3, <2>6
  <2> QED
    BY <2>3, <2>6, <2>7
<1>10. (\A j \in DOMAIN handler.todo :
          handler.todo[j] = <<"check", "predeclared-restored">> => IsPredeclared)'
  BY <1>1, <1>3, SameOriginal DEF Restoring
<1>11. (HasPhase("idle-restored") => closed)'
  BY <1>1, <1>2 DEF Restoring
<1>12. Restoring'
  BY <1>7, <1>8, <1>9, <1>10, <1>11 DEF Restoring
<1> QED
  BY <1>4, <1>5, <1>6, <1>12

(* A handler begins, with the program of its operation (n orders) or none.  *)
Suits(op, todo, written, n) ==
    /\ op \in Operations /\ n \in Nat /\ IsProgram(todo, n) /\ (n > 0 <=> op # "none")
    /\ written \subseteq {Phase(p) : p \in Phases} \ {Phase("idle-restored")}
    /\ op = "restore" => closed /\ \A j \in 1..n : todo[j] # <<"check", "idle">>
    /\ op # "restore" => \A j \in 1..n : /\ todo[j][1] # "switch-up"
                                         /\ todo[j] # <<"check", "idle-restored">>
    /\ \A j \in 1..n : todo[j][1] = "switch-up" =>
          \/ ~Entered /\ Phase("idle") \notin written
          \/ \E i \in 1..(j - 1) : todo[i] = <<"check", "idle-restored">>
    /\ \A j \in 1..n : todo[j] = <<"check", "predeclared-restored">> => IsPredeclared

\* An operation that opens with a program suiting it leaves the handler invariant true.
LEMMA Begins ==
    ASSUME HandlerInv, Opens, NEW op, NEW todo, NEW written, NEW n,
           Start(op, todo, written), Suits(op, todo, written, n)
    PROVE  HandlerInv'
<1> USE DEF HandlerInv
<1>1. /\ handler' = [op |-> op, todo |-> todo, sent |-> FALSE]
      /\ files' = files \cup written
      /\ UNCHANGED <<net, lifecycle, original, script, closed, drift>>
  BY DEF Start, Frame
<1>2. /\ todo \in Seq(Orders) /\ DOMAIN todo = 1..n /\ n \in Nat
      /\ todo # <<>> <=> n > 0
      /\ n > 0 <=> op # "none"
      /\ op \in Operations
  BY DEF IsProgram, Suits
<1>3. handler' \in Calls /\ handler'.op = op /\ handler'.todo = todo /\ ~handler'.sent
  BY <1>1, <1>2 DEF Calls
<1>4. handler' # Nobody => op # "none"
  <2>1. op = "none" => todo = <<>>
    BY <1>2
  <2> QED
    BY <1>1, <2>1 DEF Nobody
<1>5. NetTypes'
  <2>1. files' \subseteq Written
    BY <1>1 DEF NetTypes, Written, Suits
  <2> QED
    BY <1>1, <1>2, <1>3, <1>4, <2>1 DEF NetTypes, Calls, Busy
<1>6. RulesRead'
  BY <1>3 DEF RulesRead
<1>7. Reviewing'
  BY <1>1, SameOriginal DEF Reviewing, Opens
<1>8. Entered' => Entered \/ Phase("idle") \in written
  BY <1>1 DEF HasPhase, Has, Entered
<1>9. HasPhase("idle-restored")' <=> HasPhase("idle-restored")
  BY <1>1 DEF HasPhase, Has, Suits
<1>10. (\A j \in DOMAIN handler.todo :
          handler.todo[j][1] = "switch-up" =>
              \/ ~Entered \/ HasPhase("idle-restored")
              \/ \E i \in 1..(j - 1) : handler.todo[i] = <<"check", "idle-restored">>)'
  BY <1>2, <1>3, <1>8 DEF Suits
<1>11. Restoring'
  BY <1>1, <1>2, <1>3, <1>4, <1>9, <1>10, SameOriginal DEF Restoring, Suits
<1> QED
  BY <1>5, <1>6, <1>7, <1>11

(* A step of somebody who is no handler.                                    *)
LEMMA Around ==
    ASSUME HandlerInv, UNCHANGED <<lifecycle, original, files, handler>>,
           net' \in Snapshot, net'.rules = net.rules,
           closed' \in BOOLEAN, closed => closed', drift' \in 0..MaxDrift
    PROVE  HandlerInv'
<1> USE DEF HandlerInv
<1>1. UNCHANGED <<lifecycle, original, files, handler>>
  OBVIOUS
<1>2. NetTypes'
  BY <1>1 DEF NetTypes, Busy, IsCheck, Command, Has
<1>3. RulesRead'
  BY <1>1 DEF RulesRead, Command
<1>4. Reviewing'
  BY <1>1, SameOriginal DEF Reviewing, Busy, Entered, HasPhase, Has
<1>5. Restoring'
  BY <1>1, SameOriginal DEF Restoring, Busy, Entered, HasPhase, Has
<1> QED
  BY <1>2, <1>3, <1>4, <1>5

\* OneFabric survives a step that enters nothing, restores nothing and takes no port over.
LEMMA FabricKept ==
    ASSUME OneFabric, UNCHANGED <<lifecycle, original>>,
           ~IsPredeclared =>
               /\ Entered' <=> Entered
               /\ HasPhase("idle-restored")' <=> HasPhase("idle-restored")
               /\ DirectOwned' => DirectOwned
               /\ SwitchOwned' => SwitchOwned
    PROVE  OneFabric'
  BY SameOriginal DEF OneFabric

-----------------------------------------------------------------------------
(* The handlers' steps.                                                     *)

(* A handler that only writes a receipt.                                    *)
LEMMA Records ==
    ASSUME NetInv, Opens, NEW name \in Phases \ {"idle-restored"},
           Start("none", <<>>, {Phase(name)}), name = "idle" => IsPredeclared
    PROVE  NetInv'
<1>1. HandlerInv'
  <2>1. {Phase(name)} \subseteq {Phase(p) : p \in Phases} \ {Phase("idle-restored")}
    BY DEF Phase
  <2>2. IsProgram(<<>>, 0)
    BY DEF IsProgram
  <2>3. \A j \in 1..0 : FALSE
    OBVIOUS
  <2>4. Suits("none", <<>>, {Phase(name)}, 0)
    BY <2>1, <2>2, <2>3 DEF Suits, Operations
  <2> QED
    BY <2>4, Begins DEF NetInv
<1>2. UNCHANGED <<lifecycle, original, net>> /\ files' = files \cup {Phase(name)}
  BY DEF Start, Frame
<1>3. OneFabric'
  <2>1. name # "idle" => (Entered' <=> Entered)
    BY <1>2 DEF Entered, HasPhase, Has, Phase
  <2>2. HasPhase("idle-restored")' <=> HasPhase("idle-restored")
    BY <1>2 DEF HasPhase, Has, Phase
  <2> QED
    BY <1>2, <2>1, <2>2, FabricKept DEF DirectOwned, SwitchOwned, NetInv
<1> QED
  BY <1>1, <1>3 DEF NetInv

\* Entry begins with the invariant intact.
LEMMA EnterKeeps == ASSUME NetInv, Enter PROVE NetInv'
<1> USE DEF NetInv
<1>1. Opens
  BY DEF Enter
<1>2. CASE ~IsPredeclared /\ Start("enter", Entry, {Phase("transition-started")})
  <2>1. HandlerInv'
    <3>1. {Phase("transition-started")} \subseteq {Phase(p) : p \in Phases} \ {Phase("idle-restored")}
      BY DEF Phases, Phase
    <3>2. Suits("enter", Entry, {Phase("transition-started")}, 6)
      BY <3>1, Programs, ProgramOrder DEF Suits, Operations
    <3> QED
      BY <1>1, <1>2, <3>2, Begins
  <2>2. /\ UNCHANGED <<lifecycle, original, net>>
        /\ Entered' <=> Entered
        /\ HasPhase("idle-restored")' <=> HasPhase("idle-restored")
    BY <1>2 DEF Start, Frame, Entered, HasPhase, Has, Phase
  <2>3. OneFabric'
    BY <2>2, FabricKept DEF DirectOwned, SwitchOwned
  <2> QED
    BY <2>1, <2>3
<1>3. CASE IsPredeclared /\ Start("none", <<>>, {Phase("idle")})
  BY <1>1, <1>3, Records DEF Phases
<1> QED
  BY <1>2, <1>3 DEF Enter

\* The report that the direct link is ready keeps the invariant.
LEMMA DirectReadyKeeps == ASSUME NetInv, DirectReady PROVE NetInv'
  BY Records DEF DirectReady, Phases

\* The insertion of the firewall begins with the invariant intact.
LEMMA InstallKeeps == ASSUME NetInv, InstallFirewall PROVE NetInv'
<1> USE DEF NetInv
<1>1. Opens /\ Start("install", Install, {})
  BY DEF InstallFirewall
<1>2. HandlerInv'
  <2>1. Suits("install", Install, {}, 3)
    BY Programs, ProgramOrder DEF Suits, Operations
  <2> QED
    BY <1>1, <2>1, Begins
<1>3. /\ UNCHANGED <<lifecycle, original, net, files>>
  BY <1>1 DEF Start, Frame
<1>4. OneFabric'
  BY <1>3, FabricKept DEF DirectOwned, SwitchOwned, Entered, HasPhase, Has
<1> QED
  BY <1>2, <1>4

\* The restore begins, whichever of its programs it takes, with the invariant intact.
LEMMA RestoreKeeps == ASSUME NetInv, Restore PROVE NetInv'
<1> USE DEF NetInv
<1>1. Opens /\ closed
  BY DEF Restore
<1>2. CASE RestoreUnentered
  BY <1>1, <1>2, Records DEF RestoreUnentered, Phases
<1> DEFINE started == {Phase("restore-started")}
<1>3. /\ started \subseteq {Phase(p) : p \in Phases} \ {Phase("idle-restored")}
      /\ Phase("idle") \notin started /\ "restore" \in Operations
  BY DEF Phases, Phase, Operations
<1>4. ASSUME NEW todo, Start("restore", todo, started) PROVE OneFabric'
  <2>1. /\ UNCHANGED <<lifecycle, original, net>>
        /\ Entered' <=> Entered
        /\ HasPhase("idle-restored")' <=> HasPhase("idle-restored")
    BY <1>4 DEF Start, Frame, Entered, HasPhase, Has, Phase
  <2> QED
    BY <2>1, FabricKept DEF DirectOwned, SwitchOwned
<1> HIDE DEF started
<1>5. CASE RestorePartial
  <2>1. Start("restore", RestoreSwitch, started) /\ ~Entered
    BY <1>5 DEF RestorePartial, started
  <2>2. Suits("restore", RestoreSwitch, started, 10)
    BY <1>1, <1>3, <2>1, Programs, ProgramOrder DEF Suits
  <2>3. HandlerInv'
    BY <1>1, <2>1, <2>2, Begins
  <2> QED
    BY <1>4, <2>1, <2>3
<1>6. CASE RestoreEntered
  <2>1. CASE IsPredeclared
    <3>1. Start("restore", PredeclaredRestore, started)
      BY <1>6, <2>1 DEF RestoreEntered, started
    <3>2. Suits("restore", PredeclaredRestore, started, 3)
      BY <1>1, <1>3, <2>1, Programs, ProgramOrder DEF Suits
    <3>3. HandlerInv'
      BY <1>1, <3>1, <3>2, Begins
    <3> QED
      BY <1>4, <3>1, <3>3
  <2>2. CASE ~IsPredeclared
    <3>1. Start("restore", Fallback, started)
      BY <1>6, <2>2 DEF RestoreEntered, started
    <3>2. \A j \in 1..19 : Fallback[j][1] = "switch-up" =>
               \E i \in 1..(j - 1) : Fallback[i] = <<"check", "idle-restored">>
      <4> SUFFICES ASSUME NEW j \in 1..19, Fallback[j][1] = "switch-up"
                   PROVE  9 \in 1..(j - 1)
        BY ProgramOrder
      <4> QED
        BY ProgramOrder
    <3>3. Suits("restore", Fallback, started, 19)
      BY <1>1, <1>3, <3>2, Programs, ProgramOrder DEF Suits
    <3>4. HandlerInv'
      BY <1>1, <3>1, <3>3, Begins
    <3> QED
      BY <1>4, <3>1, <3>4
  <2> QED
    BY <2>1, <2>2
<1> QED
  BY <1>2, <1>5, <1>6 DEF Restore

\* Sending a command keeps the invariant.
LEMMA DispatchKeeps == ASSUME NetInv, Dispatch PROVE NetInv'
<1> USE DEF NetInv, HandlerInv
<1>1. /\ Busy /\ ~IsCheck /\ Permitted(Command) /\ Needed(Command)
      /\ handler' = [handler EXCEPT !.sent = TRUE]
      /\ files' = files \cup {Intent(Command)}
      /\ UNCHANGED <<net, lifecycle, original, script, closed, drift>>
  BY DEF Dispatch, Frame
<1>2. Command \in Commands
  BY <1>1, CommandShape
<1>3. /\ handler' \in Calls /\ handler'.op = handler.op /\ handler'.todo = handler.todo
      /\ handler' # Nobody
  BY <1>1 DEF NetTypes, Calls, Nobody
<1>4. Command' = Command /\ Busy' /\ ~IsCheck'
  BY <1>1, <1>3 DEF Command, Busy, IsCheck
<1>5. /\ Entered' <=> Entered
      /\ HasPhase("idle-restored")' <=> HasPhase("idle-restored")
  BY <1>1 DEF Entered, HasPhase, Has, Phase, Intent
<1>6. NetTypes'
  <2>1. files' \subseteq Written /\ Has(Intent(Command))'
    BY <1>1, <1>2, <1>4 DEF NetTypes, Written, Has
  <2> QED
    BY <1>1, <1>3, <1>4, <2>1 DEF NetTypes, Calls
<1>7. RulesRead'
  <2>1. net.rules \in [Rules -> 0..1]
    BY DEF NetTypes, Snapshot
  <2> QED
    BY <1>1, <1>4, <2>1 DEF RulesRead, Permitted, Needed
<1>8. Reviewing'
  BY <1>1, <1>5, SameOriginal DEF Reviewing
<1>9. Restoring'
  BY <1>1, <1>3, <1>5, SameOriginal DEF Restoring
<1>10. OneFabric'
  BY <1>1, <1>5, FabricKept DEF DirectOwned, SwitchOwned
<1> QED
  BY <1>6, <1>7, <1>8, <1>9, <1>10

(* A step of a handler that leaves the network and the files alone.         *)
LEMMA IdleStep ==
    ASSUME NetInv, Busy, Frame, UNCHANGED <<net, files>>,
           handler' = Nobody \/ (handler' = Next1(handler) /\ ~IsCheck)
    PROVE  NetInv'
<1> USE DEF NetInv
<1>1. UNCHANGED <<lifecycle, original, script, closed, drift>>
  BY DEF Frame
<1>2. /\ Entered' <=> Entered
      /\ HasPhase("idle-restored")' <=> HasPhase("idle-restored")
  BY DEF Entered, HasPhase, Has
<1>3. net' \in Snapshot /\ files \subseteq files' /\ files' \subseteq Written
  BY DEF HandlerInv, NetTypes
<1>4. Command = <<"check", "idle-restored">> => handler' = Nobody
  BY DEF IsCheck
<1>5. HandlerInv'
  BY <1>2, <1>3, <1>4, GoesOn
<1>6. OneFabric'
  BY <1>1, <1>2, FabricKept DEF DirectOwned, SwitchOwned
<1> QED
  BY <1>5, <1>6

\* Passing over a command that is not needed keeps the invariant.
LEMMA SkipKeeps == ASSUME NetInv, Skip PROVE NetInv'
  BY IdleStep DEF Skip

\* Refusing a command that is not permitted keeps the invariant.
LEMMA RefuseKeeps == ASSUME NetInv, Refuse PROVE NetInv'
  BY IdleStep DEF Refuse, Raise

(* A command that takes keeps the two fabrics apart.                        *)
LEMMA EffectFabric ==
    ASSUME NetInv, Busy, handler.sent, Effect(Command), UNCHANGED <<lifecycle, original>>,
           Entered' <=> Entered,
           HasPhase("idle-restored")' <=> HasPhase("idle-restored")
    PROVE  net' \in Snapshot /\ OneFabric'
<1> USE DEF NetInv, HandlerInv
<1>1. /\ net' \in Snapshot
      /\ DirectOwned' => DirectOwned
      /\ Command[1] # "switch-up" => (SwitchOwned' => SwitchOwned)
  BY EffectTypes DEF DirectOwned, SwitchOwned
<1>2. CASE Command[1] # "switch-up"
  BY <1>1, <1>2, FabricKept
<1>3. CASE Command[1] = "switch-up"
  <2>1. Command = handler.todo[1] /\ 1 \in DOMAIN handler.todo
    BY DEF NetTypes, Command
  <2>2. 1..(1 - 1) = {}
    OBVIOUS
  <2>3. ~Entered \/ HasPhase("idle-restored")
    BY <1>3, <2>1, <2>2 DEF Restoring
  <2>4. ValidOriginal(original)
    BY DEF Reviewing
  <2>5. ~IsPredeclared => ~DirectOwned
    BY <2>3, <2>4 DEF OneFabric
  <2> QED
    BY <1>1, <2>3, <2>5, SameOriginal DEF OneFabric
<1> QED
  BY <1>1, <1>2, <1>3

\* A command that takes its effect keeps the invariant.
LEMMA CompleteKeeps == ASSUME NetInv, Complete PROVE NetInv'
<1> USE DEF NetInv
<1>1. /\ Busy /\ handler.sent /\ Effect(Command)
      /\ files' = files \cup {Done(Command)} /\ handler' \in {Nobody, Next1(handler)} /\ Frame
  BY DEF Complete, CommandTakes, Raise
<1>2. UNCHANGED <<lifecycle, original, script, closed, drift>>
  BY <1>1 DEF Frame
<1>3. ~IsCheck /\ Command \in Commands
  BY <1>1, CommandShape DEF HandlerInv, NetTypes
<1>4. /\ Entered' <=> Entered
      /\ HasPhase("idle-restored")' <=> HasPhase("idle-restored")
  BY <1>1 DEF Entered, HasPhase, Has, Phase, Done
<1>5. files \subseteq files' /\ files' \subseteq Written
  BY <1>1, <1>3 DEF HandlerInv, NetTypes, Written
<1>6. net' \in Snapshot /\ OneFabric'
  BY <1>1, <1>2, <1>4, EffectFabric
<1>7. Command # <<"check", "idle-restored">>
  BY <1>3 DEF IsCheck
<1>8. HandlerInv'
  BY <1>1, <1>4, <1>5, <1>6, <1>7, GoesOn
<1> QED
  BY <1>6, <1>8

\* A handler that dies, its command taken or lost, keeps the invariant.
LEMMA DieKeeps == ASSUME NetInv, Die PROVE NetInv'
<1> USE DEF NetInv
<1>1. CASE UNCHANGED net
  BY <1>1, IdleStep DEF Die, Raise
<1>2. CASE handler.sent /\ Effect(Command)
  <2>1. Busy /\ handler' = Nobody /\ UNCHANGED files /\ Frame
    BY DEF Die, Raise
  <2>2. UNCHANGED <<lifecycle, original, script, closed, drift>>
    BY <2>1 DEF Frame
  <2>3. /\ Entered' <=> Entered
        /\ HasPhase("idle-restored")' <=> HasPhase("idle-restored")
    BY <2>1 DEF Entered, HasPhase, Has
  <2>4. net' \in Snapshot /\ OneFabric'
    BY <1>2, <2>1, <2>2, <2>3, EffectFabric
  <2>5. files \subseteq files' /\ files' \subseteq Written
    BY <2>1 DEF HandlerInv, NetTypes
  <2>6. HandlerInv'
    BY <2>1, <2>3, <2>4, <2>5, GoesOn
  <2> QED
    BY <2>4, <2>6
<1> QED
  BY <1>1, <1>2 DEF Die, CommandTakes

\* A check that passes and records its phase keeps the invariant.
LEMMA CheckKeeps == ASSUME NetInv, Check PROVE NetInv'
<1> USE DEF NetInv
<1>1. /\ Busy /\ IsCheck /\ Passes(Command[2], net)
      /\ files' = files \cup {Phase(Command[2])} /\ handler' = Next1(handler)
      /\ UNCHANGED net /\ Frame
  BY DEF Check
<1>2. UNCHANGED <<lifecycle, original, script, closed, drift>>
  BY <1>1 DEF Frame
<1>3. Command \in Checks /\ Command = <<"check", Command[2]>> /\ Command[2] \in Phases
  BY <1>1, CommandShape DEF HandlerInv, Checks, Phases
<1>4. /\ Entered' <=> Entered \/ Command[2] = "idle"
      /\ HasPhase("idle-restored")' <=> HasPhase("idle-restored") \/ Command[2] = "idle-restored"
  BY <1>1 DEF Entered, HasPhase, Has, Phase
<1>5. Command = handler.todo[1] /\ 1 \in DOMAIN handler.todo
  BY <1>1 DEF HandlerInv, NetTypes, Command
<1>6. Command[2] = "idle" => handler.op # "restore"
  BY <1>3, <1>5 DEF HandlerInv, Restoring
<1>7. HandlerInv'
  <2>1. net' \in Snapshot /\ files \subseteq files' /\ files' \subseteq Written
    BY <1>1, <1>3 DEF HandlerInv, NetTypes, Written
  <2> QED
    BY <1>1, <1>3, <1>4, <1>6, <2>1, GoesOn
<1>8. UNCHANGED <<DirectOwned, SwitchOwned>>
  BY <1>1 DEF DirectOwned, SwitchOwned
<1>9. ValidOriginal(original)
  BY <1>1 DEF HandlerInv, Reviewing
<1>10. OneFabric'
  <2>1. CASE Command[2] = "idle"
    <3>1. ~SwitchOwned
      BY <1>1, <2>1 DEF Passes, ValidIdle, SwitchIdle, SwitchOwned
    <3> QED
      BY <1>2, <1>4, <1>8, <2>1, <3>1, SameOriginal DEF OneFabric
  <2>2. CASE Command[2] = "idle-restored"
    <3>1. ~IsPredeclared => ~DirectOwned
      BY <1>1, <1>9, <2>2, PortNames, PortTypes
         DEF Passes, ValidIdle, DirectOwned, ValidOriginal, DirectPorts
    <3> QED
      BY <1>2, <1>4, <1>8, <2>2, <3>1, SameOriginal DEF OneFabric
  <2>3. CASE Command[2] \notin {"idle", "idle-restored"}
    BY <1>2, <1>4, <1>8, <2>3, FabricKept
  <2> QED
    BY <2>1, <2>2, <2>3
<1> QED
  BY <1>7, <1>10

-----------------------------------------------------------------------------
(* The steps around the handlers.                                           *)

(* The script's shells leave the switch side alone, and activate nothing    *)
(* behind the second check of the idle ports: what may still be carried out *)
(* then never holds both the profile's addition and its activation.         *)
ShellCommands == ({"guard", "bare"} \X DirectPorts \X Guard)
                     \cup {<<"add">>, <<"up">>, <<"down">>, <<"delete">>, <<"mtu">>}
Asks(s, kind) == \E j \in DOMAIN s : s[j][1] = kind
OneOf(s) == ~(Asks(s, "add") /\ Asks(s, "up"))
Backward(s) == ~Asks(s, "add") /\ ~Asks(s, "up")
UpPending == Asks(script.shell, "up") \/ Asks(script.stray, "up")

ShellTypes ==
    script \in [at : Stages, shell : Seq(ShellCommands), stray : Seq(ShellCommands), late : BOOLEAN]
ShellOrder ==
    /\ IsPredeclared \/ ~Entered =>
          script.at = "none" /\ script.shell = <<>> /\ script.stray = <<>>
    /\ script.at \in ToSet(Building) => script.stray = <<>>
    /\ script.at \notin ToSet(Building) => Backward(script.shell)
    /\ OneOf(script.shell) /\ OneOf(script.stray)
LateOnly == script.late => HasPhase("restore-started")
NothingToActivate ==
    ~IsPredeclared /\ ValidOriginal(original) /\ HasPhase("idle-restored") =>
        ~(net.profile /\ UpPending)
ShellInv == ShellTypes /\ ShellOrder /\ LateOnly /\ NothingToActivate

\* The stages by name; those of the trap build nothing.
LEMMA StageNames ==
    /\ Stages = {"none", "guard", "guard2", "add", "up", "again", "again2",
                 "remove", "reset", "bare2", "bare", "over"}
    /\ ToSet(Building) = {"none", "guard", "guard2", "add", "up", "again", "again2"}
    /\ ToSet(Trap) = {"remove", "reset", "bare2", "bare", "over"}
<1>1. Stages = {"none", "guard", "guard2", "add", "up", "again", "again2",
                 "remove", "reset", "bare2", "bare", "over"}
  BY DEF Stages, Shell
<1>2. ToSet(Building) = {"none", "guard", "guard2", "add", "up", "again", "again2"}
  BY DEF ToSet, Building
<1>3. ToSet(Trap) = {"remove", "reset", "bare2", "bare", "over"}
  BY DEF ToSet, Trap
<1> QED
  BY <1>1, <1>2, <1>3

\* Every stage's shell is a program of shell commands that adds or activates, not both,
\* and does neither in the trap.
LEMMA ShellPrograms ==
    ASSUME NEW to \in Stages
    PROVE  /\ Shell[to] \in Seq(ShellCommands) /\ OneOf(Shell[to])
           /\ to \notin ToSet(Building) => Backward(Shell[to])
<1> DEFINE Fits(s) == s \in Seq(ShellCommands) /\ Backward(s)
<1>1. Fits(<<>>)
  BY DEF Backward, Asks
<1>2. ASSUME NEW p \in DirectPorts PROVE Fits(GuardArp(p)) /\ Fits(RestoreArp(p))
  <2>1. GuardArp(p) \in Seq(ShellCommands) /\ RestoreArp(p) \in Seq(ShellCommands)
    BY DEF GuardArp, RestoreArp, ShellCommands, Guard
  <2>2. Backward(GuardArp(p)) /\ Backward(RestoreArp(p))
    BY DEF GuardArp, RestoreArp, Backward, Asks
  <2> QED
    BY <2>1, <2>2
<1>3. <<<<"add">>>> \in Seq(ShellCommands) /\ ~Asks(<<<<"add">>>>, "up")
  BY DEF ShellCommands, Asks
<1>4. /\ <<<<"up">>>> \o GuardArp("direct") \in Seq(ShellCommands)
      /\ ~Asks(<<<<"up">>>> \o GuardArp("direct"), "add")
  <2>1. GuardArp("direct") \in Seq(ShellCommands) /\ Len(GuardArp("direct")) = 2
        /\ ~Asks(GuardArp("direct"), "add")
    BY <1>2 DEF GuardArp, DirectPorts, Backward
  <2>2. <<<<"up">>>> \in Seq(ShellCommands)
    BY DEF ShellCommands
  <2> DEFINE s == <<<<"up">>>> \o GuardArp("direct")
  <2>3. s \in Seq(ShellCommands) /\ DOMAIN s = 1..3
        /\ s[1] = <<"up">> /\ s[2] = GuardArp("direct")[1] /\ s[3] = GuardArp("direct")[2]
    BY <2>1, <2>2, ConcatProperties
  <2>4. GuardArp("direct")[1][1] = "guard" /\ GuardArp("direct")[2][1] = "guard"
    BY DEF GuardArp
  <2> HIDE DEF s
  <2>5. ~Asks(s, "add")
    BY <2>3, <2>4 DEF Asks
  <2> QED
    BY <2>3, <2>5 DEF s
<1>5. Fits(<<<<"down">>, <<"delete">>>>) /\ Fits(<<<<"mtu">>>>)
  <2>1. <<<<"down">>, <<"delete">>>> \in Seq(ShellCommands) /\ <<<<"mtu">>>> \in Seq(ShellCommands)
    BY DEF ShellCommands
  <2>2. Backward(<<<<"down">>, <<"delete">>>>) /\ Backward(<<<<"mtu">>>>)
    BY DEF Backward, Asks
  <2> QED
    BY <2>1, <2>2
<1>6. /\ Shell["none"] = <<>> /\ Shell["over"] = <<>>
      /\ Shell["guard"] = GuardArp("direct") /\ Shell["guard2"] = GuardArp("sibling")
      /\ Shell["again"] = GuardArp("direct") /\ Shell["again2"] = GuardArp("sibling")
      /\ Shell["add"] = <<<<"add">>>> /\ Shell["up"] = <<<<"up">>>> \o GuardArp("direct")
      /\ Shell["remove"] = <<<<"down">>, <<"delete">>>> /\ Shell["reset"] = <<<<"mtu">>>>
      /\ Shell["bare2"] = RestoreArp("sibling") /\ Shell["bare"] = RestoreArp("direct")
  BY DEF Shell
<1>7. "direct" \in DirectPorts /\ "sibling" \in DirectPorts
  BY DEF DirectPorts
<1>8. to \notin {"add", "up"} => Fits(Shell[to])
  BY <1>1, <1>2, <1>5, <1>6, <1>7, StageNames
<1>9. to \in {"add", "up"} => Shell[to] \in Seq(ShellCommands) /\ OneOf(Shell[to])
                             /\ to \in ToSet(Building)
  BY <1>3, <1>4, <1>6, StageNames DEF OneOf
<1> QED
  BY <1>8, <1>9 DEF OneOf, Backward

\* What is left of a shell asks for nothing it did not ask for before.
LEMMA ShellTail ==
    ASSUME NEW s \in Seq(ShellCommands), s # <<>>
    PROVE  /\ Tail(s) \in Seq(ShellCommands) /\ Head(s) \in ShellCommands
           /\ Asks(s, Head(s)[1])
           /\ \A kind : Asks(Tail(s), kind) => Asks(s, kind)
<1>1. /\ Tail(s) \in Seq(ShellCommands) /\ Head(s) = s[1] /\ 1 \in DOMAIN s
      /\ \A j \in DOMAIN Tail(s) : j + 1 \in DOMAIN s /\ Tail(s)[j] = s[j + 1]
  BY HeadTailProperties
<1> QED
  BY <1>1 DEF Asks

\* The network m is n but for the profile, the hooks and the direct ports.
LeavesSwitch(m, n) ==
    /\ m \in Snapshot /\ m.rules = n.rules /\ m.fabric = n.fabric /\ SameAside(m, n)
    /\ \A p \in SwitchPorts : m.ports[p] = n.ports[p]

\* What the shell command l makes of the direct port p that is d and was o at first.
ShellTaken(l, p, d, o) ==
    IF l[1] = "guard" /\ l[2] = p THEN [d EXCEPT !.arp = d.arp \cup {l[3]}]
    ELSE IF l[1] = "bare" /\ l[2] = p
         THEN [d EXCEPT !.arp = (d.arp \ {l[3]}) \cup (o.arp \cap {l[3]})]
    ELSE IF p # "direct" THEN d
    ELSE IF l[1] = "up" THEN [d EXCEPT !.uuid = "own", !.addr = TRUE, !.route = "own", !.mtu = "run"]
    ELSE IF l[1] \in {"down", "delete"} /\ d.uuid = "own" THEN Off(d)
    ELSE IF l[1] = "mtu" THEN [d EXCEPT !.mtu = o.mtu] ELSE d

ShellTakes(l) ==
    /\ LeavesSwitch(net', net)
    /\ net'.profile = IF l[1] = "add" THEN TRUE ELSE IF l[1] = "delete" THEN FALSE ELSE net.profile
    /\ \A p \in DirectPorts :
          net'.ports[p] = ShellTaken(l, p, net.ports[p], original.ports[p])

\* A shell command on one direct port changes that port alone.
LEMMA ShellOnPort ==
    ASSUME net \in Snapshot, NEW l, NEW p \in DirectPorts, NEW d \in Port,
           \/ net' = [net EXCEPT !.ports[p] = d]
           \/ net' = [net EXCEPT !.ports[p] = d, !.dispatcher = Lingers],
           l[1] \notin {"add", "delete"},
           \A q \in DirectPorts : ShellTaken(l, q, net.ports[q], original.ports[q]) =
                                      IF q = p THEN d ELSE net.ports[q]
    PROVE  ShellTakes(l)
<1>1. /\ p \in Ports /\ DirectPorts \subseteq Ports /\ SwitchPorts \subseteq Ports
      /\ p \notin SwitchPorts /\ Lingers \in BOOLEAN
  BY PortNames, NetworkAssumption DEF DirectPorts
<1>2. Replaces(net', net, p, d)
  BY <1>1, PortChange
<1> QED
  BY <1>1, <1>2 DEF Replaces, ShellTakes, LeavesSwitch, SameElse, SameAside

\* A shell command that is carried out changes the direct ports and the profile alone.
LEMMA ShellEffect ==
    ASSUME NetTypes, NEW l \in ShellCommands, Carried(l)
    PROVE  ShellTakes(l)
<1> DEFINE d == net.ports["direct"]
           o == original.ports["direct"]
<1>1. /\ net \in Snapshot /\ original \in Snapshot
      /\ net.ports \in [Ports -> Port] /\ original.ports \in [Ports -> Port]
  BY BaselineTypes DEF NetTypes, Snapshot, Fine
<1>2. /\ "direct" \in DirectPorts /\ DirectPorts \subseteq Ports /\ d \in Port /\ o \in Port
      /\ SwitchPorts \subseteq Ports /\ "direct" \notin SwitchPorts
  BY <1>1, PortNames DEF DirectPorts
<1>3. CASE l[1] \in {"guard", "bare"}
  <2> DEFINE p == l[2]
             e == IF l[1] = "guard" THEN net.ports[p].arp \cup {l[3]}
                  ELSE (net.ports[p].arp \ {l[3]}) \cup (original.ports[p].arp \cap {l[3]})
             f == [net.ports[p] EXCEPT !.arp = e]
  <2>1. l[2] \in DirectPorts /\ l[3] \in Guard
    BY <1>3 DEF ShellCommands
  <2>2. net.ports[p] \in Port /\ e \in SUBSET Guard
    BY <1>1, <1>2, <2>1 DEF Port
  <2>3. f \in Port
    BY <2>2, FieldUpdate
  <2>4. net' = [net EXCEPT !.ports[p] = f]
    BY <1>3 DEF Carried
  <2>5. \A q \in DirectPorts : ShellTaken(l, q, net.ports[q], original.ports[q]) =
                                   IF q = p THEN f ELSE net.ports[q]
    BY <1>3 DEF ShellTaken
  <2> HIDE DEF f, p
  <2> QED
    BY <1>1, <1>3, <2>1, <2>3, <2>4, <2>5, ShellOnPort DEF p
<1>4. CASE l[1] = "add"
  <2>1. net' = [net EXCEPT !.profile = TRUE]
    BY <1>4 DEF Carried
  <2>2. LeavesSwitch(net', net) /\ net'.profile = TRUE /\ net'.ports = net.ports
    BY <1>1, <2>1 DEF LeavesSwitch, Snapshot, SameAside
  <2> QED
    BY <1>4, <2>2 DEF ShellTakes, ShellTaken
<1>5. CASE l[1] = "up"
  <2> DEFINE f == [d EXCEPT !.uuid = "own", !.addr = TRUE, !.route = "own", !.mtu = "run"]
  <2>1. f \in Port
    BY <1>2 DEF Port
  <2>2. net' = [net EXCEPT !.ports["direct"] = f, !.dispatcher = Lingers]
    BY <1>5 DEF Carried
  <2>3. \A q \in DirectPorts : ShellTaken(l, q, net.ports[q], original.ports[q]) =
                                   IF q = "direct" THEN f ELSE net.ports[q]
    BY <1>5 DEF ShellTaken
  <2> HIDE DEF f
  <2> QED
    BY <1>1, <1>2, <1>5, <2>1, <2>2, <2>3, ShellOnPort
<1>6. CASE l[1] = "down" /\ d.uuid = "own"
  <2> DEFINE f == Off(d)
  <2>1. f \in Port
    BY <1>2 DEF Port, Off
  <2>2. net' = [net EXCEPT !.ports["direct"] = f, !.dispatcher = Lingers]
    BY <1>6 DEF Carried
  <2>3. \A q \in DirectPorts : ShellTaken(l, q, net.ports[q], original.ports[q]) =
                                   IF q = "direct" THEN f ELSE net.ports[q]
    BY <1>6 DEF ShellTaken
  <2> HIDE DEF f
  <2> QED
    BY <1>1, <1>2, <1>6, <2>1, <2>2, <2>3, ShellOnPort
<1>7. CASE l[1] = "down" /\ d.uuid # "own"
  <2>1. net' = net
    BY <1>7 DEF Carried
  <2> QED
    BY <1>1, <1>7, <2>1 DEF ShellTakes, ShellTaken, LeavesSwitch, SameAside
<1>8. CASE l[1] = "delete"
  <2>1. net' = WithoutProfile
    BY <1>8 DEF Carried
  <2>2. /\ net' \in Snapshot /\ net'.profile = FALSE /\ SameAside(net', net)
        /\ net'.fabric = net.fabric /\ net'.rules = net.rules
        /\ net'.ports = [q \in Ports |-> IF q = "direct" /\ net.ports[q].uuid = "own"
                                         THEN Off(net.ports[q]) ELSE net.ports[q]]
    BY <1>1, <2>1, ProfileGone
  <2>3. \A q \in Ports : net'.ports[q] = IF q = "direct" /\ net.ports[q].uuid = "own"
                                         THEN Off(net.ports[q]) ELSE net.ports[q]
    BY <2>2
  <2>4. LeavesSwitch(net', net)
    BY <1>2, <2>2, <2>3 DEF LeavesSwitch
  <2> QED
    BY <1>2, <1>8, <2>2, <2>3, <2>4 DEF ShellTakes, ShellTaken
<1>9. CASE l[1] = "mtu"
  <2> DEFINE f == [d EXCEPT !.mtu = o.mtu]
  <2>1. f \in Port
    BY <1>2 DEF Port
  <2>2. net' = [net EXCEPT !.ports["direct"] = f]
    BY <1>9 DEF Carried
  <2>3. \A q \in DirectPorts : ShellTaken(l, q, net.ports[q], original.ports[q]) =
                                   IF q = "direct" THEN f ELSE net.ports[q]
    BY <1>9 DEF ShellTaken
  <2> HIDE DEF f
  <2> QED
    BY <1>1, <1>2, <1>9, <2>1, <2>2, <2>3, ShellOnPort
<1>10. l[1] \in {"guard", "bare", "add", "up", "down", "delete", "mtu"}
  BY DEF ShellCommands
<1> QED
  BY <1>3, <1>4, <1>5, <1>6, <1>7, <1>8, <1>9, <1>10

\* One step of a shell: its command is carried out, and what the shell is left with is remembered.
ShellCarries(l) ==
    /\ l \in ShellCommands /\ Carries(l) /\ Carried(l) /\ ShellTakes(l)
    /\ Asks(script.shell, l[1]) \/ Asks(script.stray, l[1])
    /\ script'.late = (script.late \/ TooLate(l))
    /\ \A kind : /\ Asks(script'.shell, kind) => Asks(script.shell, kind)
                 /\ Asks(script'.stray, kind) => Asks(script.stray, kind)

\* A step of the script is one in a transient run that has been entered; it moves the script
\* along, or is a command of one of its shells.
LEMMA ScriptShape ==
    ASSUME NetTypes, ShellInv, Script
    PROVE  /\ ScriptFrame /\ ~IsPredeclared /\ Entered
           /\ ShellTypes' /\ ShellOrder'
           /\ script.late => script'.late
           /\ \/ net' = net /\ script'.late = script.late /\ ~closed
              \/ \E l \in ShellCommands : ShellCarries(l)
<1> USE DEF ShellInv
<1>1. ASSUME NEW at \in Stages, NEW shell \in Seq(ShellCommands), NEW stray \in Seq(ShellCommands),
             NEW late \in BOOLEAN,
             script' = [at |-> at, shell |-> shell, stray |-> stray, late |-> late],
             ScriptFrame, ~IsPredeclared, Entered,
             at \in ToSet(Building) => stray = <<>>,
             at \notin ToSet(Building) => Backward(shell), OneOf(shell), OneOf(stray)
      PROVE  ShellTypes' /\ ShellOrder'
  <2>1. ShellTypes'
    BY <1>1 DEF ShellTypes
  <2>2. ~IsPredeclared' /\ Entered'
    BY <1>1 DEF ScriptFrame, IsPredeclared, Entered, HasPhase, Has
  <2> QED
    BY <1>1, <2>1, <2>2 DEF ShellOrder
<1>2. /\ script.at \in Stages /\ script.shell \in Seq(ShellCommands)
      /\ script.stray \in Seq(ShellCommands) /\ script.late \in BOOLEAN
      /\ script = [at |-> script.at, shell |-> script.shell, stray |-> script.stray,
                   late |-> script.late]
  BY DEF ShellTypes
<1>3. <<>> \in Seq(ShellCommands) /\ OneOf(<<>>) /\ Backward(<<>>)
  BY DEF OneOf, Backward, Asks
<1>4. /\ ToSet(Building) \subseteq Stages /\ ToSet(Trap) \subseteq Stages
      /\ ToSet(Trap) \cap ToSet(Building) = {}
  BY StageNames
<1>5. CASE NextShell(Building) \/ NextShell(Trap)
  <2>1. PICK stages \in {Building, Trap} : NextShell(stages)
    BY <1>5
  <2>2. /\ ScriptAt(stages) /\ script.shell = <<>> /\ net' = net /\ ScriptFrame
    BY <2>1 DEF NextShell
  <2>3. PICK to \in Stages : /\ Follows(stages, script.at, to)
                             /\ script' = [script EXCEPT !.at = to, !.shell = Shell[to]]
    BY <2>1 DEF NextShell
  <2>4. to \in ToSet(stages)
    <3>1. PICK i \in 1..Len(stages) - 1 : to = stages[i + 1]
      BY <2>3 DEF Follows
    <3>2. /\ stages = Building => DOMAIN stages = 1..7 /\ Len(stages) = 7
          /\ stages = Trap => DOMAIN stages = 1..5 /\ Len(stages) = 5
      BY DEF Building, Trap
    <3>3. i + 1 \in DOMAIN stages
      BY <2>1, <3>1, <3>2
    <3> QED
      BY <3>1, <3>3 DEF ToSet
  <2>5. Shell[to] \in Seq(ShellCommands) /\ OneOf(Shell[to])
        /\ (to \notin ToSet(Building) => Backward(Shell[to]))
    BY ShellPrograms
  <2>6. script' = [at |-> to, shell |-> Shell[to], stray |-> script.stray, late |-> script.late]
    BY <1>2, <2>3
  <2>7. ~IsPredeclared /\ Entered /\ ~closed /\ script.at \in ToSet(stages)
    BY <2>2 DEF ScriptAt
  <2>8. to \in ToSet(Building) => script.stray = <<>>
    BY <1>4, <2>1, <2>4, <2>7 DEF ShellOrder
  <2>9. ShellTypes' /\ ShellOrder'
    BY <1>1, <1>2, <2>2, <2>5, <2>6, <2>7, <2>8 DEF ShellOrder
  <2> QED
    BY <2>2, <2>6, <2>7, <2>9
<1>6. CASE ScriptExits \/ TrapFails
  <2>1. /\ net' = net /\ ScriptFrame /\ ~IsPredeclared /\ Entered /\ ~closed
    BY <1>6 DEF ScriptExits, TrapFails, ScriptAt
  <2>2. PICK to \in Stages, stray \in Strays :
            /\ script' = [script EXCEPT !.at = to, !.shell = Shell[to], !.stray = stray]
            /\ to \notin ToSet(Building)
    <3>1. CASE ScriptExits
      BY <3>1, StageNames DEF ScriptExits
    <3>2. CASE TrapFails
      <4>1. PICK to \in Stages, stray \in Strays :
              /\ IF script.at = "remove" THEN to = "over" ELSE Follows(Trap, script.at, to)
              /\ script' = [script EXCEPT !.at = to, !.shell = Shell[to], !.stray = stray]
        BY <3>2 DEF TrapFails
      <4>2. Follows(Trap, script.at, to) => to \in ToSet(Trap)
        BY DEF Follows, ToSet, Trap
      <4> QED
        BY <1>4, <4>1, <4>2, StageNames
    <3> QED
      BY <1>6, <3>1, <3>2
  <2>3. stray \in {script.stray, script.shell}
    BY <2>2 DEF Strays
  <2>4. stray \in Seq(ShellCommands) /\ OneOf(stray)
    BY <1>2, <2>3 DEF ShellOrder
  <2>5. Shell[to] \in Seq(ShellCommands) /\ OneOf(Shell[to]) /\ Backward(Shell[to])
    BY <2>2, ShellPrograms
  <2>6. script' = [at |-> to, shell |-> Shell[to], stray |-> stray, late |-> script.late]
    BY <1>2, <2>2
  <2>7. ShellTypes' /\ ShellOrder'
    BY <1>1, <1>2, <2>1, <2>2, <2>4, <2>5, <2>6
  <2> QED
    BY <2>1, <2>6, <2>7
<1>7. CASE ShellStep
  <2>1. PICK s \in {"shell", "stray"} :
            /\ script[s] # <<>> /\ ScriptFrame
            /\ Carries(Head(script[s])) /\ Carried(Head(script[s]))
            /\ script' = [script EXCEPT ![s] = Tail(@), !.late = @ \/ TooLate(Head(script[s]))]
    BY <1>7 DEF ShellStep
  <2> DEFINE l == Head(script[s])
             late == script.late \/ TooLate(l)
  <2>2. script[s] \in Seq(ShellCommands)
    BY <1>2, <2>1
  <2>3. /\ Tail(script[s]) \in Seq(ShellCommands) /\ l \in ShellCommands
        /\ Asks(script[s], l[1]) /\ \A kind : Asks(Tail(script[s]), kind) => Asks(script[s], kind)
    BY <2>1, <2>2, ShellTail
  <2>4. ~IsPredeclared /\ Entered
    BY <2>1 DEF ShellOrder
  <2>5. ShellTakes(l)
    BY <2>1, <2>3, ShellEffect
  <2>6. late \in BOOLEAN
    BY <1>2
  <2> HIDE DEF late
  <2>7. CASE s = "shell"
    <3>1. script' = [at |-> script.at, shell |-> Tail(script.shell), stray |-> script.stray,
                     late |-> late]
      BY <1>2, <2>1, <2>7 DEF late
    <3>2. ShellTypes' /\ ShellOrder'
      BY <1>1, <1>2, <2>1, <2>3, <2>4, <2>6, <2>7, <3>1 DEF ShellOrder, OneOf, Backward
    <3>3. ShellCarries(l)
      BY <2>1, <2>3, <2>5, <2>7, <3>1 DEF ShellCarries, late
    <3> QED
      BY <2>1, <2>3, <2>4, <3>1, <3>2, <3>3 DEF late
  <2>8. CASE s = "stray"
    <3>1. script' = [at |-> script.at, shell |-> script.shell, stray |-> Tail(script.stray),
                     late |-> late]
      BY <1>2, <2>1, <2>8 DEF late
    <3>2. ShellTypes' /\ ShellOrder'
      BY <1>1, <1>2, <2>1, <2>3, <2>4, <2>6, <2>8, <3>1 DEF ShellOrder, OneOf
    <3>3. ShellCarries(l)
      BY <2>1, <2>3, <2>5, <2>8, <3>1 DEF ShellCarries, late
    <3> QED
      BY <2>1, <2>3, <2>4, <3>1, <3>2, <3>3 DEF late
  <2> QED
    BY <2>1, <2>7, <2>8
<1> QED
  BY <1>5, <1>6, <1>7 DEF Script

\* A step of the script changes none of the handlers' variables.
LEMMA ScriptFrames == ASSUME Script PROVE ScriptFrame
  BY DEF Script, NextShell, ScriptExits, TrapFails, ShellStep, ScriptFrame

\* Every step of the direct script keeps the invariant: it leaves the switch side alone, and
\* behind the second check of the idle ports there is nothing left to activate.
LEMMA ScriptKeeps == ASSUME NetInv, ShellInv, Script PROVE NetInv'
<1> USE DEF NetInv
<1>1. /\ NetTypes /\ ScriptFrame /\ ~IsPredeclared /\ Entered
      /\ net' = net \/ \E l \in ShellCommands : ShellCarries(l)
  BY ScriptShape DEF HandlerInv
<1>2. net' \in Snapshot /\ net'.rules = net.rules /\ (SwitchOwned' => SwitchOwned)
  <2>1. CASE net' = net
    BY <1>1, <2>1 DEF NetTypes, SwitchOwned
  <2>2. CASE \E l \in ShellCommands : ShellCarries(l)
    BY <2>2 DEF ShellCarries, ShellTakes, LeavesSwitch, SwitchOwned
  <2> QED
    BY <1>1, <2>1, <2>2
<1>3. HandlerInv'
  BY <1>1, <1>2, Around DEF ScriptFrame, HandlerInv, NetTypes
<1>4. /\ Entered' <=> Entered
      /\ HasPhase("idle-restored")' <=> HasPhase("idle-restored")
      /\ UNCHANGED <<lifecycle, original>>
  BY <1>1 DEF ScriptFrame, Entered, HasPhase, Has
<1>5. ValidOriginal(original)
  BY <1>1 DEF HandlerInv, Reviewing
<1>6. CASE ~HasPhase("idle-restored")
  BY <1>1, <1>2, <1>3, <1>4, <1>6, SameOriginal DEF OneFabric
<1>7. CASE HasPhase("idle-restored")
  <2>1. ~DirectOwned /\ ~(net.profile /\ UpPending)
    BY <1>1, <1>5, <1>7 DEF OneFabric, ShellInv, NothingToActivate
  <2>2. ASSUME NEW l \in ShellCommands, ShellCarries(l) PROVE ~DirectOwned'
    <3>1. l[1] = "up" => net.profile /\ UpPending
      BY <2>2 DEF ShellCarries, Carries, UpPending
    <3>2. net'.ports["direct"] = ShellTaken(l, "direct", net.ports["direct"], original.ports["direct"])
      BY <2>2 DEF ShellCarries, ShellTakes, DirectPorts
    <3>3. net.ports["direct"] \in Port
      BY <1>1, PortNames DEF NetTypes, Snapshot
    <3> QED
      BY <2>1, <3>1, <3>2, <3>3 DEF ShellTaken, Off, Port, DirectOwned
  <2>3. DirectOwned' => DirectOwned
    BY <1>1, <2>1, <2>2 DEF DirectOwned
  <2> QED
    BY <1>2, <1>3, <1>4, <2>3, FabricKept
<1> QED
  BY <1>3, <1>6, <1>7

(* Others: no port becomes the run's own.                                   *)
LEMMA OthersKeep ==
    ASSUME NetInv, UNCHANGED <<lifecycle, original, files, handler>>,
           net' \in Snapshot, net'.rules = net.rules,
           \A p \in Ports : net'.ports[p].uuid = "own" => net.ports[p].uuid = "own",
           closed' \in BOOLEAN, closed => closed', drift' \in 0..MaxDrift
    PROVE  NetInv'
<1> USE DEF NetInv
<1>1. HandlerInv'
  BY Around
<1>2. /\ Entered' <=> Entered
      /\ HasPhase("idle-restored")' <=> HasPhase("idle-restored")
  BY DEF Entered, HasPhase, Has
<1>3. (DirectOwned' => DirectOwned) /\ (SwitchOwned' => SwitchOwned)
  BY PortNames DEF DirectOwned, SwitchOwned
<1>4. OneFabric'
  BY <1>2, <1>3, FabricKept
<1> QED
  BY <1>1, <1>4

\* Closing the run keeps the invariant.
LEMMA CloseKeeps == ASSUME NetInv, Close PROVE NetInv'
<1>1. net \in Snapshot /\ drift \in 0..MaxDrift
  BY DEF NetInv, HandlerInv, NetTypes
<1> QED
  BY <1>1, OthersKeep DEF Close

\* The dispatcher settling keeps the invariant.
LEMMA SettleKeeps == ASSUME NetInv, Settle PROVE NetInv'
<1>1. net \in Snapshot /\ drift \in 0..MaxDrift /\ closed \in BOOLEAN
  BY DEF NetInv, HandlerInv, NetTypes
<1>2. net' \in Snapshot /\ net'.rules = net.rules /\ net'.ports = net.ports
  BY <1>1 DEF Settle, Settled, Snapshot
<1> QED
  BY <1>1, <1>2, OthersKeep DEF Settle, Frame

\* A foreign change to the host keeps the invariant.
LEMMA DriftKeeps == ASSUME NetInv, Drift PROVE NetInv'
<1>1. net \in Snapshot /\ drift \in 0..MaxDrift /\ closed \in BOOLEAN /\ MaxDrift \in Nat
  BY NetworkAssumption DEF NetInv, HandlerInv, NetTypes
<1>2. /\ drift' \in 0..MaxDrift
      /\ UNCHANGED <<lifecycle, original, files, handler, script, closed>>
  <2>1. /\ drift < MaxDrift /\ drift' = drift + 1
        /\ UNCHANGED <<lifecycle, original, files, handler, script, closed>>
    BY DEF Drift
  <2> QED
    BY <1>1, <2>1
<1>3. CASE net' = [net EXCEPT !.work = TRUE] \/ net' = [net EXCEPT !.rest = "changed"]
  <2>1. net' \in Snapshot /\ net'.rules = net.rules /\ net'.ports = net.ports
    BY <1>1, <1>3 DEF Snapshot
  <2> QED
    BY <1>1, <1>2, <2>1, OthersKeep
<1>4. ASSUME NEW p \in Ports,
             net' = [net EXCEPT !.ports[p].uuid = "foreign", !.ports[p].addr = TRUE]
      PROVE  NetInv'
  <2> DEFINE d == [net.ports[p] EXCEPT !.uuid = "foreign", !.addr = TRUE]
  <2>1. d \in Port /\ d.uuid # "own"
    BY <1>1 DEF Port, Snapshot
  <2>2. net' = [net EXCEPT !.ports[p] = d]
    BY <1>1, <1>4 DEF Snapshot
  <2> HIDE DEF d
  <2>3. Replaces(net', net, p, d)
    BY <1>1, <2>1, <2>2, PortChange
  <2> QED
    BY <1>1, <1>2, <2>1, <2>3, OthersKeep DEF Replaces
<1> QED
  BY <1>3, <1>4 DEF Drift

-----------------------------------------------------------------------------
(* The theorems.                                                            *)

(* No baseline has both fabrics up.                                         *)
LEMMA BaselinesApart ==
    ASSUME NEW o \in Baselines
    PROVE  ~(o.ports["direct"].uuid = "own" /\ \E p \in SwitchPorts : o.ports[p].uuid = "own")
<1>1. Transient \in Snapshot /\ Predeclared \in Snapshot
  BY BaselineTypes DEF Baselines, Fine
<1>2. /\ Transient.ports \in [Ports -> Port] /\ Transient.ports["direct"] = IdlePort
      /\ Predeclared.ports \in [Ports -> Port]
      /\ \A p \in SwitchPorts : Predeclared.ports[p] = DownPort
  BY PortTypes, PortNames DEF Transient, Predeclared
<1>3. IdlePort.uuid = "none" /\ DownPort.uuid = "none"
  BY PortTypes
<1>4. CASE o.ports["direct"].uuid = "none"
  BY <1>4
<1>5. CASE \A p \in SwitchPorts : o.ports[p].uuid = "none"
  BY <1>5
<1>6. CASE o \in {Transient, [Transient EXCEPT !.work = TRUE], [Transient EXCEPT !.profile = TRUE]}
  BY <1>1, <1>2, <1>3, <1>4, <1>6 DEF Snapshot
<1>7. CASE o = [Transient EXCEPT !.ports["switch2"] = DownPort]
  BY <1>1, <1>2, <1>3, <1>4, <1>7, PortNames DEF Snapshot
<1>8. CASE o = [Transient EXCEPT !.ports["direct"].addr = TRUE]
  <2>1. o.ports["direct"] = [IdlePort EXCEPT !.addr = TRUE]
    BY <1>1, <1>2, <1>8, PortNames DEF Snapshot
  <2>2. [IdlePort EXCEPT !.addr = TRUE].uuid = "none"
    BY DEF IdlePort
  <2> QED
    BY <2>1, <2>2, <1>4
<1>9. CASE o \in {Predeclared, [Predeclared EXCEPT !.profile = FALSE],
                [Predeclared EXCEPT !.ports["direct"].uuid = "foreign"],
                [Predeclared EXCEPT !.ports["direct"].route = "metric"]}
  <2>1. \A p \in SwitchPorts : o.ports[p] = Predeclared.ports[p]
    BY <1>1, <1>2, <1>9, PortNames DEF Snapshot
  <2> QED
    BY <2>1, <1>2, <1>3, <1>5
<1>10. CASE o = [Predeclared EXCEPT !.ports["switch1"].up = TRUE]
  <2>1. /\ o.ports["switch1"] = [DownPort EXCEPT !.up = TRUE]
        /\ o.ports["switch2"] = DownPort
    BY <1>1, <1>2, <1>10, PortNames DEF Snapshot
  <2>2. [DownPort EXCEPT !.up = TRUE].uuid = "none"
    BY DEF DownPort, IdlePort
  <2> QED
    BY <2>1, <2>2, <1>3, <1>5, PortNames
<1> QED
  BY <1>6, <1>7, <1>8, <1>9, <1>10 DEF Baselines

\* The initial states satisfy the invariant.
LEMMA InitInv == ASSUME Init PROVE NetInv /\ ShellInv
<1>1. /\ lifecycle \in Lifecycles /\ original \in Baselines /\ net = original
      /\ files = {} /\ handler = Nobody /\ closed = FALSE /\ drift = 0
  BY DEF Init
<1>2. handler \in Calls /\ ~Busy /\ ~handler.sent /\ handler.todo = <<>> /\ handler.op = "none"
  BY <1>1 DEF Nobody, Calls, Operations, Busy
<1>3. drift \in 0..MaxDrift
  BY <1>1, NetworkAssumption
<1>4. net \in Snapshot
  BY <1>1, BaselineTypes DEF Fine
<1>5. NetTypes
  BY <1>1, <1>2, <1>3, <1>4 DEF NetTypes, Calls
<1>6. ~Entered /\ ~HasPhase("idle-restored")
  BY <1>1 DEF Entered, HasPhase, Has
<1>7. RulesRead /\ Reviewing /\ Restoring
  BY <1>2, <1>6 DEF RulesRead, Reviewing, Restoring
<1>8. OneFabric
  <2>1. ~(DirectOwned /\ SwitchOwned)
    BY <1>1, BaselinesApart DEF DirectOwned, SwitchOwned
  <2>2. ~IsPredeclared /\ ValidOriginal(original) => ~DirectOwned
    BY <1>1, PortTypes, PortNames DEF ValidOriginal, DirectOwned, DirectPorts
  <2> QED
    BY <1>6, <2>1, <2>2 DEF OneFabric
<1>9. ShellInv
  <2>1. script = [at |-> "none", shell |-> <<>>, stray |-> <<>>, late |-> FALSE]
    BY DEF Init
  <2>2. /\ <<>> \in Seq(ShellCommands) /\ ~Asks(<<>>, "add") /\ ~Asks(<<>>, "up")
        /\ "none" \in Stages
    BY StageNames DEF Asks
  <2>3. ShellTypes
    BY <2>1, <2>2 DEF ShellTypes
  <2> QED
    BY <1>6, <2>1, <2>2, <2>3 DEF ShellInv, ShellOrder, LateOnly, NothingToActivate, OneOf, Backward
<1> QED
  BY <1>5, <1>7, <1>8, <1>9 DEF NetInv, HandlerInv

\* A handler's step keeps what is known of the shells: it adds no profile, and checks the
\* idle ports only where there is none.
LEMMA ShellsStill ==
    ASSUME NetInv, ShellInv, UNCHANGED <<lifecycle, original, script>>, files \subseteq files',
           net'.profile => net.profile,
           HasPhase("idle-restored")' =>
               HasPhase("idle-restored") \/ net.profile = original.profile
    PROVE  ShellInv'
<1>1. /\ IsPredeclared' <=> IsPredeclared
      /\ ValidOriginal(original)' <=> ValidOriginal(original)
      /\ Entered => Entered'
      /\ HasPhase("restore-started") => HasPhase("restore-started")'
  BY SameOriginal DEF Entered, HasPhase, Has
<1>2. ShellTypes' /\ LateOnly'
  BY <1>1 DEF ShellInv, ShellTypes, LateOnly
<1>3. ShellOrder'
  BY <1>1 DEF ShellInv, ShellOrder
<1>4. ~IsPredeclared /\ ValidOriginal(original) => ~original.profile
  BY DEF ValidOriginal
<1>5. UpPending' <=> UpPending
  BY DEF UpPending
<1>6. NothingToActivate'
  BY <1>1, <1>4, <1>5 DEF ShellInv, NothingToActivate
<1> QED
  BY <1>2, <1>3, <1>6 DEF ShellInv

\* A command of a handler adds no profile.
LEMMA EffectProfile ==
    ASSUME NetInv, Busy, handler.sent, Effect(Command)
    PROVE  net'.profile => net.profile
<1>1. Command \in Commands
  BY CommandShape DEF NetInv, HandlerInv, NetTypes
<1> QED
  BY <1>1, TakesEffect DEF NetInv, HandlerInv, Takes

\* Every step of a handler keeps what is known of the shells.
LEMMA HandlerShells ==
    ASSUME NetInv, ShellInv,
           \/ Enter \/ DirectReady \/ InstallFirewall \/ Restore
           \/ Dispatch \/ Skip \/ Complete \/ Check \/ Refuse \/ Die
    PROVE  ShellInv'
<1>1. CASE Check
  <2>1. /\ Passes(Command[2], net) /\ files' = files \cup {Phase(Command[2])}
        /\ UNCHANGED <<net, lifecycle, original, script>>
    BY <1>1 DEF Check, Frame
  <2>2. HasPhase("idle-restored")' =>
            HasPhase("idle-restored") \/ net.profile = original.profile
    BY <2>1 DEF HasPhase, Has, Phase, Passes, ValidIdle, NothingOwned
  <2> QED
    BY <2>1, <2>2, ShellsStill
<1>2. CASE Complete \/ Die
  <2>1. /\ Busy /\ UNCHANGED <<lifecycle, original, script>> /\ files \subseteq files'
        /\ net' = net \/ (handler.sent /\ Effect(Command))
        /\ HasPhase("idle-restored")' => HasPhase("idle-restored")
    BY <1>2 DEF Complete, Die, CommandTakes, Frame, HasPhase, Has, Phase, Done
  <2> QED
    BY <2>1, EffectProfile, ShellsStill
<1>3. CASE Enter \/ DirectReady \/ InstallFirewall \/ Restore
  <2>1. PICK op, todo, written : Start(op, todo, written)
                                 /\ written \subseteq {Phase(q) : q \in Phases \ {"idle-restored"}}
    <3>1. {"transition-started", "idle", "direct-ready", "unchanged", "restore-started"}
              \subseteq Phases \ {"idle-restored"}
      BY DEF Phases
    <3> QED
      BY <1>3, <3>1 DEF Enter, DirectReady, InstallFirewall, Restore, RestoreUnentered,
                        RestorePartial, RestoreEntered
  <2>2. /\ files' = files \cup written /\ UNCHANGED <<net, lifecycle, original, script>>
    BY <2>1 DEF Start, Frame
  <2>3. HasPhase("idle-restored")' => HasPhase("idle-restored")
    BY <2>1, <2>2 DEF HasPhase, Has, Phase
  <2> QED
    BY <2>2, <2>3, ShellsStill
<1>4. CASE Dispatch \/ Skip \/ Refuse
  <2>1. /\ files \subseteq files' /\ UNCHANGED <<net, lifecycle, original, script>>
        /\ HasPhase("idle-restored")' => HasPhase("idle-restored")
    BY <1>4 DEF Dispatch, Skip, Refuse, Frame, HasPhase, Has, Phase, Intent
  <2> QED
    BY <2>1, ShellsStill
<1> QED
  BY <1>1, <1>2, <1>3, <1>4

\* A step of the script keeps what is known of its shells: behind the second check nothing new
\* is begun, and a shell that adds the profile and one that activates it are never both there.
LEMMA ScriptShells == ASSUME NetInv, ShellInv, Script PROVE ShellInv'
<1>1. /\ ScriptFrame /\ ~IsPredeclared /\ Entered /\ ShellTypes' /\ ShellOrder'
      /\ \/ net' = net /\ script'.late = script.late /\ ~closed
         \/ \E l \in ShellCommands : ShellCarries(l)
  BY ScriptShape DEF NetInv, HandlerInv
<1>2. /\ UNCHANGED <<lifecycle, original, files, closed>>
      /\ HasPhase("restore-started")' <=> HasPhase("restore-started")
      /\ HasPhase("idle-restored")' <=> HasPhase("idle-restored")
  BY <1>1 DEF ScriptFrame, HasPhase, Has
<1>3. LateOnly'
  BY <1>1, <1>2 DEF ShellInv, LateOnly, ShellCarries, TooLate
<1>4. NothingToActivate'
  <2> SUFFICES ASSUME ~IsPredeclared, ValidOriginal(original), HasPhase("idle-restored"),
                      net'.profile, UpPending'
               PROVE  FALSE
    BY <1>2, SameOriginal DEF NothingToActivate
  <2>1. closed
    BY DEF NetInv, HandlerInv, Restoring
  <2>2. PICK l \in ShellCommands : ShellCarries(l)
    BY <1>1, <2>1
  <2>3. UpPending
    BY <2>2 DEF ShellCarries, UpPending
  <2>4. ~net.profile
    BY <2>3 DEF ShellInv, NothingToActivate
  <2>5. l[1] = "add"
    BY <2>2, <2>4 DEF ShellCarries, ShellTakes
  <2>6. CASE script.at \in ToSet(Building)
    <3>1. script.stray = <<>>
      BY <2>6 DEF ShellInv, ShellOrder
    <3>2. ~Asks(script.stray, "up") /\ ~Asks(script.stray, "add")
      BY <3>1 DEF Asks
    <3> QED
      BY <2>2, <2>3, <2>5, <3>2 DEF ShellInv, ShellOrder, OneOf, UpPending, ShellCarries
  <2>7. CASE script.at \notin ToSet(Building)
    BY <2>2, <2>3, <2>5, <2>7 DEF ShellInv, ShellOrder, OneOf, Backward, UpPending, ShellCarries
  <2> QED
    BY <2>6, <2>7
<1> QED
  BY <1>1, <1>3, <1>4 DEF ShellInv

\* So does every other step.
LEMMA ShellNext == ASSUME NetInv, ShellInv, [Next]_vars PROVE ShellInv'
<1>1. CASE Close \/ UNCHANGED vars
  <2>1. UNCHANGED <<net, files, lifecycle, original, script>>
    BY <1>1 DEF Close, vars
  <2> QED
    BY <2>1, ShellsStill DEF HasPhase, Has
<1>2. CASE Settle \/ Drift
  <2>1. net \in Snapshot
    BY DEF NetInv, HandlerInv, NetTypes
  <2>2. UNCHANGED <<files, lifecycle, original, script>> /\ net'.profile = net.profile
    BY <1>2, <2>1 DEF Settle, Settled, Drift, Frame, Snapshot
  <2> QED
    BY <2>2, ShellsStill DEF HasPhase, Has
<1> QED
  BY <1>1, <1>2, HandlerShells, ScriptShells DEF Next

\* Every step, and every stutter, keeps the invariant.
LEMMA NextInv == ASSUME NetInv, ShellInv, [Next]_vars PROVE NetInv'
<1>1. CASE Next
  BY <1>1, EnterKeeps, DirectReadyKeeps, InstallKeeps, RestoreKeeps, DispatchKeeps, SkipKeeps,
     CompleteKeeps, CheckKeeps, RefuseKeeps, DieKeeps, ScriptKeeps, CloseKeeps, SettleKeeps,
     DriftKeeps DEF Next
<1>2. CASE UNCHANGED vars
  <2>1. net \in Snapshot /\ drift \in 0..MaxDrift /\ closed \in BOOLEAN
    BY DEF NetInv, HandlerInv, NetTypes
  <2> QED
    BY <1>2, <2>1, OthersKeep DEF vars
<1> QED
  BY <1>1, <1>2

(* NetInv holds throughout: a handler's remaining orders fit the phases     *)
(* written so far (network.py mutate, check, restore) and the fabric that   *)
(* is up; so does ShellInv: behind the check that ends the direct side of a *)
(* restore, no shell of the script still finds a profile to activate.       *)
THEOREM NetworkInvariant == Spec => [](NetInv /\ ShellInv)
  BY InitInv, NextInv, ShellNext, PTL DEF Spec

(* The variables keep their types; no rule is there twice, and a handler    *)
(* that has dispatched a command has recorded its intent.                   *)
THEOREM TypeCorrect == Spec => []TypeOK
<1>1. NetInv /\ ShellInv => TypeOK
  BY DEF NetInv, HandlerInv, NetTypes, TypeOK, Written, ShellInv, ShellTypes
<1> QED
  BY <1>1, NetworkInvariant, PTL

(* The switched fabric and the direct profile are never up together,        *)
(* whatever is killed and whoever else changes the node.                    *)
THEOREM NeverBothFabricsHolds == Spec => []NeverBothFabrics
<1>1. NetInv => NeverBothFabrics
  BY DEF NetInv, OneFabric, NeverBothFabrics, DirectOwned, SwitchOwned
<1> QED
  BY <1>1, NetworkInvariant, PTL

(* Snapshots with equal fields and equal ports are equal.                   *)
LEMMA SameSnapshot ==
    ASSUME NEW m \in Snapshot, NEW n \in Snapshot,
           m.fabric = n.fabric, m.idle = n.idle, m.ray = n.ray, m.work = n.work,
           m.ports = n.ports, m.profile = n.profile, m.rules = n.rules,
           m.dispatcher = n.dispatcher, m.rest = n.rest
    PROVE  m = n
  BY DEF Snapshot

\* Two ports that agree on the six fields are the same port.
LEMMA SamePort ==
    ASSUME NEW c \in Port, NEW d \in Port,
           c.uuid = d.uuid, c.addr = d.addr, c.up = d.up,
           c.mtu = d.mtu, c.arp = d.arp, c.route = d.route
    PROVE  c = d
  BY DEF Port

(* What passes for restored is the original.                                *)
LEMMA SwitchedIsOriginal ==
    ASSUME NEW n \in Snapshot, original \in Baselines, ValidOriginal(original), ValidSwitched(n)
    PROVE  n = original
<1>1. Fine(original)
  BY BaselineTypes
<1>2. /\ n.rest = "same" /\ ~n.work /\ ~n.dispatcher /\ n.ray = "dead"
      /\ n.rules = original.rules /\ n.profile = original.profile /\ n.ports = original.ports
      /\ n.fabric = original.fabric /\ n.idle = original.idle
  BY DEF ValidSwitched, Undisturbed, NothingOwned
<1>3. original.rest = "same" /\ original.dispatcher = FALSE /\ original \in Snapshot
  BY <1>1 DEF Fine
<1>4. ~original.work /\ original.ray = "dead"
  BY DEF ValidOriginal
<1>5. n.work = original.work /\ n.dispatcher = original.dispatcher
  BY <1>2, <1>3, <1>4 DEF Snapshot
<1> QED
  BY <1>2, <1>3, <1>4, <1>5, SameSnapshot

\* On a predeclared host, valid, without rules of this run, is the recorded original.
LEMMA PredeclaredIsOriginal ==
    ASSUME NEW n \in Snapshot, original \in Baselines, ValidOriginal(original),
           IsPredeclared, ValidDirectOrIdle(n), n.rules = original.rules
    PROVE  n = original
<1>1. Fine(original)
  BY BaselineTypes
<1>2. original.rest = "same" /\ original.dispatcher = FALSE /\ original \in Snapshot
  BY <1>1 DEF Fine
<1>3. /\ ~original.work /\ original.ray = "dead" /\ original.fabric = "dead"
      /\ original.profile = TRUE
  BY <1>2 DEF ValidOriginal, Snapshot
<1>4. /\ n.rest = "same" /\ ~n.work /\ ~n.dispatcher /\ n.ray = "dead"
      /\ n.fabric = "dead" /\ n.idle = original.idle /\ n.profile
  BY DEF ValidDirectOrIdle, Undisturbed, SwitchIdle
<1>5. n.work = original.work /\ n.dispatcher = original.dispatcher /\ n.profile = original.profile
  BY <1>2, <1>3, <1>4 DEF Snapshot
<1>6. n.ports \in [Ports -> Port] /\ original.ports \in [Ports -> Port]
  BY <1>2 DEF Snapshot
<1>7. ASSUME NEW p \in SwitchPorts PROVE n.ports[p] = original.ports[p]
  <2>1. original.ports[p] = DownPort
    BY <1>7 DEF ValidOriginal
  <2>2. /\ n.ports[p].uuid = "none" /\ ~n.ports[p].addr /\ ~n.ports[p].up
        /\ n.ports[p].mtu = original.ports[p].mtu /\ n.ports[p].arp = original.ports[p].arp
        /\ n.ports[p].route = "none"
    BY DEF ValidDirectOrIdle, SwitchIdle
  <2>3. DownPort.uuid = "none" /\ DownPort.addr = FALSE /\ DownPort.up = FALSE
        /\ DownPort.route = "none"
    BY DEF DownPort, IdlePort
  <2>4. n.ports[p] \in Port /\ original.ports[p] \in Port
    BY <1>6, PortNames
  <2>5. n.ports[p].addr = FALSE /\ n.ports[p].up = FALSE
    BY <2>2, <2>4 DEF Port
  <2> QED
    BY <2>1, <2>2, <2>3, <2>4, <2>5, SamePort
<1> DEFINE d == n.ports["direct"]     od == original.ports["direct"]
           s == n.ports["sibling"]    os == original.ports["sibling"]
<1>8. /\ d \in Port /\ od \in Port /\ s \in Port /\ os \in Port
  BY <1>6, PortNames
<1>9. /\ od = [ActivePort EXCEPT !.mtu = "run", !.arp = Guard]
      /\ os = [IdlePort EXCEPT !.arp = Guard]
  BY PortTypes DEF ValidOriginal
<1>10. /\ od.mtu = "run" /\ od.arp = Guard /\ od.uuid = "own" /\ od.addr = TRUE
       /\ os.arp = Guard
  BY <1>9 DEF ActivePort, IdlePort
<1>11. /\ d.arp \in {od.arp, Guard} /\ d.up = od.up /\ d.mtu \in {od.mtu, "run"}
       /\ s.arp \in {os.arp, Guard} /\ [s EXCEPT !.arp = os.arp] = os
       /\ d.uuid = "own" /\ d.addr /\ d.route = od.route
  BY PortNames DEF ValidDirectOrIdle, DirectPartly, ArpKnown, DirectShape, DirectPorts
<1> HIDE DEF d, od, s, os
<1>12. d = od
  <2>1. d.addr = TRUE
    BY <1>8, <1>11 DEF Port
  <2> QED
    BY <1>8, <1>10, <1>11, <2>1, SamePort
<1>13. s = os
  <2>1. s.arp = os.arp
    BY <1>10, <1>11
  <2>2. [s EXCEPT !.arp = os.arp] = s
    BY <1>8, <2>1 DEF Port
  <2> QED
    BY <1>11, <2>2
<1>14. n.ports = original.ports
  BY <1>6, <1>7, <1>12, <1>13, PortNames DEF d, od, s, os
<1> QED
  BY <1>2, <1>3, <1>4, <1>5, <1>14, SameSnapshot

(* A terminal receipt is written only over the exact original network.      *)
THEOREM RestoredTruthfulHolds == Spec => RestoredTruthful
<1> DEFINE Ends == (files' \ files) \cap Terminal # {} => net' = original
<1>1. ASSUME NetInv, ShellInv, [Next]_vars PROVE Ends
  <2> SUFFICES ASSUME NEW f \in files', f \notin files, f \in Terminal
               PROVE  net' = original
    OBVIOUS
  <2>1. original \in Baselines /\ net \in Snapshot
    BY <1>1 DEF NetInv, HandlerInv, NetTypes
  <2>2. CASE Check
    <3>1. /\ f = Phase(Command[2]) /\ net' = net /\ Passes(Command[2], net) /\ Busy /\ IsCheck
      BY <2>2 DEF Check
    <3>2. Command \in Checks /\ Command = handler.todo[1] /\ 1 \in DOMAIN handler.todo
      BY <1>1, <3>1, CommandShape DEF NetInv, HandlerInv, NetTypes, Command
    <3>3. Command = <<"check", Command[2]>> /\ Command[2] # "unchanged"
      BY <3>2 DEF Checks
    <3>4. ValidOriginal(original)
      BY <1>1, <3>1 DEF NetInv, HandlerInv, Reviewing
    <3>5. CASE Command[2] = "switched-restored"
      BY <2>1, <3>1, <3>4, <3>5, SwitchedIsOriginal DEF Passes
    <3>6. CASE Command[2] = "predeclared-restored"
      <4>1. IsPredeclared
        BY <1>1, <3>2, <3>3, <3>6 DEF NetInv, HandlerInv, Restoring
      <4> QED
        BY <2>1, <3>1, <3>4, <3>6, <4>1, PredeclaredIsOriginal DEF Passes
    <3>7. Command[2] \in {"switched-restored", "predeclared-restored"}
      BY <3>1, <3>3 DEF Terminal, Phase
    <3> QED
      BY <3>5, <3>6, <3>7
  <2>3. CASE Restore
    <3>1. ValidOriginal(original)
      BY <2>3 DEF Restore, Opens
    <3>2. CASE RestoreUnentered
      <4>1. net' = net
        BY <3>2 DEF RestoreUnentered, Start
      <4>2. CASE IsPredeclared
        BY <2>1, <3>1, <3>2, <4>1, <4>2, PredeclaredIsOriginal
           DEF RestoreUnentered, AcceptsUnentered
      <4>3. CASE ~IsPredeclared
        BY <2>1, <3>1, <3>2, <4>1, <4>3, SwitchedIsOriginal DEF RestoreUnentered, AcceptsUnentered
      <4> QED
        BY <4>2, <4>3
    <3>3. CASE RestorePartial \/ RestoreEntered
      BY <3>3 DEF RestorePartial, RestoreEntered, Start, Terminal, Phase
    <3> QED
      BY <2>3, <3>2, <3>3 DEF Restore
  <2>4. CASE Enter
    BY <2>4 DEF Enter, Start, Terminal, Phase
  <2>5. CASE DirectReady \/ InstallFirewall
    BY <2>5 DEF DirectReady, InstallFirewall, Start, Terminal, Phase
  <2>6. CASE Dispatch \/ Complete
    BY <2>6 DEF Dispatch, Complete, Terminal, Phase, Intent, Done
  <2>7. CASE Skip \/ Refuse \/ Die \/ Close \/ Settle \/ Drift \/ UNCHANGED vars
    BY <2>7 DEF Skip, Refuse, Die, Close, Settle, Drift, vars
  <2>8. CASE Script
    BY <2>8, ScriptFrames DEF ScriptFrame
  <2> QED
    BY <1>1, <2>2, <2>3, <2>4, <2>5, <2>6, <2>7, <2>8 DEF Next
<1> QED
  BY <1>1, NetworkInvariant, PTL DEF Spec, RestoredTruthful

-----------------------------------------------------------------------------
(***************************************************************************)
(* A node that nobody else touches.  Story says, operation by operation    *)
(* and order by order, what the network then is: as it was before the      *)
(* entry; explained by the recorded intents while an entry is under way or *)
(* was killed; idle on the switch side with the direct profile half or     *)
(* wholly there behind it; and, order by order, brought back by a restore. *)
(* From it follow what restore accepts and when it gives up.               *)
(***************************************************************************)
(***************************************************************************)
(* What nobody else has changed, and no shell of the script too late.      *)
(***************************************************************************)
Quiet == drift = 0 /\ ~script.late /\ ValidOriginal(original)
Left == Len(handler.todo)

\* The handler has the last Left orders of the program s, of n orders, to do.
Running(s, n) == /\ Left \in 1..n
                 /\ \A j \in 1..Left : handler.todo[j] = s[n - Left + j]

RestoreLabels == {Fallback[j] : j \in 1..19}
NoneIntended == \A l \in RestoreLabels : ~Has(Intent(l))

\* The fields no step of the run changes.
Untouched == SameAside(net, original)

(* The predeclared lifecycle changes nothing but the owned rules.           *)
RuleOrders == \A j \in DOMAIN handler.todo :
                 handler.todo[j][1] \in {"firewall-insert", "firewall-remove", "check"}
PredeclaredNet ==
    /\ Untouched /\ net.fabric = original.fabric /\ net.ports = original.ports
    /\ net.profile = original.profile /\ net.dispatcher = FALSE
NothingYet == ~Entered => files \subseteq {Phase("unchanged")} /\ net.rules = original.rules /\ ~Busy
Removing ==
    handler.op = "restore" =>
        /\ Running(PredeclaredRestore, 3)
        /\ Left <= 2 => net.rules[1] = 0
        /\ Left <= 1 => net.rules[2] = 0
PredeclaredHeld == PredeclaredNet /\ RuleOrders /\ NothingYet /\ Removing
KeptPredeclared == Quiet /\ IsPredeclared => PredeclaredHeld

(* Before its entry the node is as it was.                                  *)
FreshHeld == net = original /\ files \subseteq {Phase("unchanged")} /\ ~Busy

(* An entry, under way or stopped half way, touches the switch side alone,  *)
(* and what it has touched has an intent or is the reviewed disconnect.     *)
SwitchPart(p) ==
    LET d == net.ports[p]
        o == original.ports[p]
    IN  /\ d.mtu = o.mtu /\ d.arp = o.arp
        /\ \/ d.uuid = o.uuid /\ d.addr = o.addr /\ d.route = o.route
           \/ /\ d.uuid = "none" /\ ~d.addr /\ d.route = "none"
              /\ p \in Reviewed \/ Has(Intent(<<"switch-disconnect", p>>))
        /\ \/ d.up = o.up
           \/ ~d.up /\ d.uuid = "none" /\ Has(Intent(<<"switch-admin-down", p>>))

EnteringNet ==
    /\ Untouched /\ net.rules = original.rules /\ net.profile = original.profile
    /\ \A p \in DirectPorts : net.ports[p] = original.ports[p]
    /\ net.fabric \in {original.fabric, "dead"}
    /\ SwitchPart("switch1") /\ SwitchPart("switch2")

IsOff(p) == net.ports[p].uuid = "none" /\ ~net.ports[p].addr /\ net.ports[p].route = "none"

EntryFiles ==
    /\ ~HasPhase("direct-ready")
    /\ Has(Done(<<"fabric-stop", Host>>)) => Has(Intent(<<"fabric-stop", Host>>))
    /\ \A p \in {"switch1", "switch2"} : \A kind \in {"switch-disconnect", "switch-admin-down"} :
          Has(Intent(<<kind, p>>)) =>
              /\ Has(Done(<<"fabric-stop", Host>>))
              /\ p = "switch2" => Has(Done(<<"switch-admin-down", "switch1">>))

EntryRuns ==
    Busy =>
        /\ handler.op = "enter" /\ Running(Entry, 6)
        /\ Left <= 5 => Has(Done(<<"fabric-stop", Host>>))
        /\ Left <= 4 => IsOff("switch1")
        /\ Left <= 3 => Has(Done(<<"switch-admin-down", "switch1">>))
        /\ Left <= 2 => IsOff("switch2")

EnteringHeld == EnteringNet /\ EntryFiles /\ NoneIntended /\ EntryRuns

(* Behind the check of the idle ports: the profile and the rules.           *)
ProfileHeld == net.ports["direct"].uuid = "own" => net.profile

InstallOnly ==
    \A j \in DOMAIN handler.todo :
        handler.todo[j][1] = "firewall-insert" \/ handler.todo[j] = <<"check", "firewall-ready">>

InsideNet == Untouched /\ SwitchIdle(net) /\ DirectShape(net)
InsideHeld == InsideNet /\ ProfileHeld /\ NoneIntended /\ InstallOnly

(* A restore of the transient lifecycle, which has its orders in common     *)
(* from the start of the fabric service on: what the orders behind it have  *)
(* settled.                                                                 *)
DirectSettled ==
    LET d == net.ports["direct"]
        o == original.ports["direct"]
    IN  /\ SwitchIdle(net) /\ DirectShape(net) /\ (d.uuid = "own" => net.profile)
        /\ Left <= 18 => net.rules[1] = 0
        /\ Left <= 17 => net.rules[2] = 0
        /\ Left <= 16 => d.uuid = "none"
        /\ Left <= 15 => ~net.profile
        /\ Left <= 14 => d.mtu = o.mtu
        /\ Left <= 12 => d.arp = o.arp
        /\ Left <= 11 => net.ports["sibling"].arp = original.ports["sibling"].arp

BackToSwitch ==
    /\ net.rules = original.rules /\ net.profile = original.profile
    /\ \A p \in DirectPorts : net.ports[p] = original.ports[p]

\* Port p while the n-th order from the end is the one that follows on its arp.
SwitchSettled(p, n) ==
    /\ Left = n + 3 => net.ports[p] = Upped
    /\ Left = n + 2 => net.ports[p] = [Upped EXCEPT !.route = "own"]
    /\ Left = n + 1 => net.ports[p] = [Upped EXCEPT !.route = "own", !.mtu = "base"]
    /\ Left <= n => net.ports[p] = ActivePort

NotYetIntended == \A j \in DOMAIN handler.todo : Has(Intent(handler.todo[j])) => j = 1 /\ handler.sent

ReturningNet ==
    /\ Untouched
    /\ Left >= 11 => DirectSettled
    /\ Left <= 10 => BackToSwitch
    /\ Left <= 9 => net.fabric = original.fabric
    /\ SwitchSettled("switch1", 5)
    /\ SwitchSettled("switch2", 1)
ReturningHeld == Running(Fallback, 19) /\ NotYetIntended /\ ReturningNet

TransientHeld ==
    /\ ~EntryBegan => FreshHeld
    /\ EntryBegan /\ ~Entered /\ ~HasPhase("restore-started") => EnteringHeld
    /\ Entered /\ ~HasPhase("restore-started") => InsideHeld
    /\ handler.op = "restore" => ReturningHeld
Transiting == Quiet /\ ~IsPredeclared => TransientHeld

Story == KeptPredeclared /\ Transiting

-----------------------------------------------------------------------------
\* A busy handler has at least one order left, and its command is the first of them.
LEMMA Position ==
    ASSUME NetTypes, Busy
    PROVE  /\ Left \in Nat /\ Left >= 1 /\ DOMAIN handler.todo = 1..Left
           /\ Command = handler.todo[1]
<1>1. handler.todo \in Seq(Orders) /\ handler.todo # <<>>
  BY DEF NetTypes
<1> QED
  BY <1>1 DEF Left, Command

\* The handler has done its first order, and ends or goes on behind it.
Proceeds ==
    /\ ~handler'.sent
    /\ handler' # Nobody =>
          /\ handler'.op = handler.op /\ Left' = Left - 1 /\ Left > 1
          /\ \A j \in DOMAIN handler'.todo :
                j \in Nat /\ j >= 1 /\ j + 1 \in DOMAIN handler.todo /\ handler'.todo[j] = handler.todo[j + 1]
    /\ handler' = Nobody => handler'.op = "none" /\ DOMAIN handler'.todo = {}

\* Finishing an order takes the handler one order further in its program.
LEMMA ProceedsOn ==
    ASSUME NetTypes, Busy, handler' \in {Nobody, Next1(handler)}
    PROVE  Proceeds
<1>1. handler' = Nobody => handler'.op = "none" /\ DOMAIN handler'.todo = {}
  BY DEF Nobody
<1>2. ASSUME handler' # Nobody
      PROVE  Left' = Left - 1 /\ Left > 1
  <2>1. handler.todo \in Seq(Orders) /\ handler.todo # <<>>
    BY DEF NetTypes
  <2> DEFINE t == Tail(handler.todo)
  <2>2. Len(handler.todo) # 1 /\ handler' = [handler EXCEPT !.todo = t, !.sent = FALSE]
    BY <1>2 DEF Next1
  <2>5. Len(handler.todo) \in Nat /\ Len(handler.todo) >= 1 /\ Len(t) = Len(handler.todo) - 1
    BY <2>1
  <2> HIDE DEF t
  <2>3. handler \in Calls
    BY DEF NetTypes, Calls
  <2>4. handler'.todo = t
    BY <2>2, <2>3 DEF Calls
  <2>6. Left # 1 /\ Left \in Nat /\ Left >= 1
    BY <2>2, Position DEF Left
  <2>7. Left' = Len(t)
    BY <2>4 DEF Left
  <2>8. Left > 1
    BY <2>6
  <2> QED
    BY <2>5, <2>7, <2>8 DEF Left
<1>3. /\ ~handler'.sent
      /\ handler' # Nobody => handler'.op = handler.op
      /\ \A j \in DOMAIN handler'.todo :
            j \in Nat /\ j >= 1 /\ j + 1 \in DOMAIN handler.todo /\ handler'.todo[j] = handler.todo[j + 1]
  BY Advanced
<1> QED
  BY <1>1, <1>2, <1>3 DEF Proceeds

\* A handler that proceeds and is not done still runs the program it ran.
LEMMA RunsOn ==
    ASSUME NetTypes, Busy, Proceeds, handler' \in Calls, handler' # Nobody,
           NEW n \in Nat, NEW s, Running(s, n)
    PROVE  Running(s, n)'
<1>1. Left \in Nat /\ Left >= 1 /\ DOMAIN handler.todo = 1..Left
  BY Position
<1>2. /\ Left' = Left - 1 /\ Left > 1
      /\ \A j \in DOMAIN handler'.todo : handler'.todo[j] = handler.todo[j + 1]
  BY DEF Proceeds
<1>3. DOMAIN handler'.todo = 1..Left'
  BY DEF Calls, Left
<1>4. Left \in 1..n /\ \A j \in 1..Left : handler.todo[j] = s[n - Left + j]
  BY DEF Running
<1>5. \A j \in 1..Left' : j + 1 \in 1..Left /\ n - Left + (j + 1) = n - Left' + j
  BY <1>1, <1>2, <1>4
<1>6. \A j \in 1..Left' : handler'.todo[j] = s[n - Left' + j]
  BY <1>2, <1>3, <1>4, <1>5
<1>7. Left' \in 1..n
  BY <1>1, <1>2, <1>4
<1> QED
  BY <1>6, <1>7 DEF Running

\* A handler stays behind its order, dispatched or not.
Stays == handler'.todo = handler.todo /\ handler'.op = handler.op /\ Busy' = Busy

\* A handler that stays runs what it ran, at the same order.
LEMMA RunsStill ==
    ASSUME Stays, NEW n, NEW s
    PROVE  Left' = Left /\ (Running(s, n)' <=> Running(s, n))
<1>1. handler'.todo = handler.todo
  BY DEF Stays
<1>2. Left' = Left
  BY <1>1 DEF Left
<1> QED
  BY <1>1, <1>2 DEF Running

\* The current command is the one the orders left determine.
LEMMA CommandOf ==
    ASSUME NetTypes, Busy, NEW n \in Nat, NEW s, Running(s, n)
    PROVE  Left \in 1..n /\ Command = s[n - Left + 1]
<1>1. Left \in 1..n /\ \A j \in 1..Left : handler.todo[j] = s[n - Left + j]
  BY DEF Running
<1> QED
  BY <1>1, Position

-----------------------------------------------------------------------------
(* What the reviewed baselines are, field by field.                         *)
LEMMA OriginalFacts ==
    ASSUME original \in Baselines, ValidOriginal(original)
    PROVE  /\ original \in Snapshot /\ original.ports \in [Ports -> Port]
           /\ original.rest = "same" /\ original.dispatcher = FALSE /\ original.work = FALSE
           /\ original.ray = "dead"
           /\ original.rules = [r \in Rules |-> 0]
           /\ original.rules[1] = 0 /\ original.rules[2] = 0
<1>1. Fine(original)
  BY BaselineTypes
<1>2. original \in Snapshot /\ original.rest = "same" /\ original.dispatcher = FALSE
      /\ original.rules = [r \in Rules |-> 0]
  BY <1>1 DEF Fine
<1>3. original.ports \in [Ports -> Port] /\ original.work \in BOOLEAN
  BY <1>2 DEF Snapshot
<1>4. ~original.work /\ original.ray = "dead"
  BY DEF ValidOriginal
<1> QED
  BY <1>2, <1>3, <1>4, PortNames

\* The six fields of the three ports a baseline is made of.
LEMMA PortFields ==
    /\ IdlePort.uuid = "none" /\ IdlePort.addr = FALSE /\ IdlePort.up = TRUE
    /\ IdlePort.mtu = "base" /\ IdlePort.arp = {} /\ IdlePort.route = "none"
    /\ ActivePort.uuid = "own" /\ ActivePort.addr = TRUE /\ ActivePort.up = TRUE
    /\ ActivePort.mtu = "base" /\ ActivePort.arp = {} /\ ActivePort.route = "own"
    /\ DownPort.uuid = "none" /\ DownPort.addr = FALSE /\ DownPort.up = FALSE
    /\ DownPort.mtu = "base" /\ DownPort.arp = {} /\ DownPort.route = "none"
  BY DEF IdlePort, ActivePort, DownPort

\* What a valid original of a transient run looks like, port by port.
LEMMA TransientOriginal ==
    ASSUME original \in Baselines, ValidOriginal(original), ~IsPredeclared
    PROVE  /\ original.fabric = "exited" /\ original.profile = FALSE
           /\ original.ports["direct"] = IdlePort /\ original.ports["sibling"] = IdlePort
           /\ original.ports["switch1"] = ActivePort /\ original.ports["switch2"] = ActivePort
<1>1. original \in Snapshot
  BY OriginalFacts
<1>2. original.profile \in BOOLEAN
  BY <1>1 DEF Snapshot
<1> QED
  BY <1>2, PortNames DEF ValidOriginal, DirectPorts

\* What a valid predeclared original looks like, port by port.
LEMMA PredeclaredOriginal ==
    ASSUME original \in Baselines, ValidOriginal(original), IsPredeclared
    PROVE  /\ original.fabric = "dead" /\ original.profile = TRUE
           /\ original.ports["direct"] = [ActivePort EXCEPT !.mtu = "run", !.arp = Guard]
           /\ original.ports["sibling"] = [IdlePort EXCEPT !.arp = Guard]
           /\ original.ports["switch1"] = DownPort /\ original.ports["switch2"] = DownPort
<1>1. original \in Snapshot
  BY OriginalFacts
<1>2. original.profile \in BOOLEAN
  BY <1>1 DEF Snapshot
<1> QED
  BY <1>2, PortNames, PortTypes DEF ValidOriginal

(* The programs, order by order.                                            *)
LEMMA EntryOrders ==
    /\ Entry[1] = <<"fabric-stop", Host>>
    /\ Entry[2] = <<"switch-disconnect", "switch1">> /\ Entry[3] = <<"switch-admin-down", "switch1">>
    /\ Entry[4] = <<"switch-disconnect", "switch2">> /\ Entry[5] = <<"switch-admin-down", "switch2">>
    /\ Entry[6] = <<"check", "idle">>
  BY SMT DEF Entry, Down, Switch

\* The three orders of the predeclared restore.
LEMMA PredeclaredOrders ==
    /\ PredeclaredRestore[1] = <<"firewall-remove", 1>>
    /\ PredeclaredRestore[2] = <<"firewall-remove", 2>>
    /\ PredeclaredRestore[3] = <<"check", "predeclared-restored">>
  BY SMT DEF PredeclaredRestore, Removal

\* The nineteen orders of the full restore.
LEMMA FallbackOrders ==
    /\ Fallback[1] = <<"firewall-remove", 1>> /\ Fallback[2] = <<"firewall-remove", 2>>
    /\ Fallback[3] = <<"direct-down", "direct">> /\ Fallback[4] = <<"direct-delete", "direct">>
    /\ Fallback[5] = <<"direct-mtu", "direct">> /\ Fallback[6] = <<"direct-admin", "direct">>
    /\ Fallback[7] = <<"direct-arp", "direct">> /\ Fallback[8] = <<"direct-arp", "sibling">>
    /\ Fallback[9] = <<"check", "idle-restored">> /\ Fallback[10] = <<"fabric-start", Host>>
    /\ Fallback[11] = <<"switch-up", "switch1">> /\ Fallback[12] = <<"switch-metric", "switch1">>
    /\ Fallback[13] = <<"switch-mtu", "switch1">> /\ Fallback[14] = <<"switch-arp", "switch1">>
    /\ Fallback[15] = <<"switch-up", "switch2">> /\ Fallback[16] = <<"switch-metric", "switch2">>
    /\ Fallback[17] = <<"switch-mtu", "switch2">> /\ Fallback[18] = <<"switch-arp", "switch2">>
    /\ Fallback[19] = <<"check", "switched-restored">>
  BY SMT DEF Fallback, Removal, RestoreSwitch, Up, Switch

\* The switch restore is the tail of the full restore.
LEMMA SwitchOrders == \A i \in 1..10 : RestoreSwitch[i] = Fallback[9 + i]
  BY SMT DEF Fallback, Removal, RestoreSwitch, Up, Switch

(* No order is given twice.                                                 *)
LEMMA FallbackDistinct ==
    \A i, k \in 1..19 : Fallback[i] = Fallback[k] => i = k
<1> USE FallbackOrders
<1>1. \A i, k \in 1..19 : i < k => Fallback[i] # Fallback[k]
  OBVIOUS
<1> QED
  BY <1>1

\* The order at hand of a program, by the orders left.
LEMMA AtEntry ==
    ASSUME NetTypes, Busy, Running(Entry, 6)
    PROVE  /\ Left \in 1..6
           /\ Left = 6 => Command = <<"fabric-stop", Host>>
           /\ Left = 5 => Command = <<"switch-disconnect", "switch1">>
           /\ Left = 4 => Command = <<"switch-admin-down", "switch1">>
           /\ Left = 3 => Command = <<"switch-disconnect", "switch2">>
           /\ Left = 2 => Command = <<"switch-admin-down", "switch2">>
           /\ Left = 1 => Command = <<"check", "idle">>
<1>1. Left \in 1..6 /\ Command = Entry[6 - Left + 1]
  BY CommandOf
<1> QED
  BY <1>1, EntryOrders

\* Which command the predeclared restore is at, by the orders left.
LEMMA AtPredeclared ==
    ASSUME NetTypes, Busy, Running(PredeclaredRestore, 3)
    PROVE  /\ Left \in 1..3
           /\ Left = 3 => Command = <<"firewall-remove", 1>>
           /\ Left = 2 => Command = <<"firewall-remove", 2>>
           /\ Left = 1 => Command = <<"check", "predeclared-restored">>
<1>1. Left \in 1..3 /\ Command = PredeclaredRestore[3 - Left + 1]
  BY CommandOf
<1> QED
  BY <1>1, PredeclaredOrders

\* Which command the full restore is at, by the orders left.
LEMMA AtFallback ==
    ASSUME NetTypes, Busy, Running(Fallback, 19)
    PROVE  /\ Left \in 1..19
           /\ Left = 19 => Command = <<"firewall-remove", 1>>
           /\ Left = 18 => Command = <<"firewall-remove", 2>>
           /\ Left = 17 => Command = <<"direct-down", "direct">>
           /\ Left = 16 => Command = <<"direct-delete", "direct">>
           /\ Left = 15 => Command = <<"direct-mtu", "direct">>
           /\ Left = 14 => Command = <<"direct-admin", "direct">>
           /\ Left = 13 => Command = <<"direct-arp", "direct">>
           /\ Left = 12 => Command = <<"direct-arp", "sibling">>
           /\ Left = 11 => Command = <<"check", "idle-restored">>
           /\ Left = 10 => Command = <<"fabric-start", Host>>
           /\ Left = 9 => Command = <<"switch-up", "switch1">>
           /\ Left = 8 => Command = <<"switch-metric", "switch1">>
           /\ Left = 7 => Command = <<"switch-mtu", "switch1">>
           /\ Left = 6 => Command = <<"switch-arp", "switch1">>
           /\ Left = 5 => Command = <<"switch-up", "switch2">>
           /\ Left = 4 => Command = <<"switch-metric", "switch2">>
           /\ Left = 3 => Command = <<"switch-mtu", "switch2">>
           /\ Left = 2 => Command = <<"switch-arp", "switch2">>
           /\ Left = 1 => Command = <<"check", "switched-restored">>
<1>1. Left \in 1..19 /\ Command = Fallback[19 - Left + 1]
  BY CommandOf
<1> QED
  BY <1>1, FallbackOrders

-----------------------------------------------------------------------------
(* How the actions move.                                                    *)

\* Nothing has been changed by somebody else or too late, neither before nor by the step.
QuietStep == /\ NetInv /\ ShellInv /\ [Next]_vars /\ ValidOriginal(original)
             /\ drift = 0 /\ drift' = 0 /\ ~script.late /\ ~script'.late

\* A step keeps the recorded original, and a quiet one has been quiet all along.
LEMMA StepFrame ==
    ASSUME NetInv, ShellInv, [Next]_vars
    PROVE  /\ lifecycle' = lifecycle /\ original' = original
           /\ IsPredeclared' <=> IsPredeclared
           /\ Quiet' => QuietStep /\ Quiet
<1>1. lifecycle' = lifecycle /\ original' = original
  BY ScriptFrames
     DEF Next, vars, Enter, DirectReady, InstallFirewall, Restore, RestoreUnentered,
         RestorePartial, RestoreEntered, Start, Dispatch, Skip, Complete, Check, Refuse, Die, Frame,
         ScriptFrame, Close, Settle, Drift
<1>2. drift \in Nat /\ (drift' = drift \/ drift' = drift + 1)
  <2>1. drift \in Nat
    BY NetworkAssumption DEF NetInv, HandlerInv, NetTypes
  <2>2. drift' = drift \/ drift' = drift + 1
    BY ScriptFrames
       DEF Next, vars, Enter, DirectReady, InstallFirewall, Restore, RestoreUnentered,
           RestorePartial, RestoreEntered, Start, Dispatch, Skip, Complete, Check, Refuse, Die,
           Frame, ScriptFrame, Close, Settle, Drift
  <2> QED
    BY <2>1, <2>2
<1>3. drift' = 0 => drift = 0
  BY <1>2
<1>4. script.late => script'.late
  <2>1. CASE Script
    BY <2>1, ScriptShape DEF NetInv, HandlerInv
  <2>2. CASE ~Script
    <3>1. script' = script
      BY <2>2 DEF Next, vars, Enter, DirectReady, InstallFirewall, Restore, RestoreUnentered,
           RestorePartial, RestoreEntered, Start, Dispatch, Skip, Complete, Check, Refuse, Die,
           Frame, Close, Settle, Drift
    <3> QED
      BY <3>1
  <2> QED
    BY <2>1, <2>2
<1> QED
  BY <1>1, <1>3, <1>4, SameOriginal DEF Quiet, QuietStep

\* No drift happens in a quiet step.
LEMMA NoDrift == ASSUME QuietStep PROVE ~Drift
<1>1. drift = 0 /\ drift' = 0
  BY DEF QuietStep
<1>2. ASSUME Drift PROVE drift' = 0 + 1
  BY <1>1, <1>2 DEF Drift
<1> QED
  BY <1>1, <1>2

\* What an operation that starts writes: its files and its program, nothing on the host.
LEMMA StartStep ==
    ASSUME NEW op, NEW todo, NEW written, Start(op, todo, written)
    PROVE  /\ handler'.op = op /\ handler'.todo = todo /\ ~handler'.sent
           /\ net' = net /\ files' = files \cup written
           /\ script' = script /\ closed' = closed
           /\ handler' = [op |-> op, todo |-> todo, sent |-> FALSE]
  BY DEF Start, Frame

\* Sending a command journals its intent first and touches nothing else.
LEMMA DispatchStep ==
    ASSUME NetInv, Dispatch
    PROVE  /\ Stays /\ handler'.sent /\ Busy /\ ~IsCheck /\ Busy'
           /\ ~Has(Intent(Command)) /\ files' = files \cup {Intent(Command)}
           /\ net' = net /\ script' = script /\ closed' = closed
<1>1. handler \in Calls /\ Busy /\ handler' = [handler EXCEPT !.sent = TRUE]
  BY DEF Dispatch, NetInv, HandlerInv, NetTypes, Calls
<1>2. handler'.todo = handler.todo /\ handler'.op = handler.op /\ handler'.sent
  BY <1>1 DEF Calls
<1>3. Busy'
  BY <1>2 DEF Busy, Nobody
<1> QED
  BY <1>1, <1>2, <1>3 DEF Dispatch, Stays, Frame

\* A command that is not needed is passed over, with nothing written.
LEMMA SkipStep ==
    ASSUME NetInv, Skip
    PROVE  /\ Busy /\ ~IsCheck /\ ~handler.sent /\ Permitted(Command) /\ ~Needed(Command)
           /\ Proceeds /\ handler' \in Calls
           /\ net' = net /\ files' = files /\ script' = script /\ closed' = closed
<1>1. Busy /\ handler' = Next1(handler)
  BY DEF Skip
<1> QED
  BY <1>1, ProceedsOn, Advanced DEF Skip, Frame, NetInv, HandlerInv

\* A check that passes records its phase and goes on.
LEMMA CheckStep ==
    ASSUME NetInv, Check
    PROVE  /\ Busy /\ IsCheck /\ Passes(Command[2], net)
           /\ Command \in Checks /\ Command = <<"check", Command[2]>>
           /\ Proceeds /\ handler' \in Calls
           /\ files' = files \cup {Phase(Command[2])}
           /\ net' = net /\ script' = script /\ closed' = closed
<1>1. Busy /\ IsCheck /\ handler' = Next1(handler)
  BY DEF Check
<1>2. Command \in Checks
  BY <1>1, CommandShape DEF NetInv, HandlerInv
<1>3. Command = <<"check", Command[2]>>
  BY <1>2 DEF Checks
<1> QED
  BY <1>1, <1>2, <1>3, ProceedsOn, Advanced DEF Check, Frame, NetInv, HandlerInv

\* A command that completes takes its effect, records it done and goes on.
LEMMA CompleteStep ==
    ASSUME NetInv, Complete
    PROVE  /\ Busy /\ ~IsCheck /\ handler.sent /\ Command \in Commands
           /\ Takes(Command) /\ Proceeds /\ handler' \in Calls
           /\ files' = files \cup {Done(Command)}
           /\ script' = script /\ closed' = closed
<1>1. Busy /\ handler.sent /\ Effect(Command) /\ handler' \in {Nobody, Next1(handler)}
  BY DEF Complete, CommandTakes, Raise
<1>2. ~IsCheck /\ Command \in Commands
  BY <1>1, CommandShape DEF NetInv, HandlerInv, NetTypes
<1> QED
  BY <1>1, <1>2, TakesEffect, ProceedsOn, Advanced DEF Complete, Frame, NetInv, HandlerInv

\* A handler that dies leaves its journal; the command it had sent may or may not have taken.
LEMMA DieStep ==
    ASSUME NetInv, Die
    PROVE  /\ Busy /\ handler' = Nobody /\ handler'.op = "none" /\ handler'.todo = <<>>
           /\ files' = files /\ script' = script /\ closed' = closed
           /\ net' = net \/ (~IsCheck /\ handler.sent /\ Command \in Commands /\ Takes(Command))
<1>1. Busy /\ handler' = Nobody
  BY DEF Die, Raise
<1>2. net' = net \/ (handler.sent /\ Effect(Command))
  BY DEF Die, CommandTakes
<1>3. handler.sent => ~IsCheck /\ Command \in Commands
  BY CommandShape DEF NetInv, HandlerInv, NetTypes
<1> QED
  BY <1>1, <1>2, <1>3, TakesEffect DEF Die, Frame, NetInv, HandlerInv, Nobody

\* A refusal ends the operation with the host and the journal as they were.
LEMMA RefuseStep ==
    ASSUME Refuse
    PROVE  /\ Busy /\ handler' = Nobody /\ handler'.op = "none" /\ handler'.todo = <<>>
           /\ net' = net /\ files' = files /\ script' = script /\ closed' = closed
  BY DEF Refuse, Raise, Frame, Nobody

\* A step that leaves the handler and the files alone.
Outside == handler' = handler /\ files' = files

\* A step outside the handler changes neither its position nor its journal.
LEMMA OutsideSame ==
    ASSUME Outside
    PROVE  /\ Busy' <=> Busy
           /\ Entered' <=> Entered
           /\ EntryBegan' <=> EntryBegan
           /\ \A f : Has(f)' <=> Has(f)
           /\ \A name : HasPhase(name)' <=> HasPhase(name)
           /\ Left' = Left
           /\ \A n, s : Running(s, n)' <=> Running(s, n)
<1>1. Left' = Left
  BY DEF Outside, Left
<1> QED
  BY <1>1 DEF Outside, Busy, Entered, EntryBegan, Has, HasPhase, Running

\* No handler means no operation and no orders.
LEMMA NobodyIdle ==
    ASSUME handler' = Nobody
    PROVE  ~Busy' /\ handler'.op = "none" /\ handler'.todo = <<>> /\ DOMAIN handler'.todo = {}
  BY DEF Nobody, Busy

(* What is left of the actions: the steps around the handlers.              *)
LEMMA AroundStep ==
    ASSUME NetInv, Close \/ Settle \/ UNCHANGED vars
    PROVE  /\ Outside /\ script' = script
           /\ net' = net \/ (net.dispatcher /\ net' = [net EXCEPT !.dispatcher = FALSE])
           /\ closed' = closed \/ (closed' = TRUE /\ ~Busy)
  BY DEF Close, Settle, Settled, vars, Outside, Frame, Busy

-----------------------------------------------------------------------------
(* The predeclared lifecycle.                                               *)

\* The fields that no step but a command, a script or a hook changes.
NetStill == net' = net /\ original' = original

\* A step that leaves the host alone keeps the predeclared host.
LEMMA NetStillKeeps ==
    ASSUME PredeclaredNet, NetStill PROVE PredeclaredNet'
  BY DEF PredeclaredNet, NetStill, Untouched

\* On a predeclared host an operation starts with the story intact.
LEMMA PredeclaredStarts ==
    ASSUME QuietStep, IsPredeclared, PredeclaredHeld, Enter \/ DirectReady \/ InstallFirewall \/ Restore
    PROVE  PredeclaredHeld'
<1>1. NetInv /\ original' = original /\ ~Busy
  BY StepFrame DEF QuietStep, Enter, DirectReady, InstallFirewall, Restore, Opens, Busy
<1>2. ASSUME NEW op, NEW todo, NEW written, Start(op, todo, written) PROVE PredeclaredNet'
  <2>1. NetStill
    BY <1>1, <1>2, StartStep DEF NetStill
  <2> QED
    BY <2>1, NetStillKeeps DEF PredeclaredHeld
<1>3. ASSUME NEW written, Start("none", <<>>, written),
             (Phase("idle") \in written \/ Entered) \/ written = {Phase("unchanged")}
      PROVE  PredeclaredHeld'
  <2>1. /\ handler' = Nobody /\ handler'.op = "none" /\ handler'.todo = <<>> /\ net' = net
        /\ files' = files \cup written
    BY <1>3, StartStep DEF Nobody
  <2>2. RuleOrders'
    BY <2>1 DEF RuleOrders
  <2>3. Removing'
    BY <2>1 DEF Removing
  <2>4. NothingYet'
    BY <1>1, <1>3, <2>1 DEF NothingYet, PredeclaredHeld, Entered, HasPhase, Has, Busy
  <2> QED
    BY <1>2, <1>3, <2>2, <2>3, <2>4 DEF PredeclaredHeld
<1>4. CASE Enter
  BY <1>3, <1>4 DEF Enter
<1>5. CASE DirectReady
  <2>1. Start("none", <<>>, {Phase("direct-ready")}) /\ Entered
    BY <1>5 DEF DirectReady, Entered
  <2> QED
    BY <1>3, <2>1
<1>6. CASE InstallFirewall
  <2>1. Start("install", Install, {}) /\ HasPhase("direct-ready")
    BY <1>6 DEF InstallFirewall
  <2>2. Entered
    BY <2>1 DEF PredeclaredHeld, NothingYet, HasPhase, Has, Phase
  <2>3. handler'.op = "install" /\ handler'.todo = Install /\ files' = files /\ net' = net
    BY <2>1, StartStep
  <2>4. Entered'
    BY <2>2, <2>3 DEF Entered, HasPhase, Has
  <2>5. \A j \in DOMAIN Install : Install[j][1] \in {"firewall-insert", "firewall-remove", "check"}
    BY DEF Install
  <2> QED
    BY <1>2, <2>1, <2>3, <2>4, <2>5 DEF PredeclaredHeld, RuleOrders, NothingYet, Removing
<1>7. CASE Restore
  <2>1. CASE RestoreUnentered
    BY <1>3, <2>1 DEF RestoreUnentered
  <2>2. CASE RestoreEntered
    <3>1. Start("restore", PredeclaredRestore, {Phase("restore-started")}) /\ Entered
      BY <2>2 DEF RestoreEntered
    <3>2. handler'.op = "restore" /\ handler'.todo = PredeclaredRestore /\ net' = net
          /\ files' = files \cup {Phase("restore-started")}
      BY <3>1, StartStep
    <3>3. Entered'
      BY <3>1, <3>2 DEF Entered, HasPhase, Has
    <3>4. PredeclaredRestore \in Seq(Orders) /\ Len(PredeclaredRestore) = 3
          /\ DOMAIN PredeclaredRestore = 1..3
      BY Programs DEF IsProgram
    <3>5. RuleOrders'
      BY <3>2, <3>4, PredeclaredOrders DEF RuleOrders
    <3>6. Left' = 3
      BY <3>2, <3>4 DEF Left
    <3>7. Running(PredeclaredRestore, 3)'
      BY <3>2, <3>6 DEF Running
    <3> QED
      BY <1>2, <3>1, <3>3, <3>5, <3>6, <3>7 DEF PredeclaredHeld, NothingYet, Removing
  <2> QED
    BY <1>7, <2>1, <2>2 DEF Restore, RestorePartial
<1> QED
  BY <1>4, <1>5, <1>6, <1>7

\* A rule command touches the rules alone.
LEMMA RuleTakes ==
    ASSUME NEW l, Takes(l), l[1] \in {"firewall-insert", "firewall-remove"}, NetTypes
    PROVE  /\ net' \in Snapshot /\ SameAside(net', net) /\ net'.fabric = net.fabric
           /\ net'.profile = net.profile /\ net'.ports = net.ports
           /\ net'.dispatcher = net.dispatcher
<1>1. net'.ports \in [Ports -> Port] /\ net.ports \in [Ports -> Port] /\ net' \in Snapshot
  BY DEF Takes, NetTypes, Snapshot
<1>2. \A q \in Ports : net'.ports[q] = net.ports[q]
  BY DEF Takes, PortCommands
<1>3. l[1] \notin PortCommands /\ l[1] \notin {"direct-delete", "fabric-stop", "fabric-start"}
  BY DEF PortCommands
<1>4. net'.ports = net.ports
  BY <1>1, <1>2
<1> QED
  BY <1>1, <1>3, <1>4 DEF Takes

\* On a predeclared host the story holds after an order that removes what it says it removes.
LEMMA PredeclaredProceeds ==
    ASSUME QuietStep, IsPredeclared, PredeclaredHeld, Busy, Proceeds, handler' \in Calls,
           PredeclaredNet', files \subseteq files',
           handler.op = "restore" =>
               /\ \/ net'.rules[1] = net.rules[1]
                  \/ net'.rules[1] = 0
               /\ \/ net'.rules[2] = net.rules[2]
                  \/ net'.rules[2] = 0
               /\ Command = <<"firewall-remove", 1>> => net'.rules[1] = 0
               /\ Command = <<"firewall-remove", 2>> => net'.rules[2] = 0
    PROVE  PredeclaredHeld'
<1>1. RuleOrders'
  BY DEF RuleOrders, PredeclaredHeld, Proceeds
<1>2. NothingYet'
  BY DEF NothingYet, PredeclaredHeld, Entered, HasPhase, Has
<1>3. ASSUME handler'.op = "restore" PROVE Removing'
  <2>1. handler' # Nobody /\ handler.op = "restore" /\ Left' = Left - 1
    BY <1>3 DEF Nobody, Proceeds
  <2>2. NetTypes
    BY DEF QuietStep, NetInv, HandlerInv
  <2>3. Running(PredeclaredRestore, 3) /\ (Left <= 2 => net.rules[1] = 0)
        /\ (Left <= 1 => net.rules[2] = 0)
    BY <2>1 DEF PredeclaredHeld, Removing
  <2>4. Running(PredeclaredRestore, 3)'
    BY <2>1, <2>2, <2>3, RunsOn
  <2>5. /\ Left \in 1..3
        /\ Left = 3 => Command = <<"firewall-remove", 1>>
        /\ Left = 2 => Command = <<"firewall-remove", 2>>
    BY <2>2, <2>3, AtPredeclared
  <2>6. Left' <= 2 => net'.rules[1] = 0
    BY <2>1, <2>3, <2>5
  <2>7. Left' <= 1 => net'.rules[2] = 0
    BY <2>1, <2>3, <2>5
  <2> QED
    BY <2>4, <2>6, <2>7 DEF Removing
<1>4. Removing'
  BY <1>3 DEF Removing
<1> QED
  BY <1>1, <1>2, <1>4 DEF PredeclaredHeld

\* On a predeclared host only firewall commands are ever sent.
LEMMA PredeclaredTakes ==
    ASSUME QuietStep, IsPredeclared, PredeclaredHeld, Busy, ~IsCheck, Takes(Command)
    PROVE  /\ Command[1] \in {"firewall-insert", "firewall-remove"}
           /\ PredeclaredNet'
<1>1. NetTypes /\ original' = original
  BY StepFrame DEF QuietStep, NetInv, HandlerInv
<1>2. Command[1] \in {"firewall-insert", "firewall-remove"}
  BY <1>1, Position DEF PredeclaredHeld, RuleOrders, IsCheck
<1>3. /\ net' \in Snapshot /\ SameAside(net', net) /\ net'.fabric = net.fabric
      /\ net'.profile = net.profile /\ net'.ports = net.ports
      /\ net'.dispatcher = net.dispatcher
  BY <1>1, <1>2, RuleTakes
<1> QED
  BY <1>1, <1>2, <1>3 DEF PredeclaredHeld, PredeclaredNet, Untouched, SameAside

\* The predeclared story is kept by every quiet step.
LEMMA KeptPredeclaredNext ==
    ASSUME QuietStep, IsPredeclared, PredeclaredHeld
    PROVE  PredeclaredHeld'
<1> USE DEF QuietStep
<1>1. NetTypes /\ NetInv /\ original' = original /\ (IsPredeclared' <=> IsPredeclared)
  BY StepFrame DEF NetInv, HandlerInv
<1>2. CASE Enter \/ DirectReady \/ InstallFirewall \/ Restore
  BY <1>2, PredeclaredStarts
<1>3. ASSUME NetStill PROVE PredeclaredNet'
  BY <1>3, NetStillKeeps DEF PredeclaredHeld
<1>4. CASE Dispatch
  <2>1. /\ Stays /\ Busy /\ Busy' /\ net' = net /\ files \subseteq files'
    BY <1>1, <1>4, DispatchStep
  <2>2. PredeclaredNet'
    BY <1>1, <1>3, <2>1 DEF NetStill
  <2>3. RuleOrders'
    BY <2>1 DEF Stays, RuleOrders, PredeclaredHeld
  <2>4. NothingYet'
    BY <2>1 DEF NothingYet, PredeclaredHeld, Entered, HasPhase, Has
  <2>5. Left' = Left /\ (Running(PredeclaredRestore, 3)' <=> Running(PredeclaredRestore, 3))
    BY <2>1, RunsStill
  <2>6. Removing'
    BY <2>1, <2>5 DEF Removing, PredeclaredHeld, Stays
  <2> QED
    BY <2>2, <2>3, <2>4, <2>6 DEF PredeclaredHeld
<1>5. net.rules[1] \in 0..1 /\ net.rules[2] \in 0..1
  BY <1>1, PortNames DEF NetTypes, Snapshot
<1>6. CASE Skip
  <2>1. /\ Busy /\ ~IsCheck /\ Permitted(Command) /\ ~Needed(Command)
        /\ Proceeds /\ handler' \in Calls /\ net' = net /\ files' = files
    BY <1>1, <1>6, SkipStep
  <2>2. PredeclaredNet'
    BY <1>1, <1>3, <2>1 DEF NetStill
  <2>3. Command = <<"firewall-remove", 1>> => net'.rules[1] = 0
    BY <1>5, <2>1 DEF Needed
  <2>4. Command = <<"firewall-remove", 2>> => net'.rules[2] = 0
    BY <1>5, <2>1 DEF Needed
  <2> QED
    BY <2>1, <2>2, <2>3, <2>4, PredeclaredProceeds
<1>7. CASE Check
  <2>1. /\ Busy /\ IsCheck /\ Proceeds /\ handler' \in Calls /\ net' = net /\ files \subseteq files'
    BY <1>1, <1>7, CheckStep
  <2>2. PredeclaredNet'
    BY <1>1, <1>3, <2>1 DEF NetStill
  <2> QED
    BY <2>1, <2>2, PredeclaredProceeds DEF IsCheck
<1>8. CASE Complete
  <2>1. /\ Busy /\ ~IsCheck /\ Proceeds /\ handler' \in Calls /\ Takes(Command) /\ files \subseteq files'
    BY <1>1, <1>8, CompleteStep
  <2>2. Command[1] \in {"firewall-insert", "firewall-remove"} /\ PredeclaredNet'
    BY <2>1, PredeclaredTakes
  <2>3. handler.op = "restore" => Command \in {<<"firewall-remove", 1>>, <<"firewall-remove", 2>>}
    <3>1. handler.op = "restore" => Running(PredeclaredRestore, 3)
      BY DEF PredeclaredHeld, Removing
    <3> QED
      BY <1>1, <2>1, <3>1, AtPredeclared DEF IsCheck
  <2>4. Takes(Command) /\ 1 \in Rules /\ 2 \in Rules
    BY <2>1, PortNames
  <2>5. Command = <<"firewall-remove", 1>> => net'.rules[1] = 0 /\ net'.rules[2] = net.rules[2]
    BY <2>4 DEF Takes
  <2>6. Command = <<"firewall-remove", 2>> => net'.rules[2] = 0 /\ net'.rules[1] = net.rules[1]
    BY <2>4 DEF Takes
  <2> QED
    BY <2>1, <2>2, <2>3, <2>5, <2>6, PredeclaredProceeds
<1>9. CASE Refuse \/ Die
  <2>1. /\ Busy /\ handler' = Nobody /\ files' = files
        /\ net' = net \/ (~IsCheck /\ Takes(Command))
    BY <1>1, <1>9, RefuseStep, DieStep
  <2>2. PredeclaredNet'
    BY <1>1, <1>3, <2>1, PredeclaredTakes DEF NetStill
  <2>3. ~Busy' /\ handler'.op = "none" /\ DOMAIN handler'.todo = {}
    BY <2>1, NobodyIdle
  <2>4. NothingYet'
    BY <2>1 DEF NothingYet, PredeclaredHeld, Entered, HasPhase, Has
  <2> QED
    BY <2>2, <2>3, <2>4 DEF PredeclaredHeld, RuleOrders, Removing
<1>10. CASE Script
  BY <1>1, <1>10, ScriptShape
<1>11. CASE Close \/ Settle \/ UNCHANGED vars
  <2>1. Outside /\ net' = net
    BY <1>1, <1>11, AroundStep DEF PredeclaredHeld, PredeclaredNet
  <2>2. PredeclaredNet'
    BY <1>1, <1>3, <2>1 DEF NetStill
  <2>3. /\ Busy' <=> Busy
        /\ Entered' <=> Entered
        /\ Left' = Left
        /\ Running(PredeclaredRestore, 3)' <=> Running(PredeclaredRestore, 3)
    BY <2>1, OutsideSame
  <2> QED
    BY <1>1, <2>1, <2>2, <2>3 DEF PredeclaredHeld, RuleOrders, NothingYet, Removing, Outside
<1>12. CASE Drift
  BY <1>12, NoDrift
<1> QED
  BY <1>2, <1>4, <1>6, <1>7, <1>8, <1>9, <1>10, <1>11, <1>12 DEF Next

-----------------------------------------------------------------------------
(* An entry.                                                                *)

LEMMA SwitchPartSame ==
    ASSUME NEW p, SwitchPart(p), net'.ports[p] = net.ports[p], original' = original, files \subseteq files'
    PROVE  SwitchPart(p)' /\ (IsOff(p) => IsOff(p)')
<1>1. /\ Has(Intent(<<"switch-disconnect", p>>)) => Has(Intent(<<"switch-disconnect", p>>))'
      /\ Has(Intent(<<"switch-admin-down", p>>)) => Has(Intent(<<"switch-admin-down", p>>))'
  BY DEF Has
<1> QED
  BY <1>1 DEF SwitchPart, IsOff

\* Disconnecting a switch port, intent journalled, keeps its part of the story.
LEMMA SwitchPartOff ==
    ASSUME NEW p, SwitchPart(p), net.ports[p] \in Port, net'.ports[p] = Off(net.ports[p]),
           original' = original, files \subseteq files',
           p \in Reviewed \/ Has(Intent(<<"switch-disconnect", p>>))
    PROVE  SwitchPart(p)' /\ IsOff(p)'
<1>1. /\ Has(Intent(<<"switch-disconnect", p>>)) => Has(Intent(<<"switch-disconnect", p>>))'
      /\ Has(Intent(<<"switch-admin-down", p>>)) => Has(Intent(<<"switch-admin-down", p>>))'
  BY DEF Has
<1> DEFINE d == net.ports[p]   e == net'.ports[p]
<1>2. /\ e.uuid = "none" /\ e.addr = FALSE /\ e.route = "none"
      /\ e.up = d.up /\ e.mtu = d.mtu /\ e.arp = d.arp
  BY DEF Off, Port
<1> HIDE DEF d, e
<1>3. SwitchPart(p)'
  BY <1>1, <1>2 DEF SwitchPart, d, e
<1> QED
  BY <1>2, <1>3 DEF IsOff, e

\* Setting a disconnected switch port down, intent journalled, keeps its part of the story.
LEMMA SwitchPartDown ==
    ASSUME NEW p, SwitchPart(p), net.ports[p] \in Port, IsOff(p),
           net'.ports[p] = [net.ports[p] EXCEPT !.up = FALSE],
           original' = original, files \subseteq files', Has(Intent(<<"switch-admin-down", p>>))
    PROVE  SwitchPart(p)' /\ IsOff(p)'
<1>1. /\ Has(Intent(<<"switch-disconnect", p>>)) => Has(Intent(<<"switch-disconnect", p>>))'
      /\ Has(Intent(<<"switch-admin-down", p>>))'
  BY DEF Has
<1> DEFINE d == net.ports[p]   e == net'.ports[p]
<1>2. /\ e.uuid = d.uuid /\ e.addr = d.addr /\ e.route = d.route
      /\ e.up = FALSE /\ e.mtu = d.mtu /\ e.arp = d.arp
  BY DEF Port
<1> HIDE DEF d, e
<1>3. IsOff(p)'
  BY <1>2 DEF IsOff, d, e
<1>4. SwitchPart(p)'
  BY <1>1, <1>2 DEF SwitchPart, IsOff, d, e
<1> QED
  BY <1>3, <1>4

\* The entry's command at hand takes.
LEMMA EntryTakes ==
    ASSUME QuietStep, EnteringHeld, Busy, ~IsCheck, handler.sent, Takes(Command),
           files \subseteq files'
    PROVE  /\ EnteringNet'
           /\ Left \in 2..6
           /\ Left = 5 => IsOff("switch1")'
           /\ Left <= 4 => IsOff("switch1")'
           /\ Left = 3 => IsOff("switch2")'
           /\ Left <= 2 => IsOff("switch2")'
<1>1. NetTypes /\ original' = original /\ Has(Intent(Command))
  BY StepFrame DEF QuietStep, NetInv, HandlerInv, NetTypes
<1>2. Running(Entry, 6) /\ EnteringNet
      /\ (Left <= 4 => IsOff("switch1")) /\ (Left <= 2 => IsOff("switch2"))
  BY DEF EnteringHeld, EntryRuns
<1>3. /\ Left \in 1..6
      /\ Left = 6 => Command = <<"fabric-stop", Host>>
      /\ Left = 5 => Command = <<"switch-disconnect", "switch1">>
      /\ Left = 4 => Command = <<"switch-admin-down", "switch1">>
      /\ Left = 3 => Command = <<"switch-disconnect", "switch2">>
      /\ Left = 2 => Command = <<"switch-admin-down", "switch2">>
      /\ Left = 1 => Command = <<"check", "idle">>
  BY <1>1, <1>2, AtEntry
<1>4. Left \in 2..6
  BY <1>3 DEF IsCheck
<1>5. /\ net.ports \in [Ports -> Port] /\ net.rules \in [Rules -> 0..1] /\ net' \in Snapshot
      /\ net'.rules \in [Rules -> 0..1]
  BY <1>1 DEF Takes, NetTypes, Snapshot
<1>6. /\ "switch1" \in Ports /\ "switch2" \in Ports /\ DirectPorts \subseteq Ports
      /\ "switch1" \notin DirectPorts /\ "switch2" \notin DirectPorts
      /\ DirectPorts \cap Disconnects = {}
  BY PortNames, NetworkAssumption DEF DirectPorts
<1>7. ASSUME Command[1] \in {"fabric-stop", "switch-disconnect", "switch-admin-down"},
             Command[2] \notin DirectPorts
      PROVE  /\ Untouched' /\ net'.rules = original'.rules /\ net'.profile = original'.profile
             /\ net'.fabric \in {original'.fabric, "dead"}
             /\ \A p \in DirectPorts : net'.ports[p] = original'.ports[p]
  <2>1. \A r \in Rules : net'.rules[r] = net.rules[r]
    BY <1>7 DEF Takes
  <2>2. net'.rules = net.rules
    BY <1>5, <2>1
  <2>3. SameAside(net', net) /\ net'.profile = net.profile /\ net'.fabric \in {net.fabric, "dead"}
    BY <1>7 DEF Takes
  <2>4. \A p \in DirectPorts : net'.ports[p] = net.ports[p]
    BY <1>6, <1>7 DEF Takes
  <2> QED
    BY <1>1, <1>2, <2>2, <2>3, <2>4 DEF EnteringNet, Untouched, SameAside
<1>8. CASE Left = 6
  <2>1. Command = <<"fabric-stop", Host>> /\ Host \notin DirectPorts
    BY <1>3, <1>8 DEF DirectPorts, Host
  <2>2. \A p \in {"switch1", "switch2"} :
           \/ net'.ports[p] = net.ports[p]
           \/ net'.ports[p] = Off(net.ports[p]) /\ p \in Reviewed
    BY <1>6, <2>1, NetworkAssumption DEF Takes
  <2>3. SwitchPart("switch1")' /\ SwitchPart("switch2")'
    BY <1>1, <1>2, <1>5, <1>6, <2>2, SwitchPartSame, SwitchPartOff DEF EnteringNet
  <2> QED
    BY <1>7, <1>8, <2>1, <2>3 DEF EnteringNet
<1>9. ASSUME NEW p \in {"switch1", "switch2"}, NEW q \in {"switch1", "switch2"}, p # q,
             Command \in {<<"switch-disconnect", p>>, <<"switch-admin-down", p>>},
             Command = <<"switch-admin-down", p>> => IsOff(p)
      PROVE  EnteringNet' /\ IsOff(p)' /\ (IsOff(q) => IsOff(q)')
  <2>1. net'.ports[q] = net.ports[q]
    BY <1>6, <1>9 DEF Takes
  <2>2. net'.ports[p] = Taken(Command, net.ports[p], original.ports[p])
    BY <1>6, <1>9 DEF Takes, PortCommands
  <2>3. SwitchPart(p) /\ SwitchPart(q) /\ net.ports[p] \in Port /\ net.ports[q] \in Port
    BY <1>2, <1>5, <1>6, <1>9 DEF EnteringNet
  <2>4. SwitchPart(q)' /\ (IsOff(q) => IsOff(q)')
    BY <1>1, <2>1, <2>3, SwitchPartSame
  <2>5. SwitchPart(p)' /\ IsOff(p)'
    <3>1. CASE Command = <<"switch-disconnect", p>>
      <4>1. net'.ports[p] = Off(net.ports[p])
        BY <2>2, <3>1 DEF Taken
      <4> QED
        BY <1>1, <2>3, <3>1, <4>1, SwitchPartOff
    <3>2. CASE Command = <<"switch-admin-down", p>>
      <4>1. net'.ports[p] = [net.ports[p] EXCEPT !.up = FALSE]
        BY <2>2, <3>2 DEF Taken
      <4> QED
        BY <1>1, <1>9, <2>3, <3>2, <4>1, SwitchPartDown
    <3> QED
      BY <1>9, <3>1, <3>2
  <2>6. /\ Untouched' /\ net'.rules = original'.rules /\ net'.profile = original'.profile
        /\ net'.fabric \in {original'.fabric, "dead"}
        /\ \A r \in DirectPorts : net'.ports[r] = original'.ports[r]
    BY <1>6, <1>7, <1>9
  <2> QED
    BY <1>9, <2>4, <2>5, <2>6 DEF EnteringNet
<1>10. CASE Left \in {4, 5}
  BY <1>2, <1>3, <1>9, <1>10
<1>11. CASE Left \in {2, 3}
  <2>1. EnteringNet' /\ IsOff("switch2")' /\ (IsOff("switch1") => IsOff("switch1")')
    BY <1>2, <1>3, <1>9, <1>11
  <2> QED
    BY <1>2, <1>4, <1>11, <2>1
<1> QED
  BY <1>4, <1>8, <1>10, <1>11

(* The orders of a restore and those of an entry or an installation differ. *)
LEMMA RestoreLabelKinds ==
    \A l \in RestoreLabels :
        l[1] \notin {"fabric-stop", "switch-disconnect", "switch-admin-down", "firewall-insert"}
<1>1. \A j \in 1..19 :
        Fallback[j][1] \notin {"fabric-stop", "switch-disconnect", "switch-admin-down", "firewall-insert"}
  BY FallbackOrders
<1> QED
  BY <1>1 DEF RestoreLabels

\* A file that is no intent of the restore leaves the restore unbegun.
LEMMA IntentsKept ==
    ASSUME NoneIntended, NEW f, files' = files \cup {f}, \A l \in RestoreLabels : f # Intent(l)
    PROVE  NoneIntended'
  BY DEF NoneIntended, Has

\* With the journal unchanged everything read from it is unchanged.
LEMMA FilesSame ==
    ASSUME files' = files
    PROVE  /\ \A f : Has(f)' <=> Has(f)
           /\ \A name : HasPhase(name)' <=> HasPhase(name)
           /\ NoneIntended => NoneIntended'
           /\ EntryFiles => EntryFiles'
  BY DEF Has, HasPhase, NoneIntended, EntryFiles

\* A step that leaves the host alone keeps what entry relies on.
LEMMA EnteringNetSame ==
    ASSUME EnteringNet, net'.fabric = net.fabric, net'.idle = net.idle, net'.ray = net.ray,
           net'.work = net.work, net'.rest = net.rest, net'.ports = net.ports,
           net'.profile = net.profile, net'.rules = net.rules,
           original' = original, files \subseteq files'
    PROVE  EnteringNet' /\ (IsOff("switch1") => IsOff("switch1")') /\ (IsOff("switch2") => IsOff("switch2")')
<1>1. \A p \in {"switch1", "switch2"} : SwitchPart(p) => SwitchPart(p)' /\ (IsOff(p) => IsOff(p)')
  BY SwitchPartSame
<1>2. SwitchPart("switch1") /\ SwitchPart("switch2")
  BY DEF EnteringNet
<1> QED
  BY <1>1, <1>2 DEF EnteringNet, Untouched, SameAside

\* Sending a command of entry keeps the story of entry.
LEMMA EntryDispatch ==
    ASSUME QuietStep, EnteringHeld, Dispatch
    PROVE  EnteringHeld'
<1>1. /\ NetTypes /\ original' = original
      /\ Stays /\ Busy /\ ~IsCheck /\ files' = files \cup {Intent(Command)} /\ net' = net
      /\ script' = script /\ Busy'
  BY StepFrame, DispatchStep DEF QuietStep, NetInv, HandlerInv
<1>2. Running(Entry, 6) /\ EnteringNet /\ EntryFiles /\ NoneIntended
      /\ handler.op = "enter"
      /\ (Left <= 5 => Has(Done(<<"fabric-stop", Host>>)))
      /\ (Left <= 4 => IsOff("switch1"))
      /\ (Left <= 3 => Has(Done(<<"switch-admin-down", "switch1">>)))
      /\ (Left <= 2 => IsOff("switch2"))
  BY <1>1 DEF EnteringHeld, EntryRuns
<1>3. /\ Left \in 1..6
      /\ Left = 6 => Command = <<"fabric-stop", Host>>
      /\ Left = 5 => Command = <<"switch-disconnect", "switch1">>
      /\ Left = 4 => Command = <<"switch-admin-down", "switch1">>
      /\ Left = 3 => Command = <<"switch-disconnect", "switch2">>
      /\ Left = 2 => Command = <<"switch-admin-down", "switch2">>
      /\ Left = 1 => Command = <<"check", "idle">>
  BY <1>1, <1>2, AtEntry
<1>4. Left \in 2..6
  BY <1>1, <1>3 DEF IsCheck
<1>5. EnteringNet' /\ (IsOff("switch1") => IsOff("switch1")') /\ (IsOff("switch2") => IsOff("switch2")')
  BY <1>1, <1>2, EnteringNetSame
<1>6. NoneIntended'
  <2>1. Command[1] \in {"fabric-stop", "switch-disconnect", "switch-admin-down"}
    BY <1>3, <1>4
  <2>2. \A l \in RestoreLabels : Intent(Command) # Intent(l)
    BY <2>1, RestoreLabelKinds DEF Intent
  <2> QED
    BY <1>1, <1>2, <2>2, IntentsKept
<1>7. /\ \A l : Has(Done(l))' <=> Has(Done(l))
      /\ \A l : Has(Intent(l))' <=> Has(Intent(l)) \/ l = Command
      /\ HasPhase("direct-ready")' <=> HasPhase("direct-ready")
  BY <1>1 DEF Has, HasPhase, Done, Intent, Phase
<1>8. EntryFiles'
  <2>1. (Has(Done(<<"fabric-stop", Host>>)) => Has(Intent(<<"fabric-stop", Host>>)))'
    BY <1>2, <1>7 DEF EntryFiles
  <2>2. ASSUME NEW p \in {"switch1", "switch2"}, NEW kind \in {"switch-disconnect", "switch-admin-down"},
               Has(Intent(<<kind, p>>))'
        PROVE  /\ Has(Done(<<"fabric-stop", Host>>))'
               /\ p = "switch2" => Has(Done(<<"switch-admin-down", "switch1">>))'
    <3>1. CASE Has(Intent(<<kind, p>>))
      BY <1>2, <1>7, <3>1 DEF EntryFiles
    <3>2. CASE <<kind, p>> = Command
      <4>1. Left \in 2..5 /\ (p = "switch2" => Left \in 2..3)
        BY <1>3, <1>4, <3>2
      <4> QED
        BY <1>2, <1>7, <4>1
    <3> QED
      BY <1>7, <2>2, <3>1, <3>2
  <2>3. ~HasPhase("direct-ready")'
    BY <1>2, <1>7 DEF EntryFiles
  <2> QED
    BY <2>1, <2>2, <2>3 DEF EntryFiles
<1>9. EntryRuns'
  <2>1. Left' = Left /\ (Running(Entry, 6)' <=> Running(Entry, 6)) /\ handler'.op = handler.op
    BY <1>1, RunsStill DEF Stays
  <2> QED
    BY <1>2, <1>5, <1>7, <2>1 DEF EntryRuns
<1> QED
  BY <1>1, <1>2, <1>5, <1>6, <1>8, <1>9 DEF EnteringHeld

\* The entry goes on behind an order it has done or could leave out.
LEMMA EntryProceeds ==
    ASSUME QuietStep, EnteringHeld, Busy, Proceeds, handler' \in Calls,
           EnteringNet', EntryFiles', NoneIntended', files \subseteq files',
           Left = 6 => Has(Done(<<"fabric-stop", Host>>))',
           Left \in 4..5 => IsOff("switch1")',
           Left = 4 => Has(Done(<<"switch-admin-down", "switch1">>))',
           Left = 3 => IsOff("switch2")',
           IsOff("switch1") => IsOff("switch1")',
           IsOff("switch2") => IsOff("switch2")'
    PROVE  EnteringHeld'
<1>1. EntryRuns'
  <2> SUFFICES ASSUME handler' # Nobody
               PROVE  /\ handler'.op = "enter" /\ Running(Entry, 6)'
                      /\ Left' <= 5 => Has(Done(<<"fabric-stop", Host>>))'
                      /\ Left' <= 4 => IsOff("switch1")'
                      /\ Left' <= 3 => Has(Done(<<"switch-admin-down", "switch1">>))'
                      /\ Left' <= 2 => IsOff("switch2")'
    BY DEF EntryRuns, Busy
  <2>1. NetTypes /\ handler'.op = handler.op /\ Left' = Left - 1
    BY DEF Proceeds, QuietStep, NetInv, HandlerInv
  <2>2. Running(Entry, 6) /\ handler.op = "enter"
      /\ (Left <= 5 => Has(Done(<<"fabric-stop", Host>>)))
      /\ (Left <= 4 => IsOff("switch1"))
      /\ (Left <= 3 => Has(Done(<<"switch-admin-down", "switch1">>)))
      /\ (Left <= 2 => IsOff("switch2"))
    BY DEF EnteringHeld, EntryRuns
  <2>3. Left \in 1..6
    BY <2>1, <2>2, AtEntry
  <2>4. Running(Entry, 6)'
    BY <2>1, <2>2, RunsOn
  <2>5. \A l : Has(Done(l)) => Has(Done(l))'
    BY DEF Has
  <2>6. Left' <= 5 => Has(Done(<<"fabric-stop", Host>>))'
    BY <2>1, <2>2, <2>3, <2>5
  <2>7. Left' <= 4 => IsOff("switch1")'
    BY <2>1, <2>2, <2>3
  <2>8. Left' <= 3 => Has(Done(<<"switch-admin-down", "switch1">>))'
    BY <2>1, <2>2, <2>3, <2>5
  <2>9. Left' <= 2 => IsOff("switch2")'
    BY <2>1, <2>2, <2>3
  <2> QED
    BY <2>1, <2>2, <2>4, <2>6, <2>7, <2>8, <2>9
<1> QED
  BY <1>1 DEF EnteringHeld

\* Passing over a command keeps the story of entry.
LEMMA EntrySkip ==
    ASSUME QuietStep, ~IsPredeclared, EnteringHeld, Skip
    PROVE  EnteringHeld'
<1>1. /\ NetTypes /\ original' = original /\ original \in Baselines /\ ValidOriginal(original)
      /\ Busy /\ ~IsCheck /\ Permitted(Command) /\ ~Needed(Command)
      /\ Proceeds /\ handler' \in Calls /\ net' = net /\ files' = files /\ script' = script
  BY StepFrame, SkipStep DEF QuietStep, NetInv, HandlerInv, NetTypes
<1>2. Running(Entry, 6) /\ EnteringNet /\ EntryFiles /\ NoneIntended
  BY <1>1 DEF EnteringHeld, EntryRuns
<1>3. /\ Left \in 1..6
      /\ Left = 6 => Command = <<"fabric-stop", Host>>
      /\ Left = 5 => Command = <<"switch-disconnect", "switch1">>
      /\ Left = 4 => Command = <<"switch-admin-down", "switch1">>
      /\ Left = 3 => Command = <<"switch-disconnect", "switch2">>
      /\ Left = 2 => Command = <<"switch-admin-down", "switch2">>
      /\ Left = 1 => Command = <<"check", "idle">>
  BY <1>1, <1>2, AtEntry
<1>4. Command[1] = "switch-disconnect" /\ net.ports[Command[2]].uuid # "own"
  BY <1>1, <1>3 DEF Needed, IsCheck
<1>5. Left \in {3, 5} /\ Command[2] \in {"switch1", "switch2"}
      /\ (Left = 5 <=> Command[2] = "switch1")
  BY <1>3, <1>4
<1>6. original.ports[Command[2]].uuid = "own"
  BY <1>1, <1>5, TransientOriginal, PortFields
<1>7. SwitchPart(Command[2])
  BY <1>2, <1>5 DEF EnteringNet
<1>8. IsOff(Command[2])
  BY <1>4, <1>6, <1>7 DEF SwitchPart, IsOff
<1>9. EnteringNet' /\ (IsOff("switch1") => IsOff("switch1")') /\ (IsOff("switch2") => IsOff("switch2")')
  BY <1>1, <1>2, EnteringNetSame
<1>10. EntryFiles' /\ NoneIntended'
  BY <1>1, <1>2, FilesSame
<1>11. (Left = 5 => IsOff("switch1")') /\ (Left = 3 => IsOff("switch2")')
  BY <1>5, <1>8, <1>9
<1> QED
  BY <1>1, <1>5, <1>9, <1>10, <1>11, EntryProceeds

\* A command of entry that completes keeps the story of entry.
LEMMA EntryComplete ==
    ASSUME QuietStep, EnteringHeld, Complete
    PROVE  EnteringHeld'
<1>1. /\ NetTypes /\ original' = original /\ Has(Intent(Command))
      /\ Busy /\ ~IsCheck /\ handler.sent /\ Takes(Command) /\ Proceeds /\ handler' \in Calls
      /\ files' = files \cup {Done(Command)} /\ script' = script
  BY StepFrame, CompleteStep DEF QuietStep, NetInv, HandlerInv, NetTypes
<1>2. Running(Entry, 6) /\ EnteringNet /\ EntryFiles /\ NoneIntended
      /\ (Left <= 4 => IsOff("switch1")) /\ (Left <= 2 => IsOff("switch2"))
  BY <1>1 DEF EnteringHeld, EntryRuns
<1>3. /\ Left \in 1..6
      /\ Left = 6 => Command = <<"fabric-stop", Host>>
      /\ Left = 5 => Command = <<"switch-disconnect", "switch1">>
      /\ Left = 4 => Command = <<"switch-admin-down", "switch1">>
      /\ Left = 3 => Command = <<"switch-disconnect", "switch2">>
      /\ Left = 2 => Command = <<"switch-admin-down", "switch2">>
      /\ Left = 1 => Command = <<"check", "idle">>
  BY <1>1, <1>2, AtEntry
<1>4. /\ EnteringNet' /\ Left \in 2..6
      /\ Left = 5 => IsOff("switch1")'
      /\ Left <= 4 => IsOff("switch1")'
      /\ Left = 3 => IsOff("switch2")'
      /\ Left <= 2 => IsOff("switch2")'
  BY <1>1, EntryTakes
<1>5. /\ \A l : Has(Done(l))' <=> Has(Done(l)) \/ l = Command
      /\ \A l : Has(Intent(l))' <=> Has(Intent(l))
      /\ HasPhase("direct-ready")' <=> HasPhase("direct-ready")
  BY <1>1 DEF Has, HasPhase, Done, Intent, Phase
<1>6. EntryFiles'
  BY <1>1, <1>2, <1>5 DEF EntryFiles
<1>7. NoneIntended'
  BY <1>2, <1>5 DEF NoneIntended
<1>8. CASE Left \in 2..5
  <2>1. /\ Left \in 4..5 => IsOff("switch1")'
        /\ Left = 4 => Has(Done(<<"switch-admin-down", "switch1">>))'
        /\ IsOff("switch1")'
    BY <1>3, <1>4, <1>5, <1>8
  <2>2. handler' # Nobody => Left' = Left - 1
    BY <1>1 DEF Proceeds
  <2>3. EntryRuns'
    <3> SUFFICES ASSUME handler' # Nobody
               PROVE  /\ handler'.op = "enter" /\ Running(Entry, 6)'
                      /\ Left' <= 5 => Has(Done(<<"fabric-stop", Host>>))'
                      /\ Left' <= 4 => IsOff("switch1")'
                      /\ Left' <= 3 => Has(Done(<<"switch-admin-down", "switch1">>))'
                      /\ Left' <= 2 => IsOff("switch2")'
      BY DEF EntryRuns, Busy
    <3>1. Running(Entry, 6)' /\ handler'.op = handler.op /\ handler.op = "enter"
      BY <1>1, <1>2, RunsOn DEF Proceeds, EnteringHeld, EntryRuns
    <3>2. Has(Done(<<"fabric-stop", Host>>))'
      BY <1>1, <1>5, <1>8 DEF EnteringHeld, EntryRuns
    <3>3. Left' <= 3 => Has(Done(<<"switch-admin-down", "switch1">>))'
      BY <1>1, <1>5, <1>8, <2>1, <2>2 DEF EnteringHeld, EntryRuns
    <3>4. Left' <= 2 => IsOff("switch2")'
      BY <1>4, <1>8, <2>2
    <3> QED
      BY <2>1, <3>1, <3>2, <3>3, <3>4
  <2> QED
    BY <1>1, <1>4, <1>6, <1>7, <2>3 DEF EnteringHeld
<1>9. CASE Left = 6
  <2>1. handler' # Nobody => Left' = 5
    BY <1>1, <1>9 DEF Proceeds
  <2>2. Has(Done(<<"fabric-stop", Host>>))'
    BY <1>3, <1>5, <1>9
  <2>3. handler' # Nobody => Running(Entry, 6)' /\ handler'.op = "enter"
    BY <1>1, <1>2, RunsOn DEF Proceeds, EnteringHeld, EntryRuns
  <2>4. EntryRuns'
    BY <2>1, <2>2, <2>3 DEF EntryRuns, Busy
  <2> QED
    BY <1>1, <1>4, <1>6, <1>7, <2>4 DEF EnteringHeld
<1> QED
  BY <1>4, <1>8, <1>9

\* A refused or a dead entry leaves the story of entry true: its journal explains the host.
LEMMA EntryEnds ==
    ASSUME QuietStep, EnteringHeld, Refuse \/ Die
    PROVE  EnteringHeld'
<1>1. /\ NetTypes /\ original' = original
      /\ Busy /\ handler' = Nobody /\ files' = files /\ script' = script
      /\ net' = net \/ (~IsCheck /\ handler.sent /\ Takes(Command))
  BY StepFrame, RefuseStep, DieStep DEF QuietStep, NetInv, HandlerInv, NetTypes
<1>2. EnteringNet'
  <2>1. CASE net' = net
    BY <1>1, <2>1, EnteringNetSame DEF EnteringHeld
  <2>2. CASE ~IsCheck /\ handler.sent /\ Takes(Command)
    BY <1>1, <2>2, EntryTakes
  <2> QED
    BY <1>1, <2>1, <2>2
<1>3. EntryFiles' /\ NoneIntended'
  BY <1>1, FilesSame DEF EnteringHeld
<1>4. EntryRuns'
  BY <1>1, NobodyIdle DEF EntryRuns
<1> QED
  BY <1>1, <1>2, <1>3, <1>4 DEF EnteringHeld

\* Closing and settling do not disturb the story of entry.
LEMMA EntryOutside ==
    ASSUME QuietStep, EnteringHeld, Close \/ Settle \/ UNCHANGED vars
    PROVE  EnteringHeld'
<1>1. /\ NetTypes /\ original' = original /\ Outside /\ script' = script
      /\ net' = net \/ net' = [net EXCEPT !.dispatcher = FALSE]
  BY StepFrame, AroundStep DEF QuietStep, NetInv, HandlerInv
<1>2. /\ net'.fabric = net.fabric /\ net'.idle = net.idle /\ net'.ray = net.ray
      /\ net'.work = net.work /\ net'.rest = net.rest /\ net'.ports = net.ports
      /\ net'.profile = net.profile /\ net'.rules = net.rules
  BY <1>1 DEF NetTypes, Snapshot
<1>3. EnteringNet' /\ (IsOff("switch1") => IsOff("switch1")') /\ (IsOff("switch2") => IsOff("switch2")')
  BY <1>1, <1>2, EnteringNetSame DEF Outside, EnteringHeld
<1>4. EntryFiles' /\ NoneIntended' /\ (\A f : Has(f)' <=> Has(f))
  BY <1>1, FilesSame DEF Outside, EnteringHeld
<1>5. /\ Busy' <=> Busy
      /\ Left' = Left /\ (Running(Entry, 6)' <=> Running(Entry, 6)) /\ handler' = handler
  BY <1>1, OutsideSame DEF Outside
<1>6. EntryRuns'
  BY <1>3, <1>4, <1>5 DEF EntryRuns, EnteringHeld
<1> QED
  BY <1>1, <1>3, <1>4, <1>6 DEF EnteringHeld

\* An entry begins on an untouched node.
LEMMA EntryBegins ==
    ASSUME QuietStep, ~IsPredeclared, FreshHeld, Enter
    PROVE  EnteringHeld'
<1>1. /\ original' = original /\ original \in Snapshot
      /\ Start("enter", Entry, {Phase("transition-started")})
  BY StepFrame, OriginalFacts DEF QuietStep, NetInv, HandlerInv, NetTypes, Enter
<1>2. /\ handler'.op = "enter" /\ handler'.todo = Entry /\ net' = net /\ script' = script
      /\ files' = files \cup {Phase("transition-started")}
  BY <1>1, StartStep
<1>3. /\ net' = original'
      /\ files' \subseteq {Phase("unchanged"), Phase("transition-started")}
  BY <1>1, <1>2 DEF FreshHeld
<1>4. \A p : SwitchPart(p)'
  BY <1>3 DEF SwitchPart
<1>5. EnteringNet'
  BY <1>3, <1>4 DEF EnteringNet, Untouched, SameAside
<1>6. /\ \A l : ~Has(Intent(l))' /\ ~Has(Done(l))'
      /\ ~HasPhase("direct-ready")'
  BY <1>3 DEF Has, HasPhase, Phase, Intent, Done
<1>7. EntryFiles' /\ NoneIntended'
  BY <1>6 DEF EntryFiles, NoneIntended
<1>8. Left' = 6
  BY <1>2, Programs DEF Left, IsProgram
<1>9. Running(Entry, 6)'
  BY <1>2, <1>8 DEF Running
<1>10. EntryRuns'
  BY <1>2, <1>8, <1>9 DEF EntryRuns
<1> QED
  BY <1>3, <1>5, <1>7, <1>10 DEF EnteringHeld

-----------------------------------------------------------------------------
(* Behind the check of the idle ports.                                      *)

\* The network m is n but for the rules, the profile, the hooks and the direct ports.
SameSwitch(m, n) ==
    /\ SameAside(m, n) /\ m.fabric = n.fabric
    /\ \A p \in {"switch1", "switch2"} : m.ports[p] = n.ports[p]

\* A switch side left as it was is as idle as it was.
LEMMA SwitchIdleSame ==
    ASSUME original' = original, SwitchIdle(net), SameSwitch(net', net)
    PROVE  SwitchIdle(net)'
  BY PortNames DEF SwitchIdle, SameSwitch, SameAside

\* What DirectShape asks of a port that is d and was o, and of its sibling.
DirectOk(d, o) ==
    /\ d.up = o.up /\ d.mtu \in {o.mtu, "run"}
    /\ d.uuid \in {"none", "own"}
    /\ d.addr => d.uuid = "own"
    /\ d.route # "none" => d.addr
SiblingOk(s, o) == [s EXCEPT !.arp = o.arp] = o

\* The direct pair is partly up when each of its two ports is.
LEMMA DirectShapeParts ==
    ASSUME NEW n
    PROVE  DirectShape(n) <=> /\ DirectOk(n.ports["direct"], original.ports["direct"])
                              /\ SiblingOk(n.ports["sibling"], original.ports["sibling"])
  BY DEF DirectShape, DirectOk, SiblingOk

\* Inside the run, a step that touches only the direct pair keeps what the run relies on.
LEMMA InsideNetKept ==
    ASSUME original' = original, InsideNet, SameSwitch(net', net),
           DirectOk(net'.ports["direct"], original.ports["direct"]),
           SiblingOk(net'.ports["sibling"], original.ports["sibling"])
    PROVE  InsideNet'
<1>1. SwitchIdle(net)'
  BY SwitchIdleSame DEF InsideNet
<1>2. DirectShape(net)'
  BY DEF DirectShape, DirectOk, SiblingOk
<1>3. Untouched'
  BY DEF InsideNet, Untouched, SameAside, SameSwitch
<1> QED
  BY <1>1, <1>2, <1>3 DEF InsideNet

\* What is known of the ports inside a transient run.
LEMMA InsidePorts ==
    ASSUME QuietStep, ~IsPredeclared, InsideHeld
    PROVE  /\ NetTypes /\ original' = original /\ net \in Snapshot
           /\ net.ports["direct"] \in Port /\ net.ports["sibling"] \in Port
           /\ "direct" \in Ports /\ "sibling" \in Ports
           /\ original.ports["direct"] = IdlePort /\ original.ports["sibling"] = IdlePort
           /\ DirectOk(net.ports["direct"], IdlePort) /\ SiblingOk(net.ports["sibling"], IdlePort)
           /\ Lingers \in BOOLEAN
<1>1. /\ NetTypes /\ original' = original /\ original \in Baselines /\ ValidOriginal(original)
      /\ net \in Snapshot
  BY StepFrame DEF QuietStep, NetInv, HandlerInv, NetTypes
<1>2. original.ports["direct"] = IdlePort /\ original.ports["sibling"] = IdlePort
  BY <1>1, TransientOriginal
<1>3. net.ports \in [Ports -> Port] /\ "direct" \in Ports /\ "sibling" \in Ports
  BY <1>1, PortNames DEF Snapshot
<1> QED
  BY <1>1, <1>2, <1>3, DirectShapeParts, NetworkAssumption DEF InsideHeld, InsideNet

\* A step that leaves the network alone, or changes the rules or the hooks.
LEMMA InsideNetSame ==
    ASSUME QuietStep, ~IsPredeclared, InsideHeld,
           SameAside(net', net), net'.fabric = net.fabric, net'.ports = net.ports,
           net'.profile = net.profile
    PROVE  InsideNet' /\ ProfileHeld'
<1>1. InsideNet'
  BY InsidePorts, InsideNetKept DEF InsideHeld, SameSwitch
<1> QED
  BY <1>1 DEF InsideHeld, ProfileHeld

\* Sending a command inside the run keeps its story.
LEMMA InsideDispatch ==
    ASSUME QuietStep, ~IsPredeclared, InsideHeld, Dispatch
    PROVE  InsideHeld'
<1>1. /\ NetTypes /\ Stays /\ Busy /\ ~IsCheck /\ files' = files \cup {Intent(Command)} /\ net' = net
      /\ script' = script
  BY DispatchStep DEF QuietStep, NetInv, HandlerInv
<1>2. InsideNet' /\ ProfileHeld'
  BY <1>1, InsideNetSame DEF SameAside
<1>3. Command[1] = "firewall-insert"
  BY <1>1, Position DEF InsideHeld, InstallOnly, IsCheck
<1>4. NoneIntended'
  <2>1. \A l \in RestoreLabels : Intent(Command) # Intent(l)
    BY <1>3, RestoreLabelKinds DEF Intent
  <2> QED
    BY <1>1, <2>1, IntentsKept DEF InsideHeld
<1>5. InstallOnly'
  BY <1>1 DEF Stays, InstallOnly, InsideHeld
<1> QED
  BY <1>2, <1>4, <1>5 DEF InsideHeld

\* Finishing, refusing or losing an order inside the run keeps its story.
LEMMA InsideHandler ==
    ASSUME QuietStep, ~IsPredeclared, InsideHeld, Skip \/ Complete \/ Check \/ Refuse \/ Die
    PROVE  InsideHeld'
<1>1. NetTypes /\ NetInv /\ Busy /\ script' = script
  BY SkipStep, CompleteStep, CheckStep, RefuseStep, DieStep DEF QuietStep, NetInv, HandlerInv
<1>2. InstallOnly'
  <2>1. Proceeds \/ handler' = Nobody
    BY <1>1, SkipStep, CompleteStep, CheckStep, RefuseStep, DieStep
  <2> QED
    BY <2>1, NobodyIdle DEF InsideHeld, InstallOnly, Proceeds
<1>3. \A l : Has(Intent(l))' <=> Has(Intent(l))
  <2>1. files' = files \/ (\E f : files' = files \cup {Done(f)}) \/ (\E f : files' = files \cup {Phase(f)})
    BY <1>1, SkipStep, CompleteStep, CheckStep, RefuseStep, DieStep
  <2> QED
    BY <2>1 DEF Has, Intent, Done, Phase
<1>4. NoneIntended'
  BY <1>3 DEF InsideHeld, NoneIntended
<1>5. net' = net \/ (~IsCheck /\ Takes(Command))
  BY <1>1, SkipStep, CompleteStep, CheckStep, RefuseStep, DieStep
<1>6. CASE net' = net
  BY <1>1, <1>2, <1>4, <1>6, InsideNetSame DEF SameAside, InsideHeld
<1>7. CASE ~IsCheck /\ Takes(Command)
  <2>1. Command[1] = "firewall-insert"
    BY <1>1, <1>7, Position DEF InsideHeld, InstallOnly, IsCheck
  <2>2. SameAside(net', net) /\ net'.fabric = net.fabric /\ net'.profile = net.profile
        /\ net'.ports = net.ports
    BY <1>1, <1>7, <2>1, RuleTakes
  <2> QED
    BY <1>1, <1>2, <1>4, <2>2, InsideNetSame DEF InsideHeld
<1> QED
  BY <1>5, <1>6, <1>7

\* Reporting the direct link and inserting the firewall start with the story intact.
LEMMA InsideStarts ==
    ASSUME QuietStep, ~IsPredeclared, InsideHeld, DirectReady \/ InstallFirewall
    PROVE  InsideHeld'
<1>1. PICK todo \in {<<>>, Install}, op \in Operations, written \in {{}, {Phase("direct-ready")}} :
         Start(op, todo, written)
  BY DEF DirectReady, InstallFirewall, Operations
<1>2. /\ handler'.todo = todo /\ net' = net /\ script' = script /\ files' = files \cup written
  BY <1>1, StartStep
<1>3. InsideNet' /\ ProfileHeld'
  BY <1>2, InsideNetSame DEF SameAside
<1>4. InstallOnly'
  <2>1. \A j \in DOMAIN Install : Install[j][1] = "firewall-insert"
           \/ Install[j] = <<"check", "firewall-ready">>
    BY DEF Install
  <2>2. DOMAIN <<>> = {}
    OBVIOUS
  <2> QED
    BY <1>1, <1>2, <2>1, <2>2 DEF InstallOnly
<1>5. \A l : Has(Intent(l))' <=> Has(Intent(l))
  BY <1>1, <1>2 DEF Has, Intent, Phase
<1>6. NoneIntended'
  BY <1>5 DEF InsideHeld, NoneIntended
<1> QED
  BY <1>3, <1>4, <1>6 DEF InsideHeld

\* Closing and settling do not disturb the story of the run.
LEMMA InsideOutside ==
    ASSUME QuietStep, ~IsPredeclared, InsideHeld, Close \/ Settle \/ UNCHANGED vars
    PROVE  InsideHeld'
<1>1. /\ NetTypes /\ Outside /\ script' = script
      /\ net' = net \/ net' = [net EXCEPT !.dispatcher = FALSE]
  BY AroundStep DEF QuietStep, NetInv, HandlerInv
<1>2. /\ SameAside(net', net) /\ net'.fabric = net.fabric /\ net'.ports = net.ports
      /\ net'.profile = net.profile
  BY <1>1 DEF NetTypes, Snapshot, SameAside
<1>3. InsideNet' /\ ProfileHeld'
  BY <1>1, <1>2, InsideNetSame
<1>4. NoneIntended' /\ InstallOnly'
  BY <1>1, FilesSame DEF Outside, InsideHeld, InstallOnly
<1> QED
  BY <1>3, <1>4 DEF InsideHeld

\* What a shell command makes of a direct port is again a port the run may leave: a command of
\* the trap undoes nothing that a restore has settled.
LEMMA ShellOk ==
    ASSUME NEW l \in ShellCommands, NEW p \in DirectPorts, NEW d \in Port,
           NEW e, e = ShellTaken(l, p, d, IdlePort)
    PROVE  /\ p = "direct" /\ DirectOk(d, IdlePort) => DirectOk(e, IdlePort)
           /\ p = "sibling" /\ SiblingOk(d, IdlePort) => SiblingOk(e, IdlePort)
           /\ p = "direct" /\ e.uuid = "own" =>
                 l[1] = "up" \/ (d.uuid = "own" /\ l[1] # "delete")
           /\ l[1] \in {"bare", "down", "delete", "mtu"} =>
                 /\ d.uuid = "none" => e.uuid = "none"
                 /\ d.mtu = "base" => e.mtu = "base"
                 /\ d.arp = {} => e.arp = {}
                 /\ d = IdlePort => e = IdlePort
<1>1. /\ IdlePort \in Port /\ IdlePort.mtu = "base" /\ IdlePort.arp = {} /\ IdlePort.uuid = "none"
  BY PortTypes, PortFields
<1>2. ASSUME NEW a, e = [d EXCEPT !.arp = a]
      PROVE  /\ e.uuid = d.uuid /\ e.mtu = d.mtu /\ e.arp = a
             /\ DirectOk(d, IdlePort) => DirectOk(e, IdlePort)
             /\ SiblingOk(d, IdlePort) => SiblingOk(e, IdlePort)
             /\ d = IdlePort /\ a = {} => e = IdlePort
  <2>1. /\ e.uuid = d.uuid /\ e.mtu = d.mtu /\ e.arp = a /\ e.up = d.up
        /\ e.addr = d.addr /\ e.route = d.route
    BY <1>2 DEF Port
  <2>2. [e EXCEPT !.arp = IdlePort.arp] = [d EXCEPT !.arp = IdlePort.arp]
    BY <1>2 DEF Port
  <2>3. d = IdlePort /\ a = {} => e = IdlePort
    BY <1>1, <1>2 DEF Port
  <2> QED
    BY <2>1, <2>2, <2>3 DEF DirectOk, SiblingOk
<1>3. CASE l[1] = "guard" /\ l[2] = p
  BY <1>2, <1>3 DEF ShellTaken
<1>4. CASE l[1] = "bare" /\ l[2] = p
  <2>1. e = [d EXCEPT !.arp = (d.arp \ {l[3]}) \cup (IdlePort.arp \cap {l[3]})]
    BY <1>4 DEF ShellTaken
  <2>2. d.arp = {} => (d.arp \ {l[3]}) \cup (IdlePort.arp \cap {l[3]}) = {}
    BY <1>1
  <2> QED
    BY <1>1, <1>2, <1>4, <2>1, <2>2
<1>5. CASE e = d /\ l[1] # "delete"
  BY <1>5
<1>6. CASE p = "direct" /\ l[1] = "up"
  <2>1. e = [d EXCEPT !.uuid = "own", !.addr = TRUE, !.route = "own", !.mtu = "run"]
    BY <1>6 DEF ShellTaken
  <2>2. /\ e.uuid = "own" /\ e.addr = TRUE /\ e.mtu = "run" /\ e.up = d.up
    BY <2>1 DEF Port
  <2> QED
    BY <1>6, <2>2 DEF DirectOk
<1>7. CASE p = "direct" /\ l[1] \in {"down", "delete"} /\ d.uuid = "own"
  <2>1. e = Off(d)
    BY <1>7 DEF ShellTaken
  <2>2. /\ e.uuid = "none" /\ e.addr = FALSE /\ e.route = "none" /\ e.mtu = d.mtu
        /\ e.up = d.up /\ e.arp = d.arp
    BY <2>1 DEF Port, Off
  <2> QED
    BY <1>1, <1>7, <2>2 DEF DirectOk
<1>8. CASE l[1] = "delete" /\ e = d /\ (p = "direct" => d.uuid # "own")
  BY <1>8
<1>9. CASE p = "direct" /\ l[1] = "mtu"
  <2>1. e = [d EXCEPT !.mtu = IdlePort.mtu]
    BY <1>9 DEF ShellTaken
  <2>2. /\ e.uuid = d.uuid /\ e.addr = d.addr /\ e.route = d.route /\ e.mtu = "base"
        /\ e.up = d.up /\ e.arp = d.arp
    BY <1>1, <2>1 DEF Port
  <2>3. d = IdlePort => e = IdlePort
    BY <1>1, <2>1 DEF Port
  <2> QED
    BY <1>1, <1>9, <2>2, <2>3 DEF DirectOk
<1> QED
  BY <1>3, <1>4, <1>5, <1>6, <1>7, <1>8, <1>9 DEF ShellTaken

\* Every step of the direct script keeps the story of the run.
LEMMA InsideScript ==
    ASSUME QuietStep, ~IsPredeclared, InsideHeld, Script
    PROVE  InsideHeld'
<1> DEFINE d == net.ports["direct"]    s == net.ports["sibling"]
           e == net'.ports["direct"]   f == net'.ports["sibling"]
<1>1. /\ d \in Port /\ s \in Port /\ DirectOk(d, IdlePort) /\ SiblingOk(s, IdlePort)
      /\ original.ports["direct"] = IdlePort /\ original.ports["sibling"] = IdlePort
      /\ original' = original /\ NetTypes
      /\ "direct" \in DirectPorts /\ "sibling" \in DirectPorts
  BY InsidePorts DEF DirectPorts
<1>2. /\ handler' = handler /\ files' = files
      /\ net' = net \/ \E l \in ShellCommands : ShellCarries(l)
  BY <1>1, ScriptShape DEF ScriptFrame, QuietStep
<1>3. NoneIntended' /\ InstallOnly'
  BY <1>2, FilesSame DEF InsideHeld, InstallOnly
<1>4. CASE net' = net
  BY <1>3, <1>4, InsideNetSame DEF SameAside, InsideHeld
<1>5. CASE \E l \in ShellCommands : ShellCarries(l)
  <2>1. PICK l \in ShellCommands : ShellCarries(l)
    BY <1>5
  <2>2. /\ LeavesSwitch(net', net)
        /\ net'.profile = IF l[1] = "add" THEN TRUE
                          ELSE IF l[1] = "delete" THEN FALSE ELSE net.profile
        /\ e = ShellTaken(l, "direct", d, IdlePort) /\ f = ShellTaken(l, "sibling", s, IdlePort)
        /\ l[1] = "up" => net.profile
    BY <1>1, <2>1 DEF ShellCarries, ShellTakes, Carries
  <2>3. SameSwitch(net', net)
    BY <2>2, PortNames DEF LeavesSwitch, SameSwitch
  <2>4. /\ DirectOk(e, IdlePort) /\ SiblingOk(f, IdlePort)
        /\ e.uuid = "own" => l[1] = "up" \/ (d.uuid = "own" /\ l[1] # "delete")
    BY <1>1, <2>2, ShellOk
  <2>5. InsideNet'
    BY <1>1, <2>3, <2>4, InsideNetKept DEF InsideHeld
  <2>6. ProfileHeld'
    BY <2>2, <2>4 DEF InsideHeld, ProfileHeld
  <2> QED
    BY <1>3, <2>5, <2>6 DEF InsideHeld
<1> QED
  BY <1>2, <1>4, <1>5

\* The check that ends an entry.
LEMMA EntryChecked ==
    ASSUME QuietStep, ~IsPredeclared, EnteringHeld, Check
    PROVE  InsideHeld' /\ Command = <<"check", "idle">>
<1>1. /\ NetTypes /\ original' = original /\ original \in Baselines /\ ValidOriginal(original)
      /\ Busy /\ IsCheck /\ Passes(Command[2], net) /\ Proceeds
      /\ files' = files \cup {Phase(Command[2])} /\ net' = net /\ script' = script
  BY StepFrame, CheckStep DEF QuietStep, NetInv, HandlerInv, NetTypes
<1>2. Running(Entry, 6)
  BY <1>1 DEF EnteringHeld, EntryRuns
<1>3. Left = 1 /\ Command = <<"check", "idle">>
  BY <1>1, <1>2, AtEntry DEF IsCheck
<1>4. ValidIdle(net) /\ handler' = Nobody
  BY <1>1, <1>3 DEF Passes, Proceeds
<1>5. /\ original.ports["direct"] = IdlePort /\ original.ports["sibling"] = IdlePort
  BY <1>1, TransientOriginal
<1>6. net.ports["direct"] = IdlePort /\ net.ports["sibling"] = IdlePort
  BY <1>4, <1>5 DEF ValidIdle, DirectPorts
<1>7. DirectOk(IdlePort, IdlePort) /\ SiblingOk(IdlePort, IdlePort)
  BY PortTypes, PortFields DEF DirectOk, SiblingOk, Port
<1>8. DirectShape(net)
  BY <1>5, <1>6, <1>7, DirectShapeParts
<1>9. InsideNet
  BY <1>4, <1>8 DEF InsideNet, ValidIdle, EnteringHeld, EnteringNet
<1>10. InsideNet'
  BY <1>1, <1>5, <1>6, <1>7, <1>9, InsideNetKept DEF SameSwitch, SameAside
<1>11. ProfileHeld'
  BY <1>1, <1>6, PortFields DEF ProfileHeld, EnteringHeld
<1>12. InstallOnly'
  BY <1>4, NobodyIdle DEF InstallOnly
<1>13. \A l : Has(Intent(l))' <=> Has(Intent(l))
  BY <1>1 DEF Has, Intent, Phase
<1>14. NoneIntended'
  BY <1>13 DEF EnteringHeld, NoneIntended
<1> QED
  BY <1>3, <1>10, <1>11, <1>12, <1>14 DEF InsideHeld

-----------------------------------------------------------------------------
(* The restore.                                                             *)

LEMMA ReturnFacts ==
    ASSUME QuietStep, ~IsPredeclared, Busy, handler.op = "restore", ReturningHeld
    PROVE  /\ NetTypes /\ original' = original /\ net \in Snapshot
           /\ Running(Fallback, 19) /\ NotYetIntended /\ ReturningNet /\ Left \in 1..19
           /\ net.ports \in [Ports -> Port]
           /\ net.rules[1] \in 0..1 /\ net.rules[2] \in 0..1 /\ net.profile \in BOOLEAN
           /\ original.ports["direct"] = IdlePort /\ original.ports["sibling"] = IdlePort
           /\ original.ports["switch1"] = ActivePort /\ original.ports["switch2"] = ActivePort
           /\ original.fabric = "exited" /\ original.profile = FALSE
           /\ original.rules = [r \in Rules |-> 0]
           /\ original \in Snapshot /\ ValidOriginal(original) /\ original \in Baselines
<1>1. /\ NetTypes /\ original' = original /\ original \in Baselines /\ ValidOriginal(original)
      /\ net \in Snapshot
  BY StepFrame DEF QuietStep, NetInv, HandlerInv, NetTypes
<1>2. /\ net.ports \in [Ports -> Port] /\ net.rules[1] \in 0..1 /\ net.rules[2] \in 0..1
      /\ net.profile \in BOOLEAN
  BY <1>1, PortNames DEF Snapshot
<1>3. Left \in 1..19
  BY <1>1, AtFallback DEF ReturningHeld
<1> QED
  BY <1>1, <1>2, <1>3, TransientOriginal, OriginalFacts DEF ReturningHeld

\* What the orders in front of the check of the idle ports settle.
LEMMA StillDirect ==
    ASSUME QuietStep, ~IsPredeclared, Busy, handler.op = "restore", ReturningHeld,
           Left \in 12..19, Left' = Left - 1,
           SameSwitch(net', net),
           DirectOk(net'.ports["direct"], IdlePort), SiblingOk(net'.ports["sibling"], IdlePort),
           net'.ports["direct"].uuid = "own" => net'.profile,
           net'.rules[1] = 0,
           Left <= 18 => net'.rules[2] = 0,
           Left <= 17 => net'.ports["direct"].uuid = "none",
           Left <= 16 => ~net'.profile,
           Left <= 15 => net'.ports["direct"].mtu = IdlePort.mtu,
           Left <= 13 => net'.ports["direct"].arp = IdlePort.arp,
           Left <= 12 => net'.ports["sibling"].arp = IdlePort.arp
    PROVE  ReturningNet'
<1>1. /\ original' = original /\ ReturningNet
      /\ original.ports["direct"] = IdlePort /\ original.ports["sibling"] = IdlePort
  BY ReturnFacts
<1>2. Left' \in 11..18
  OBVIOUS
<1>3. Untouched' /\ SwitchIdle(net)'
  BY <1>1, SwitchIdleSame DEF ReturningNet, DirectSettled, Untouched, SameSwitch, SameAside
<1>4. DirectShape(net)'
  BY <1>1 DEF DirectShape, DirectOk, SiblingOk
<1>5. DirectSettled'
  BY <1>1, <1>2, <1>3, <1>4 DEF DirectSettled
<1>6. SwitchSettled("switch1", 5)' /\ SwitchSettled("switch2", 1)'
  BY <1>2 DEF SwitchSettled
<1> QED
  BY <1>2, <1>3, <1>5, <1>6 DEF ReturningNet

\* How far the restore has taken the direct pair back, by the orders left.
LEMMA DirectNow ==
    ASSUME QuietStep, ~IsPredeclared, Busy, handler.op = "restore", ReturningHeld, Left \in 11..19
    PROVE  /\ DirectOk(net.ports["direct"], IdlePort) /\ SiblingOk(net.ports["sibling"], IdlePort)
           /\ net.ports["direct"].uuid = "own" => net.profile
           /\ Left <= 18 => net.rules[1] = 0
           /\ Left <= 17 => net.rules[2] = 0
           /\ Left <= 16 => net.ports["direct"].uuid = "none"
           /\ Left <= 15 => ~net.profile
           /\ Left <= 14 => net.ports["direct"].mtu = IdlePort.mtu
           /\ Left <= 12 => net.ports["direct"].arp = IdlePort.arp
           /\ Left <= 11 => net.ports["sibling"].arp = IdlePort.arp
           /\ SwitchIdle(net)
<1>1. /\ ReturningNet
      /\ original.ports["direct"] = IdlePort /\ original.ports["sibling"] = IdlePort
  BY ReturnFacts
<1>2. DirectSettled
  BY <1>1 DEF ReturningNet
<1> QED
  BY <1>1, <1>2, DirectShapeParts DEF DirectSettled

\* Passing over a restore order that is not needed: the host is already what the next one expects.
LEMMA ReturnSkips ==
    ASSUME QuietStep, ~IsPredeclared, ReturningHeld, handler.op = "restore", Skip, Left' = Left - 1
    PROVE  ReturningNet'
<1>1. Busy /\ ~IsCheck /\ Permitted(Command) /\ ~Needed(Command) /\ net' = net
  BY SkipStep DEF QuietStep
<1>2. /\ NetTypes /\ Running(Fallback, 19) /\ net.rules[1] \in 0..1 /\ net.rules[2] \in 0..1
      /\ net.profile \in BOOLEAN
  BY <1>1, ReturnFacts
<1>3. Command[1] \in {"switch-disconnect", "direct-down", "direct-delete", "firewall-remove"}
  BY <1>1 DEF Needed
<1>4. /\ Left \in 16..19
      /\ Left = 19 => Command = <<"firewall-remove", 1>>
      /\ Left = 18 => Command = <<"firewall-remove", 2>>
      /\ Left = 17 => Command = <<"direct-down", "direct">>
      /\ Left = 16 => Command = <<"direct-delete", "direct">>
  BY <1>1, <1>2, <1>3, AtFallback
<1>5. /\ DirectOk(net.ports["direct"], IdlePort) /\ SiblingOk(net.ports["sibling"], IdlePort)
      /\ net.ports["direct"].uuid = "own" => net.profile
      /\ Left <= 18 => net.rules[1] = 0
      /\ Left <= 17 => net.rules[2] = 0
      /\ Left <= 16 => net.ports["direct"].uuid = "none"
  BY <1>1, <1>4, DirectNow
<1>6. Left = 19 => net.rules[1] = 0
  BY <1>1, <1>2, <1>4 DEF Needed
<1>7. Left = 18 => net.rules[2] = 0
  BY <1>1, <1>2, <1>4 DEF Needed
<1>8. Left = 17 => net.ports["direct"].uuid = "none"
  BY <1>1, <1>4, <1>5 DEF Needed, Permitted, DirectOk
<1>9. Left = 16 => ~net.profile
  BY <1>1, <1>4 DEF Needed
<1>10. SameSwitch(net', net)
  BY <1>1 DEF SameSwitch, SameAside
<1> QED
  BY <1>1, <1>4, <1>5, <1>6, <1>7, <1>8, <1>9, <1>10, StillDirect

\* A command in front of the check of the idle ports takes.
LEMMA DirectTakes ==
    ASSUME QuietStep, ~IsPredeclared, Busy, ~IsCheck, handler.op = "restore", ReturningHeld,
           Left \in 12..19, Takes(Command), Left' = Left - 1
    PROVE  ReturningNet'
<1>1. /\ NetTypes /\ Running(Fallback, 19) /\ net.ports \in [Ports -> Port]
      /\ original.ports["direct"] = IdlePort /\ original.ports["sibling"] = IdlePort
  BY ReturnFacts
<1>2. /\ Left = 19 => Command = <<"firewall-remove", 1>>
      /\ Left = 18 => Command = <<"firewall-remove", 2>>
      /\ Left = 17 => Command = <<"direct-down", "direct">>
      /\ Left = 16 => Command = <<"direct-delete", "direct">>
      /\ Left = 15 => Command = <<"direct-mtu", "direct">>
      /\ Left = 14 => Command = <<"direct-admin", "direct">>
      /\ Left = 13 => Command = <<"direct-arp", "direct">>
      /\ Left = 12 => Command = <<"direct-arp", "sibling">>
  BY <1>1, AtFallback
<1> DEFINE d == net.ports["direct"]    s == net.ports["sibling"]
           e == net'.ports["direct"]   f == net'.ports["sibling"]
<1>3. /\ DirectOk(d, IdlePort) /\ SiblingOk(s, IdlePort)
      /\ d.uuid = "own" => net.profile
      /\ Left <= 18 => net.rules[1] = 0
      /\ Left <= 17 => net.rules[2] = 0
      /\ Left <= 16 => d.uuid = "none"
      /\ Left <= 15 => ~net.profile
      /\ Left <= 14 => d.mtu = IdlePort.mtu
      /\ Left <= 12 => d.arp = IdlePort.arp
  BY DirectNow
<1>4. /\ d \in Port /\ s \in Port /\ "direct" \in Ports /\ "sibling" \in Ports
      /\ "switch1" \in Ports /\ "switch2" \in Ports /\ 1 \in Rules /\ 2 \in Rules
  BY <1>1, PortNames
<1>5. /\ Command[1] \notin {"fabric-stop", "fabric-start", "firewall-insert"}
      /\ Command[2] \notin {"switch1", "switch2"} \/ Command[1] \notin PortCommands
      /\ Left # 16 => Command[1] # "direct-delete"
      /\ Left <= 17 => Command[1] # "firewall-remove"
      /\ Left \in {16, 18, 19} => Command[1] \notin PortCommands
      /\ Left # 12 => Command[2] # "sibling" \/ Command[1] \notin PortCommands
  BY <1>2 DEF PortCommands
<1>6. SameSwitch(net', net)
  <2>1. \A q \in {"switch1", "switch2"} : ~(Command[1] \in PortCommands /\ Command[2] = q)
    BY <1>5
  <2>2. \A q \in {"switch1", "switch2"} : net'.ports[q] = net.ports[q]
    BY <1>4, <1>5, <2>1 DEF Takes
  <2>3. SameAside(net', net) /\ net'.fabric = net.fabric
    BY <1>5 DEF Takes
  <2> QED
    BY <2>2, <2>3 DEF SameSwitch
<1>7. net'.profile = IF Left = 16 THEN FALSE ELSE net.profile
  <2>1. Left = 16 <=> Command[1] = "direct-delete"
    BY <1>2, <1>5
  <2> QED
    BY <2>1 DEF Takes
<1>8. net'.rules[1] = 0 /\ (Left <= 18 => net'.rules[2] = 0)
  <2>1. Left = 19 => net'.rules[1] = 0
    BY <1>2, <1>4 DEF Takes
  <2>2. Left = 18 => net'.rules[2] = 0 /\ net'.rules[1] = net.rules[1]
    BY <1>2, <1>4 DEF Takes
  <2>3. Left <= 17 => net'.rules[2] = net.rules[2] /\ net'.rules[1] = net.rules[1]
    BY <1>4, <1>5 DEF Takes
  <2> QED
    BY <1>3, <2>1, <2>2, <2>3
<1>9. f = IF Left = 12 THEN [s EXCEPT !.arp = IdlePort.arp] ELSE s
  <2>1. CASE Left = 12
    <3>1. f = Taken(Command, s, IdlePort)
      BY <1>1, <1>2, <1>4, <2>1 DEF Takes, PortCommands
    <3> QED
      BY <1>2, <2>1, <3>1 DEF Taken
  <2>2. CASE Left # 12
    BY <1>4, <1>5, <2>2 DEF Takes
  <2> QED
    BY <2>1, <2>2
<1>10. SiblingOk(f, IdlePort) /\ (Left <= 12 => f.arp = IdlePort.arp)
  BY <1>3, <1>4, <1>9 DEF SiblingOk, Port
<1>11. e = IF Left = 17 THEN Off(d)
           ELSE IF Left = 15 THEN [d EXCEPT !.mtu = IdlePort.mtu]
           ELSE IF Left = 14 THEN [d EXCEPT !.up = IdlePort.up]
           ELSE IF Left = 13 THEN [d EXCEPT !.arp = IdlePort.arp]
           ELSE d
  <2>1. CASE Left \in {17, 15, 14, 13}
    <3>1. e = Taken(Command, d, IdlePort)
      BY <1>1, <1>2, <1>4, <2>1 DEF Takes, PortCommands
    <3> QED
      BY <1>2, <2>1, <3>1 DEF Taken
  <2>2. CASE Left \in {12, 18, 19}
    <3>1. /\ ~(Command[1] \in PortCommands /\ Command[2] = "direct")
          /\ Command[1] \notin {"fabric-stop", "direct-delete"}
      BY <1>2, <1>5, <2>2 DEF PortCommands
    <3> QED
      BY <1>4, <2>2, <3>1 DEF Takes
  <2>3. CASE Left = 16
    <3>1. Command[1] = "direct-delete" /\ d.uuid # "own"
      BY <1>2, <1>3, <2>3
    <3> QED
      BY <1>4, <2>3, <3>1 DEF Takes
  <2> QED
    BY <1>1, <2>1, <2>2, <2>3
<1>12. /\ DirectOk(e, IdlePort)
       /\ Left <= 17 => e.uuid = "none"
       /\ Left > 17 => e.uuid = d.uuid
       /\ Left <= 15 => e.mtu = IdlePort.mtu
       /\ Left <= 13 => e.arp = IdlePort.arp
  <2>1. CASE Left = 17
    BY <1>4, <1>11, <1>3, <2>1 DEF DirectOk, Port, Off
  <2>2. CASE Left # 17
    BY <1>4, <1>11, <1>3, <2>2 DEF DirectOk, Port
  <2> QED
    BY <2>1, <2>2
<1> HIDE DEF d, e, f, s
<1>13. /\ e.uuid = "own" => net'.profile
       /\ Left <= 16 => ~net'.profile
  BY <1>3, <1>7, <1>12
<1> QED
  BY <1>6, <1>8, <1>10, <1>12, <1>13, StillDirect DEF e, f

\* The check of the idle ports passes.
LEMMA IdleChecked ==
    ASSUME QuietStep, ~IsPredeclared, Busy, handler.op = "restore", ReturningHeld,
           Left = 11, Left' = 10, net' = net, Passes(Command[2], net)
    PROVE  ReturningNet'
<1>1. /\ NetTypes /\ Running(Fallback, 19) /\ original' = original /\ ReturningNet
  BY ReturnFacts
<1>2. Command = <<"check", "idle-restored">>
  BY <1>1, AtFallback
<1>3. ValidIdle(net)
  BY <1>2 DEF Passes
<1>4. BackToSwitch'
  BY <1>1, <1>3 DEF BackToSwitch, ValidIdle, NothingOwned
<1>5. Untouched'
  BY <1>1 DEF ReturningNet, Untouched, SameAside
<1>6. SwitchSettled("switch1", 5)' /\ SwitchSettled("switch2", 1)'
  BY DEF SwitchSettled
<1> QED
  BY <1>4, <1>5, <1>6 DEF ReturningNet

\* What the commands that bring a switch port up make of it, one behind the other.
LEMMA UpSteps ==
    ASSUME NEW c, NEW d
    PROVE  /\ c[1] = "switch-up" => Taken(c, d, ActivePort) = Upped
           /\ c[1] = "switch-metric" /\ d = Upped
                 => Taken(c, d, ActivePort) = [Upped EXCEPT !.route = "own"]
           /\ c[1] = "switch-mtu" /\ d = [Upped EXCEPT !.route = "own"]
                 => Taken(c, d, ActivePort) = [Upped EXCEPT !.route = "own", !.mtu = "base"]
           /\ c[1] = "switch-arp" /\ d = [Upped EXCEPT !.route = "own", !.mtu = "base"]
                 => Taken(c, d, ActivePort) = ActivePort
<1>1. ActivePort.mtu = "base" /\ ActivePort.arp = {}
  BY PortFields
<1>2. [[Upped EXCEPT !.route = "own", !.mtu = "base"] EXCEPT !.arp = {}] = ActivePort
  <2>1. ASSUME NEW x \in Port, NEW y \in Port, x.uuid = y.uuid, x.addr = y.addr, x.up = y.up,
               x.mtu = y.mtu, x.arp = y.arp, x.route = y.route
        PROVE  x = y
    BY <2>1 DEF Port
  <2> DEFINE x == [[Upped EXCEPT !.route = "own", !.mtu = "base"] EXCEPT !.arp = {}]
  <2>2. /\ x \in Port /\ x.uuid = "own" /\ x.addr = TRUE /\ x.up = TRUE
        /\ x.mtu = "base" /\ x.arp = {} /\ x.route = "own"
    BY DEF Upped, Port
  <2>3. ActivePort \in Port
    BY DEF ActivePort, IdlePort, Port
  <2> HIDE DEF x
  <2>4. x = ActivePort
    BY <2>1, <2>2, <2>3, PortFields
  <2> QED
    BY <2>4 DEF x
<1>3. [[Upped EXCEPT !.route = "own"] EXCEPT !.mtu = "base"] = [Upped EXCEPT !.route = "own", !.mtu = "base"]
  BY DEF Upped
<1>4. c[1] = "switch-up" => Taken(c, d, ActivePort) = Upped
  BY DEF Taken
<1>5. c[1] = "switch-metric" /\ d = Upped
        => Taken(c, d, ActivePort) = [Upped EXCEPT !.route = "own"]
  BY DEF Taken
<1>6. c[1] = "switch-mtu" => Taken(c, d, ActivePort) = [d EXCEPT !.mtu = "base"]
  BY <1>1 DEF Taken
<1>7. c[1] = "switch-arp" => Taken(c, d, ActivePort) = [d EXCEPT !.arp = {}]
  BY <1>1 DEF Taken
<1> QED
  BY <1>2, <1>3, <1>4, <1>5, <1>6, <1>7

\* A command behind it takes.
LEMMA SwitchTakes ==
    ASSUME QuietStep, ~IsPredeclared, Busy, ~IsCheck, handler.op = "restore", ReturningHeld,
           Left \in 2..10, Takes(Command), Left' = Left - 1
    PROVE  ReturningNet'
<1>1. /\ NetTypes /\ Running(Fallback, 19) /\ net.ports \in [Ports -> Port] /\ ReturningNet
      /\ original' = original /\ original.fabric = "exited"
      /\ original.ports["switch1"] = ActivePort /\ original.ports["switch2"] = ActivePort
      /\ net.rules \in [Rules -> 0..1] /\ net'.rules \in [Rules -> 0..1]
  BY ReturnFacts DEF Snapshot, Takes
<1>2. /\ Left = 10 => Command = <<"fabric-start", Host>>
      /\ Left = 9 => Command = <<"switch-up", "switch1">>
      /\ Left = 8 => Command = <<"switch-metric", "switch1">>
      /\ Left = 7 => Command = <<"switch-mtu", "switch1">>
      /\ Left = 6 => Command = <<"switch-arp", "switch1">>
      /\ Left = 5 => Command = <<"switch-up", "switch2">>
      /\ Left = 4 => Command = <<"switch-metric", "switch2">>
      /\ Left = 3 => Command = <<"switch-mtu", "switch2">>
      /\ Left = 2 => Command = <<"switch-arp", "switch2">>
  BY <1>1, AtFallback
<1>3. /\ "switch1" \in Ports /\ "switch2" \in Ports /\ DirectPorts \subseteq Ports
      /\ "switch1" \notin DirectPorts /\ "switch2" \notin DirectPorts
  BY PortNames DEF DirectPorts
<1>4. /\ Command[1] \notin {"fabric-stop", "firewall-insert", "firewall-remove", "direct-delete"}
      /\ Command[1] = "fabric-start" <=> Left = 10
      /\ Left \in 6..9 => Command[1] \in PortCommands /\ Command[2] = "switch1"
      /\ Left \in 2..5 => Command[1] \in PortCommands /\ Command[2] = "switch2"
      /\ Command[2] \notin DirectPorts
  BY <1>2 DEF PortCommands, DirectPorts, Host
<1>5. /\ SameAside(net', net) /\ net'.profile = net.profile
      /\ net'.fabric = IF Left = 10 THEN "exited" ELSE net.fabric
  BY <1>4 DEF Takes
<1>6. net'.rules = net.rules
  <2>1. \A r \in Rules : net'.rules[r] = net.rules[r]
    BY <1>4 DEF Takes
  <2> QED
    BY <1>1, <2>1
<1>7. \A p \in DirectPorts : net'.ports[p] = net.ports[p]
  <2>1. \A p \in DirectPorts : p \in Ports /\ Command[2] # p
    BY <1>3, <1>4
  <2> QED
    BY <1>4, <2>1 DEF Takes
<1>8. Untouched' /\ BackToSwitch'
  BY <1>1, <1>5, <1>6, <1>7 DEF ReturningNet, Untouched, BackToSwitch, SameAside
<1>9. net'.fabric = original'.fabric
  BY <1>1, <1>5 DEF ReturningNet
<1>10. Left \in 6..9 => /\ net'.ports["switch1"] = Taken(Command, net.ports["switch1"], ActivePort)
                        /\ net'.ports["switch2"] = net.ports["switch2"]
  BY <1>1, <1>3, <1>4 DEF Takes
<1>11. Left \in 2..5 => /\ net'.ports["switch2"] = Taken(Command, net.ports["switch2"], ActivePort)
                        /\ net'.ports["switch1"] = net.ports["switch1"]
  BY <1>1, <1>3, <1>4 DEF Takes
<1>13. SwitchSettled("switch1", 5)'
  <2>1. SwitchSettled("switch1", 5)
    BY <1>1 DEF ReturningNet
  <2>2. CASE Left = 10
    BY <2>2 DEF SwitchSettled
  <2>3. CASE Left \in 6..9
    <3>1. Left = 9 => net'.ports["switch1"] = Upped
      BY <1>2, <1>10, UpSteps
    <3>2. Left = 8 => net'.ports["switch1"] = [Upped EXCEPT !.route = "own"]
      <4>1. Left = 8 => net.ports["switch1"] = Upped
        BY <2>1 DEF SwitchSettled
      <4> QED
        BY <1>2, <1>10, <4>1, UpSteps
    <3>3. Left = 7 => net'.ports["switch1"] = [Upped EXCEPT !.route = "own", !.mtu = "base"]
      <4>1. Left = 7 => net.ports["switch1"] = [Upped EXCEPT !.route = "own"]
        BY <2>1 DEF SwitchSettled
      <4> QED
        BY <1>2, <1>10, <4>1, UpSteps
    <3>4. Left = 6 => net'.ports["switch1"] = ActivePort
      <4>1. Left = 6 => net.ports["switch1"] = [Upped EXCEPT !.route = "own", !.mtu = "base"]
        BY <2>1 DEF SwitchSettled
      <4> QED
        BY <1>2, <1>10, <4>1, UpSteps
    <3> QED
      BY <2>3, <3>1, <3>2, <3>3, <3>4 DEF SwitchSettled
  <2>4. CASE Left \in 2..5
    BY <1>11, <2>1, <2>4 DEF SwitchSettled
  <2> QED
    BY <2>2, <2>3, <2>4
<1>14. SwitchSettled("switch2", 1)'
  <2>1. SwitchSettled("switch2", 1)
    BY <1>1 DEF ReturningNet
  <2>2. CASE Left \in 6..10
    BY <2>2 DEF SwitchSettled
  <2>3. CASE Left \in 2..5
    <3>1. Left = 5 => net'.ports["switch2"] = Upped
      BY <1>2, <1>11, UpSteps
    <3>2. Left = 4 => net'.ports["switch2"] = [Upped EXCEPT !.route = "own"]
      <4>1. Left = 4 => net.ports["switch2"] = Upped
        BY <2>1 DEF SwitchSettled
      <4> QED
        BY <1>2, <1>11, <4>1, UpSteps
    <3>3. Left = 3 => net'.ports["switch2"] = [Upped EXCEPT !.route = "own", !.mtu = "base"]
      <4>1. Left = 3 => net.ports["switch2"] = [Upped EXCEPT !.route = "own"]
        BY <2>1 DEF SwitchSettled
      <4> QED
        BY <1>2, <1>11, <4>1, UpSteps
    <3>4. Left = 2 => net'.ports["switch2"] = ActivePort
      <4>1. Left = 2 => net.ports["switch2"] = [Upped EXCEPT !.route = "own", !.mtu = "base"]
        BY <2>1 DEF SwitchSettled
      <4> QED
        BY <1>2, <1>11, <4>1, UpSteps
    <3> QED
      BY <2>3, <3>1, <3>2, <3>3, <3>4 DEF SwitchSettled
  <2> QED
    BY <2>2, <2>3
<1>15. Left' \in 1..9
  OBVIOUS
<1> QED
  BY <1>8, <1>9, <1>13, <1>14, <1>15 DEF ReturningNet

\* A restore takes back a half entry.
LEMMA RestoreFromEntry ==
    ASSUME QuietStep, ~IsPredeclared, EntryBegan, ~Entered, EnteringHeld, Restore
    PROVE  ReturningHeld' /\ HasPhase("restore-started")'
<1>1. Start("restore", RestoreSwitch, {Phase("restore-started")})
  BY DEF Restore, RestoreUnentered, RestorePartial, RestoreEntered
<1>2. /\ handler'.todo = RestoreSwitch /\ net' = net
      /\ files' = files \cup {Phase("restore-started")} /\ original' = original
  BY <1>1, StartStep, StepFrame DEF QuietStep
<1>3. Left' = 10 /\ DOMAIN handler'.todo = 1..10
  BY <1>2, Programs DEF Left, IsProgram
<1>4. \A j \in 1..10 : handler'.todo[j] = Fallback[19 - 10 + j]
  BY <1>2, SwitchOrders
<1>5. Running(Fallback, 19)'
  BY <1>3, <1>4 DEF Running
<1>6. NotYetIntended'
  <2>1. \A l : Has(Intent(l))' <=> Has(Intent(l))
    BY <1>2 DEF Has, Intent, Phase
  <2>2. \A j \in 1..10 : handler'.todo[j] \in RestoreLabels
    BY <1>4 DEF RestoreLabels
  <2> QED
    BY <1>3, <2>1, <2>2 DEF NotYetIntended, EnteringHeld, NoneIntended
<1>7. BackToSwitch' /\ Untouched'
  BY <1>2 DEF EnteringHeld, EnteringNet, BackToSwitch, Untouched, SameAside
<1>8. ReturningNet'
  BY <1>3, <1>7 DEF ReturningNet, SwitchSettled
<1>9. HasPhase("restore-started")'
  BY <1>2 DEF HasPhase, Has
<1> QED
  BY <1>5, <1>6, <1>8, <1>9 DEF ReturningHeld

\* A restore takes back a node that was idle.
LEMMA RestoreFromInside ==
    ASSUME QuietStep, ~IsPredeclared, Entered, InsideHeld, Restore
    PROVE  ReturningHeld' /\ HasPhase("restore-started")'
<1>1. Start("restore", Fallback, {Phase("restore-started")})
  BY DEF Restore, RestoreUnentered, RestorePartial, RestoreEntered, AcceptsUnentered, Entered,
         HasPhase, Has
<1>2. /\ handler'.todo = Fallback /\ net' = net /\ script' = script
      /\ files' = files \cup {Phase("restore-started")} /\ original' = original
  BY <1>1, StartStep, StepFrame DEF QuietStep
<1>3. Left' = 19 /\ DOMAIN handler'.todo = 1..19
  BY <1>2, Programs DEF Left, IsProgram
<1>5. Running(Fallback, 19)'
  BY <1>2, <1>3 DEF Running
<1>6. NotYetIntended'
  <2>1. \A l : Has(Intent(l))' <=> Has(Intent(l))
    BY <1>2 DEF Has, Intent, Phase
  <2>2. \A j \in 1..19 : handler'.todo[j] \in RestoreLabels
    BY <1>2 DEF RestoreLabels
  <2> QED
    BY <1>3, <2>1, <2>2 DEF NotYetIntended, InsideHeld, NoneIntended
<1>7. Untouched' /\ SwitchIdle(net)' /\ DirectShape(net)'
  BY <1>2 DEF InsideHeld, InsideNet, Untouched, SameAside, SwitchIdle, DirectShape
<1>8. (net.ports["direct"].uuid = "own" => net.profile)'
  BY <1>2 DEF InsideHeld, ProfileHeld
<1>9. DirectSettled'
  BY <1>3, <1>7, <1>8 DEF DirectSettled
<1>10. ReturningNet'
  BY <1>3, <1>7, <1>9 DEF ReturningNet, SwitchSettled
<1>11. HasPhase("restore-started")'
  BY <1>2 DEF HasPhase, Has
<1> QED
  BY <1>5, <1>6, <1>10, <1>11 DEF ReturningHeld

\* A step that changes the network in nothing but the hooks.
LEMMA ReturningNetSame ==
    ASSUME ReturningNet, Left' = Left, original' = original, SameAside(net', net),
           net'.fabric = net.fabric, net'.ports = net.ports, net'.profile = net.profile,
           net'.rules = net.rules
    PROVE  ReturningNet'
<1>1. SwitchIdle(net) => SwitchIdle(net)'
  BY DEF SwitchIdle, SameAside
<1>2. DirectShape(net) => DirectShape(net)'
  BY DEF DirectShape
<1>3. DirectSettled => DirectSettled'
  BY <1>1, <1>2 DEF DirectSettled
<1>4. BackToSwitch => BackToSwitch'
  BY DEF BackToSwitch
<1>5. \A p, n : SwitchSettled(p, n) => SwitchSettled(p, n)'
  BY DEF SwitchSettled
<1>6. Untouched => Untouched'
  BY DEF Untouched, SameAside
<1> QED
  BY <1>3, <1>4, <1>5, <1>6 DEF ReturningNet

\* Sending a command of the restore keeps its story.
LEMMA ReturnDispatch ==
    ASSUME QuietStep, ~IsPredeclared, handler.op = "restore", ReturningHeld, Dispatch
    PROVE  ReturningHeld'
<1>1. /\ Stays /\ handler'.sent /\ Busy /\ files' = files \cup {Intent(Command)} /\ net' = net
  BY DispatchStep DEF QuietStep
<1>2. /\ NetTypes /\ original' = original /\ Running(Fallback, 19) /\ NotYetIntended
      /\ ReturningNet /\ Left \in 1..19
  BY <1>1, ReturnFacts
<1>3. Left' = Left /\ Running(Fallback, 19)'
  BY <1>1, <1>2, RunsStill
<1>4. ReturningNet'
  BY <1>1, <1>2, <1>3, ReturningNetSame DEF SameAside
<1>5. NotYetIntended'
  <2> SUFFICES ASSUME NEW j \in DOMAIN handler.todo, Has(Intent(handler.todo[j]))'
               PROVE  j = 1
    BY <1>1 DEF NotYetIntended, Stays
  <2>1. j \in 1..Left /\ Command = handler.todo[1] /\ 1 \in 1..Left
    BY <1>1, <1>2, Position
  <2>2. handler.todo[j] = Fallback[19 - Left + j] /\ handler.todo[1] = Fallback[19 - Left + 1]
    BY <1>2, <2>1 DEF Running
  <2>3. CASE Has(Intent(handler.todo[j]))
    BY <1>2, <2>3 DEF NotYetIntended
  <2>4. CASE handler.todo[j] = handler.todo[1]
    <3>1. 19 - Left + j \in 1..19 /\ 19 - Left + 1 \in 1..19
      BY <1>2, <2>1
    <3>2. 19 - Left + j = 19 - Left + 1
      BY <2>2, <2>4, <3>1, FallbackDistinct
    <3> QED
      BY <1>2, <2>1, <3>2
  <2>5. Has(Intent(handler.todo[j])) \/ handler.todo[j] = handler.todo[1]
    BY <1>1, <2>1 DEF Has, Intent, Stays
  <2> QED
    BY <2>3, <2>4, <2>5
<1> QED
  BY <1>3, <1>4, <1>5 DEF ReturningHeld

\* The restore goes on behind an order.
LEMMA ReturnProceeds ==
    ASSUME QuietStep, ~IsPredeclared, handler.op = "restore", ReturningHeld, Busy,
           Proceeds, handler' \in Calls,
           \A l : Has(Intent(l))' <=> Has(Intent(l)),
           Left' = Left - 1 /\ Left > 1 => ReturningNet'
    PROVE  handler'.op = "restore" => ReturningHeld'
<1> SUFFICES ASSUME handler' # Nobody
             PROVE  ReturningHeld'
  BY DEF Nobody
<1>1. /\ Left' = Left - 1 /\ Left > 1
      /\ \A j \in DOMAIN handler'.todo :
            j \in Nat /\ j >= 1 /\ j + 1 \in DOMAIN handler.todo /\ handler'.todo[j] = handler.todo[j + 1]
  BY DEF Proceeds
<1>2. NetTypes /\ Running(Fallback, 19) /\ NotYetIntended
  BY ReturnFacts
<1>3. Running(Fallback, 19)'
  BY <1>2, RunsOn
<1>4. \A j \in DOMAIN handler'.todo : Intent(handler'.todo[j]) \notin files'
  <2> SUFFICES ASSUME NEW j \in DOMAIN handler'.todo, Intent(handler'.todo[j]) \in files'
               PROVE  FALSE
    OBVIOUS
  <2>1. j \in Nat /\ j >= 1 /\ j + 1 \in DOMAIN handler.todo /\ handler'.todo[j] = handler.todo[j + 1]
    BY <1>1
  <2>2. Has(Intent(handler.todo[j + 1]))
    BY <2>1 DEF Has, Intent
  <2>3. j + 1 = 1
    BY <1>2, <2>1, <2>2 DEF NotYetIntended
  <2> QED
    BY <2>1, <2>3
<1>5. NotYetIntended'
  BY <1>4 DEF NotYetIntended, Has, Intent
<1> QED
  BY <1>1, <1>3, <1>5 DEF ReturningHeld

\* A restore order passed over leaves the story true, unless it was the last.
LEMMA ReturnSkip ==
    ASSUME QuietStep, ~IsPredeclared, handler.op = "restore", ReturningHeld, Skip
    PROVE  handler'.op = "restore" => ReturningHeld'
<1>1. Busy /\ Proceeds /\ handler' \in Calls /\ files' = files
  BY SkipStep DEF QuietStep
<1>2. \A l : Has(Intent(l))' <=> Has(Intent(l))
  BY <1>1, FilesSame
<1>3. Left' = Left - 1 => ReturningNet'
  BY ReturnSkips
<1> QED
  BY <1>1, <1>2, <1>3, ReturnProceeds

\* A restore order that completes leaves the story true, unless it was the last.
LEMMA ReturnComplete ==
    ASSUME QuietStep, ~IsPredeclared, handler.op = "restore", ReturningHeld, Complete
    PROVE  handler'.op = "restore" => ReturningHeld'
<1>1. Busy /\ ~IsCheck /\ Takes(Command) /\ Proceeds /\ handler' \in Calls
      /\ files' = files \cup {Done(Command)}
  BY CompleteStep DEF QuietStep
<1>2. \A l : Has(Intent(l))' <=> Has(Intent(l))
  BY <1>1 DEF Has, Intent, Done
<1>3. NetTypes /\ Running(Fallback, 19)
  BY <1>1, ReturnFacts
<1>4. Left \in 2..10 \/ Left \in 12..19
  BY <1>1, <1>3, AtFallback DEF IsCheck
<1>5. Left' = Left - 1 => ReturningNet'
  BY <1>1, <1>4, DirectTakes, SwitchTakes
<1> QED
  BY <1>1, <1>2, <1>5, ReturnProceeds

\* A check of the restore leaves the story true, unless it was the last.
LEMMA ReturnCheck ==
    ASSUME QuietStep, ~IsPredeclared, handler.op = "restore", ReturningHeld, Check
    PROVE  handler'.op = "restore" => ReturningHeld'
<1>1. Busy /\ IsCheck /\ Passes(Command[2], net) /\ Proceeds /\ handler' \in Calls
      /\ files' = files \cup {Phase(Command[2])} /\ net' = net
  BY CheckStep DEF QuietStep
<1>2. \A l : Has(Intent(l))' <=> Has(Intent(l))
  BY <1>1 DEF Has, Intent, Phase
<1>3. NetTypes /\ Running(Fallback, 19)
  BY <1>1, ReturnFacts
<1>4. Left = 1 \/ Left = 11
  BY <1>1, <1>3, AtFallback DEF IsCheck
<1>5. Left' = Left - 1 /\ Left > 1 => ReturningNet'
  BY <1>1, <1>4, IdleChecked
<1> QED
  BY <1>1, <1>2, <1>5, ReturnProceeds

\* Closing and settling do not disturb the story of the restore.
LEMMA ReturnOutside ==
    ASSUME QuietStep, ~IsPredeclared, handler.op = "restore", ReturningHeld, Busy,
           Close \/ Settle \/ UNCHANGED vars
    PROVE  ReturningHeld'
<1>1. Outside /\ (net' = net \/ net' = [net EXCEPT !.dispatcher = FALSE])
  BY AroundStep DEF QuietStep
<1>2. /\ NetTypes /\ original' = original /\ Running(Fallback, 19) /\ NotYetIntended
      /\ ReturningNet /\ net \in Snapshot
  BY ReturnFacts
<1>3. /\ Left' = Left /\ Running(Fallback, 19)' /\ handler' = handler
      /\ \A f : Has(f)' <=> Has(f)
  BY <1>1, <1>2, OutsideSame DEF Outside
<1>4. /\ SameAside(net', net) /\ net'.fabric = net.fabric /\ net'.ports = net.ports
      /\ net'.profile = net.profile /\ net'.rules = net.rules
  BY <1>1, <1>2 DEF Snapshot, SameAside
<1>5. ReturningNet'
  BY <1>2, <1>3, <1>4, ReturningNetSame
<1>6. NotYetIntended'
  BY <1>2, <1>3 DEF NotYetIntended
<1> QED
  BY <1>3, <1>5, <1>6 DEF ReturningHeld

\* What is left of the script's shells takes back what a restore takes back, or is too late.
LEMMA ReturnScript ==
    ASSUME QuietStep, ~IsPredeclared, handler.op = "restore", ReturningHeld, Busy,
           HasPhase("restore-started"), Script
    PROVE  ReturningHeld'
<1> DEFINE d == net.ports["direct"]    s == net.ports["sibling"]
           e == net'.ports["direct"]   f == net'.ports["sibling"]
<1>1. /\ NetTypes /\ original' = original /\ Running(Fallback, 19) /\ NotYetIntended
      /\ ReturningNet /\ Left \in 1..19 /\ d \in Port /\ s \in Port /\ net.profile \in BOOLEAN
      /\ original.ports["direct"] = IdlePort /\ original.ports["sibling"] = IdlePort
      /\ original.profile = FALSE
  BY ReturnFacts, PortNames
<1>2. /\ Outside
      /\ net' = net \/ \E l \in ShellCommands : ShellCarries(l)
  BY <1>1, ScriptShape DEF ScriptFrame, QuietStep, Outside
<1>3. /\ Left' = Left /\ Running(Fallback, 19)' /\ handler' = handler
      /\ \A g : Has(g)' <=> Has(g)
  BY <1>1, <1>2, OutsideSame DEF Outside
<1>4. NotYetIntended'
  BY <1>1, <1>3 DEF NotYetIntended
<1>5. CASE net' = net
  <2>1. ReturningNet'
    BY <1>1, <1>3, <1>5, ReturningNetSame DEF SameAside
  <2> QED
    BY <1>3, <1>4, <2>1 DEF ReturningHeld
<1>6. CASE net' # net
  <2>1. PICK l \in ShellCommands : ShellCarries(l)
    BY <1>2, <1>6
  <2>2. l[1] \in {"bare", "down", "delete", "mtu"}
    <3>1. l[1] \notin {"guard", "add", "up"}
      BY <1>6, <2>1 DEF ShellCarries, TooLate, QuietStep
    <3>2. l[1] \in {"guard", "bare", "add", "up", "down", "delete", "mtu"}
      BY DEF ShellCommands
    <3> QED
      BY <3>1, <3>2
  <2>3. /\ LeavesSwitch(net', net)
        /\ net'.profile = IF l[1] = "delete" THEN FALSE ELSE net.profile
        /\ e = ShellTaken(l, "direct", d, IdlePort) /\ f = ShellTaken(l, "sibling", s, IdlePort)
        /\ \A p \in DirectPorts : net'.ports[p] = ShellTaken(l, p, net.ports[p], IdlePort)
    <3>1. ShellTakes(l) /\ "direct" \in DirectPorts /\ "sibling" \in DirectPorts
          /\ \A p \in DirectPorts : p \in {"direct", "sibling"}
      BY <2>1 DEF ShellCarries, DirectPorts
    <3> QED
      BY <1>1, <2>2, <3>1 DEF ShellTakes
  <2>4. SameSwitch(net', net) /\ net'.rules = net.rules
    BY <2>3, PortNames DEF LeavesSwitch, SameSwitch
  <2>5. /\ DirectOk(d, IdlePort) => DirectOk(e, IdlePort)
        /\ SiblingOk(s, IdlePort) => SiblingOk(f, IdlePort)
        /\ e.uuid = "own" => d.uuid = "own" /\ l[1] # "delete"
        /\ d.uuid = "none" => e.uuid = "none"
        /\ d.mtu = "base" => e.mtu = "base"
        /\ d.arp = {} => e.arp = {}
        /\ s.arp = {} => f.arp = {}
        /\ d = IdlePort => e = IdlePort
        /\ s = IdlePort => f = IdlePort
    BY <1>1, <2>2, <2>3, ShellOk DEF DirectPorts
  <2>6. IdlePort.mtu = "base" /\ IdlePort.arp = {}
    BY PortFields
  <2>7. Untouched' /\ (SwitchIdle(net) => SwitchIdle(net)')
    BY <1>1, <2>4, SwitchIdleSame DEF ReturningNet, Untouched, SameSwitch, SameAside
  <2>8. Left >= 11 => DirectSettled'
    <3> SUFFICES ASSUME Left >= 11 PROVE DirectSettled'
      OBVIOUS
    <3>1. Left \in 11..19 /\ DirectSettled
      BY <1>1 DEF ReturningNet
    <3>2. DirectOk(e, IdlePort) /\ SiblingOk(f, IdlePort)
      BY <1>1, <2>5, <3>1, DirectNow
    <3>3. DirectShape(net)'
      BY <1>1, <3>2 DEF DirectShape, DirectOk, SiblingOk
    <3> HIDE DEF d, e, s, f
    <3>4. /\ e.uuid = "own" => net'.profile
          /\ Left <= 18 => net'.rules[1] = 0
          /\ Left <= 17 => net'.rules[2] = 0
          /\ Left <= 16 => e.uuid = "none"
          /\ Left <= 15 => ~net'.profile
          /\ Left <= 14 => e.mtu = "base"
          /\ Left <= 12 => e.arp = {}
          /\ Left <= 11 => f.arp = {}
      BY <1>1, <2>3, <2>4, <2>5, <2>6, <3>1 DEF DirectSettled, d, s
    <3> QED
      BY <1>1, <1>3, <2>6, <2>7, <3>1, <3>3, <3>4 DEF DirectSettled, e, f
  <2>9. Left <= 10 => BackToSwitch'
    <3> SUFFICES ASSUME Left <= 10 PROVE BackToSwitch'
      OBVIOUS
    <3>1. BackToSwitch /\ d = IdlePort /\ s = IdlePort
      BY <1>1 DEF ReturningNet, BackToSwitch, DirectPorts
    <3> QED
      BY <1>1, <2>3, <2>4, <2>5, <3>1 DEF BackToSwitch, DirectPorts
  <2>10. \A n : /\ SwitchSettled("switch1", n) => SwitchSettled("switch1", n)'
                /\ SwitchSettled("switch2", n) => SwitchSettled("switch2", n)'
    BY <1>3, <2>4 DEF SwitchSettled, SameSwitch
  <2>11. ReturningNet'
    BY <1>1, <1>3, <2>4, <2>7, <2>8, <2>9, <2>10 DEF ReturningNet, SameSwitch
  <2> QED
    BY <1>3, <1>4, <2>11 DEF ReturningHeld
<1> QED
  BY <1>5, <1>6

-----------------------------------------------------------------------------
(* The transient lifecycle, one step.                                       *)

\* The files a step writes, and the operation it leaves under way.
LEMMA Opened ==
    ASSUME QuietStep
    PROVE  /\ files \subseteq files'
           /\ handler'.op = "restore" => handler.op = "restore" \/ Restore
           /\ EntryBegan' => EntryBegan \/ Enter
           /\ Entered' => Entered \/ Enter \/ (Check /\ Command[2] = "idle")
           /\ HasPhase("restore-started")' => HasPhase("restore-started") \/ Restore
<1>1. NetInv /\ [Next]_vars /\ ~Drift
  BY NoDrift DEF QuietStep
<1>2. CASE Enter
  <2>1. PICK op \in {"none", "enter"}, todo \in {Entry, <<>>},
              written \in {{Phase("transition-started")}, {Phase("idle")}} :
           Start(op, todo, written)
    BY <1>2 DEF Enter
  <2>2. handler'.op = op /\ files' = files \cup written
    BY <2>1, StartStep
  <2> QED
    BY <1>2, <2>1, <2>2 DEF HasPhase, Has, Phase
<1>3. CASE DirectReady \/ InstallFirewall
  <2>1. PICK op \in {"none", "install"}, todo \in {<<>>, Install}, written \in {{}, {Phase("direct-ready")}} :
           Start(op, todo, written)
    BY <1>3 DEF DirectReady, InstallFirewall
  <2>2. handler'.op = op /\ files' = files \cup written
    BY <2>1, StartStep
  <2> QED
    BY <2>1, <2>2 DEF HasPhase, Has, Phase, Entered, EntryBegan
<1>4. CASE Restore
  <2>1. PICK op \in {"none", "restore"}, todo \in {<<>>, RestoreSwitch, PredeclaredRestore, Fallback},
              written \in {{Phase("unchanged")}, {Phase("restore-started")}} :
           Start(op, todo, written)
    BY <1>4 DEF Restore, RestoreUnentered, RestorePartial, RestoreEntered
  <2>2. files' = files \cup written
    BY <2>1, StartStep
  <2> QED
    BY <1>4, <2>1, <2>2 DEF HasPhase, Has, Phase, Entered, EntryBegan
<1>5. CASE Dispatch
  <2>1. files' = files \cup {Intent(Command)} /\ handler'.op = handler.op
    BY <1>1, <1>5, DispatchStep DEF Stays
  <2> QED
    BY <2>1 DEF HasPhase, Has, Phase, Intent, Entered, EntryBegan
<1>6. CASE Complete
  <2>1. files' = files \cup {Done(Command)} /\ handler'.op \in {"none", handler.op}
    BY <1>1, <1>6, CompleteStep DEF Proceeds
  <2> QED
    BY <2>1 DEF HasPhase, Has, Phase, Done, Entered, EntryBegan
<1>7. CASE Skip \/ Refuse \/ Die
  <2>1. files' = files /\ handler'.op \in {"none", handler.op}
    BY <1>1, <1>7, SkipStep, RefuseStep, DieStep DEF Proceeds
  <2> QED
    BY <2>1 DEF HasPhase, Has, Phase, Entered, EntryBegan
<1>8. CASE Check
  <2>1. /\ files' = files \cup {Phase(Command[2])} /\ handler'.op \in {"none", handler.op}
        /\ Command \in Checks
    BY <1>1, <1>8, CheckStep DEF Proceeds
  <2>2. Command[2] \notin {"transition-started", "restore-started"}
    BY <2>1 DEF Checks
  <2> QED
    BY <1>8, <2>1, <2>2 DEF HasPhase, Has, Phase, Entered, EntryBegan
<1>9. CASE Script
  <2>1. files' = files /\ handler' = handler
    BY <1>9, ScriptFrames DEF ScriptFrame
  <2> QED
    BY <2>1 DEF HasPhase, Has, Entered, EntryBegan
<1>10. CASE Close \/ Settle \/ UNCHANGED vars
  <2>1. files' = files /\ handler' = handler
    BY <1>1, <1>10, AroundStep DEF Outside
  <2> QED
    BY <2>1 DEF HasPhase, Has, Entered, EntryBegan
<1> QED
  BY <1>1, <1>2, <1>3, <1>4, <1>5, <1>6, <1>7, <1>8, <1>9, <1>10 DEF Next

\* A node whose entry has not begun.
LEMMA FreshStep ==
    ASSUME QuietStep, ~IsPredeclared, ~EntryBegan, FreshHeld, handler.op # "restore"
    PROVE  TransientHeld'
<1>1. /\ NetInv /\ NetTypes /\ [Next]_vars /\ ~Drift /\ original' = original
      /\ original \in Baselines /\ ValidOriginal(original)
      /\ IsPredeclared' <=> IsPredeclared
  BY StepFrame, NoDrift DEF QuietStep, NetInv, HandlerInv, NetTypes
<1>2. ~Busy /\ ~Entered /\ ~HasPhase("direct-ready") /\ ~HasPhase("restore-started")
  BY DEF FreshHeld, Entered, HasPhase, Has, Phase
<1>3. ~net.dispatcher
  BY <1>1, OriginalFacts DEF FreshHeld
<1>4. CASE Enter
  <2>1. EnteringHeld'
    BY <1>4, EntryBegins
  <2>2. Start("enter", Entry, {Phase("transition-started")})
    BY <1>4 DEF Enter
  <2>3. handler'.op = "enter" /\ files' = files \cup {Phase("transition-started")}
    BY <2>2, StartStep
  <2>4. EntryBegan' /\ ~Entered'
    BY <1>2, <2>3 DEF EntryBegan, Entered, HasPhase, Has, Phase
  <2> QED
    BY <2>1, <2>3, <2>4 DEF TransientHeld
<1>5. CASE Restore
  <2>1. Start("none", <<>>, {Phase("unchanged")})
    BY <1>2, <1>5 DEF Restore, RestoreUnentered, RestorePartial, RestoreEntered
  <2>2. /\ files' = files \cup {Phase("unchanged")} /\ net' = net /\ script' = script
        /\ handler' = Nobody /\ handler'.op = "none"
    BY <2>1, StartStep DEF Nobody
  <2>3. FreshHeld'
    BY <1>1, <2>2 DEF FreshHeld, Busy
  <2>4. ~Entered' /\ ~EntryBegan'
    BY <1>2, <2>2 DEF EntryBegan, Entered, HasPhase, Has, Phase
  <2> QED
    BY <2>2, <2>3, <2>4 DEF TransientHeld
<1>6. CASE Close \/ Settle \/ UNCHANGED vars
  <2>1. Outside /\ script' = script /\ net' = net
    BY <1>1, <1>3, <1>6, AroundStep
  <2>2. FreshHeld'
    BY <1>1, <2>1 DEF FreshHeld, Busy, Outside
  <2>3. ~Entered' /\ ~EntryBegan'
    BY <1>2, <2>1, OutsideSame
  <2>4. handler'.op # "restore"
    BY <2>1 DEF Outside
  <2> QED
    BY <2>2, <2>3, <2>4 DEF TransientHeld
<1>7. ~(DirectReady \/ InstallFirewall)
  BY <1>2 DEF DirectReady, InstallFirewall, Entered
<1>8. ~(Dispatch \/ Skip \/ Complete \/ Check \/ Refuse \/ Die)
  BY <1>2 DEF Dispatch, Skip, Complete, Check, Refuse, Die
<1>9. ~Script
  BY <1>1, <1>2, ScriptShape DEF QuietStep
<1> QED
  BY <1>1, <1>4, <1>5, <1>6, <1>7, <1>8, <1>9 DEF Next

\* A node whose entry is under way, or was given up.
LEMMA EnteringStep ==
    ASSUME QuietStep, ~IsPredeclared, EntryBegan, ~Entered, ~HasPhase("restore-started"),
           EnteringHeld
    PROVE  TransientHeld'
<1>1. /\ NetInv /\ NetTypes /\ [Next]_vars /\ ~Drift
  BY NoDrift DEF QuietStep, NetInv, HandlerInv
<1>2. EntryBegan'
  BY Opened DEF EntryBegan, HasPhase, Has
<1>3. ~(Enter \/ DirectReady \/ InstallFirewall)
  BY DEF Enter, DirectReady, InstallFirewall, EnteringHeld, EntryFiles, EntryBegan, Entered
<1>4. ~Script
  BY <1>1, ScriptShape DEF QuietStep
<1>5. handler.op # "restore"
  BY DEF EnteringHeld, EntryRuns, Busy, Nobody
<1>6. CASE Restore
  BY <1>2, <1>6, RestoreFromEntry DEF TransientHeld
<1>7. CASE Check
  <2>1. InsideHeld' /\ Command = <<"check", "idle">>
    BY <1>7, EntryChecked
  <2>2. files' = files \cup {Phase("idle")}
    BY <1>1, <1>7, <2>1, CheckStep
  <2>3. Entered' /\ handler'.op # "restore"
    BY <1>1, <1>5, <1>7, <2>2, CheckStep DEF Entered, HasPhase, Has, Proceeds
  <2> QED
    BY <1>2, <2>1, <2>3 DEF TransientHeld
<1>8. CASE Dispatch \/ Skip \/ Complete \/ Refuse \/ Die \/ Close \/ Settle \/ UNCHANGED vars
  <2>1. EnteringHeld'
    BY <1>8, EntryDispatch, EntrySkip, EntryComplete, EntryEnds, EntryOutside
  <2>2. handler'.op # "restore"
    BY <2>1 DEF EnteringHeld, EntryRuns, Busy, Nobody
  <2>3. Entered' => InsideHeld'
    BY <1>3, Opened, EntryChecked
  <2> QED
    BY <1>2, <2>1, <2>2, <2>3 DEF TransientHeld
<1> QED
  BY <1>1, <1>3, <1>4, <1>6, <1>7, <1>8 DEF Next

\* A node that is idle, with the direct model script and the rules.
LEMMA InsideStep ==
    ASSUME QuietStep, ~IsPredeclared, EntryBegan, Entered, ~HasPhase("restore-started"),
           InsideHeld, handler.op = "restore" => ReturningHeld
    PROVE  TransientHeld'
<1>1. /\ NetInv /\ NetTypes /\ [Next]_vars /\ ~Drift
  BY NoDrift DEF QuietStep, NetInv, HandlerInv
<1>2. EntryBegan' /\ Entered'
  BY Opened DEF EntryBegan, Entered, HasPhase, Has
<1>3. ~Enter
  BY DEF Enter, EntryBegan
<1>4. handler.op # "restore"
  <2> SUFFICES ASSUME handler.op = "restore" PROVE FALSE
    OBVIOUS
  <2>1. Busy /\ Running(Fallback, 19)
    BY DEF ReturningHeld, Busy, Nobody
  <2>2. Left \in 1..19 /\ handler.todo[Left] = Fallback[19] /\ Left \in DOMAIN handler.todo
    <3>1. Left \in 1..19 /\ \A j \in 1..Left : handler.todo[j] = Fallback[19 - Left + j]
      BY <2>1 DEF Running
    <3>2. Left \in 1..Left /\ 19 - Left + Left = 19 /\ DOMAIN handler.todo = 1..Left
      BY <1>1, <2>1, <3>1, Position
    <3> QED
      BY <3>1, <3>2
  <2>3. handler.todo[Left] = <<"check", "switched-restored">>
    BY <2>2, FallbackOrders
  <2> QED
    BY <2>2, <2>3 DEF InsideHeld, InstallOnly
<1>5. CASE Restore
  BY <1>2, <1>5, RestoreFromInside DEF TransientHeld
<1>6. CASE ~Restore
  <2>1. InsideHeld'
    BY <1>1, <1>3, <1>6, InsideStarts, InsideDispatch, InsideHandler, InsideScript, InsideOutside
       DEF Next
  <2>2. handler'.op # "restore"
    BY <1>4, <1>6, Opened
  <2> QED
    BY <1>2, <2>1, <2>2 DEF TransientHeld
<1> QED
  BY <1>5, <1>6

\* A node whose restore has begun, under way or given up.
LEMMA ReturningStep ==
    ASSUME QuietStep, ~IsPredeclared, EntryBegan, HasPhase("restore-started"),
           handler.op = "restore" => ReturningHeld
    PROVE  TransientHeld'
<1>1. /\ NetInv /\ NetTypes /\ [Next]_vars /\ ~Drift
  BY NoDrift DEF QuietStep, NetInv, HandlerInv
<1>2. EntryBegan' /\ HasPhase("restore-started")'
  BY Opened DEF EntryBegan, HasPhase, Has
<1>3. ~Restore
  BY DEF Restore, RestoreUnentered, RestorePartial, RestoreEntered, AcceptsUnentered,
         AcceptsPartial, IntentsInOrder, AcceptsEntered, HasPhase, Has
<1>4. handler'.op = "restore" => ReturningHeld'
  <2> SUFFICES ASSUME handler'.op = "restore" PROVE ReturningHeld'
    OBVIOUS
  <2>1. handler.op = "restore" /\ ReturningHeld
    BY <1>3, Opened
  <2>2. Busy /\ closed
    BY <1>1, <2>1 DEF Busy, Nobody, NetInv, HandlerInv, Restoring
  <2>3. ~(Enter \/ DirectReady \/ InstallFirewall)
    BY <2>2 DEF Enter, DirectReady, InstallFirewall
  <2>4. Script => ReturningHeld'
    BY <2>1, <2>2, ReturnScript
  <2>5. ~(Refuse \/ Die)
    BY <1>1, RefuseStep, DieStep
  <2> QED
    BY <1>1, <1>3, <2>1, <2>2, <2>3, <2>4, <2>5, ReturnDispatch, ReturnSkip, ReturnComplete,
       ReturnCheck, ReturnOutside DEF Next
<1> QED
  BY <1>2, <1>4 DEF TransientHeld

\* Every step keeps the story of the transit between the networks.
LEMMA TransitingNext ==
    ASSUME NetInv, ShellInv, [Next]_vars, Transiting
    PROVE  Transiting'
<1> SUFFICES ASSUME Quiet', ~IsPredeclared'
             PROVE  TransientHeld'
  BY DEF Transiting
<1>1. QuietStep /\ ~IsPredeclared /\ Quiet
  BY StepFrame
<1>2. TransientHeld
  BY <1>1 DEF Transiting
<1>3. CASE ~EntryBegan
  <2>1. FreshHeld
    BY <1>2, <1>3 DEF TransientHeld
  <2>2. handler.op # "restore"
    BY <2>1 DEF FreshHeld, Busy, Nobody
  <2> QED
    BY <1>1, <1>3, <2>1, <2>2, FreshStep
<1>4. CASE EntryBegan
  BY <1>1, <1>2, <1>4, EnteringStep, InsideStep, ReturningStep DEF TransientHeld
<1> QED
  BY <1>3, <1>4

\* The story is true at the start.
LEMMA InitStory == ASSUME Init PROVE Story
<1>1. /\ net = original /\ original \in Baselines /\ files = {} /\ handler = Nobody
  BY DEF Init
<1>2. ~Busy /\ handler.op = "none" /\ DOMAIN handler.todo = {}
  BY <1>1 DEF Busy, Nobody
<1>3. ~Entered /\ ~EntryBegan
  BY <1>1 DEF Entered, EntryBegan, HasPhase, Has
<1>4. Transiting
  BY <1>1, <1>2, <1>3 DEF Transiting, TransientHeld, FreshHeld
<1>5. KeptPredeclared
  <2> SUFFICES ASSUME Quiet PROVE PredeclaredHeld
    BY DEF KeptPredeclared
  <2>1. net.dispatcher = FALSE
    BY <1>1, OriginalFacts DEF Quiet
  <2> QED
    BY <1>1, <1>2, <1>3, <2>1 DEF PredeclaredHeld, PredeclaredNet, Untouched, SameAside, RuleOrders,
       NothingYet, Removing
<1> QED
  BY <1>4, <1>5 DEF Story

(* A node that nobody else touches is, order by order, what Story says of   *)
(* it (network.py enter_idle, restore and its mutate calls; the model       *)
(* script's guard, activation and exit trap).                               *)
THEOREM StoryHolds == Spec => []Story
<1>1. Init => Story
  BY InitStory
<1>2. NetInv /\ ShellInv /\ Story /\ [Next]_vars => Story'
  <2> SUFFICES ASSUME NetInv, ShellInv, Story, [Next]_vars PROVE Story'
    OBVIOUS
  <2>1. KeptPredeclared'
    BY StepFrame, KeptPredeclaredNext DEF KeptPredeclared, Story
  <2> QED
    BY <2>1, TransitingNext DEF Story
<1> QED
  BY <1>1, <1>2, NetworkInvariant, PTL DEF Spec

-----------------------------------------------------------------------------
(* What a restore finds.                                                    *)

LEMMA SettledFields ==
    ASSUME NEW n \in Snapshot
    PROVE  /\ Settled(n) \in Snapshot /\ Settled(n).dispatcher = FALSE
           /\ Settled(n).fabric = n.fabric /\ SameAside(Settled(n), n) /\ Settled(n).ports = n.ports
           /\ Settled(n).profile = n.profile /\ Settled(n).rules = n.rules
  BY DEF Settled, Snapshot, SameAside

\* Without a change by somebody else, a settled network is undisturbed.
LEMMA UndisturbedNow ==
    ASSUME original \in Baselines, ValidOriginal(original), NEW n \in Snapshot,
           SameAside(n, original), n.dispatcher = FALSE
    PROVE  Undisturbed(n) /\ n.idle = original.idle
<1>1. /\ original.rest = "same" /\ original.work = FALSE /\ original.ray = "dead"
  BY OriginalFacts
<1>2. \A r \in Rules : n.rules[r] \in 0..1
  BY DEF Snapshot
<1>3. \A r \in Rules : n.rules[r] <= 1
  BY <1>2
<1> QED
  BY <1>1, <1>3 DEF Undisturbed, SameAside

\* The predeclared direct profile stands, with or without the rules.
LEMMA PredeclaredStands ==
    ASSUME NetInv, Quiet, IsPredeclared, PredeclaredHeld, NEW n \in {net, Settled(net)}
    PROVE  ValidDirectOrIdle(n)
<1>1. /\ original \in Baselines /\ ValidOriginal(original) /\ net \in Snapshot /\ PredeclaredNet
  BY DEF NetInv, HandlerInv, NetTypes, Quiet, PredeclaredHeld
<1>2. /\ n \in Snapshot /\ n.dispatcher = FALSE /\ n.fabric = original.fabric
      /\ SameAside(n, original) /\ n.ports = original.ports /\ n.profile = original.profile
  BY <1>1, SettledFields DEF PredeclaredNet, Untouched, SameAside
<1> HIDE DEF PredeclaredHeld
<1>3. Undisturbed(n) /\ n.idle = original.idle
  BY <1>1, <1>2, UndisturbedNow
<1>4. /\ original.fabric = "dead" /\ original.profile = TRUE
      /\ original.ports["direct"] = [ActivePort EXCEPT !.mtu = "run", !.arp = Guard]
      /\ original.ports["sibling"] = [IdlePort EXCEPT !.arp = Guard]
      /\ original.ports["switch1"] = DownPort /\ original.ports["switch2"] = DownPort
  BY <1>1, PredeclaredOriginal
<1>5. SwitchIdle(n)
  BY <1>2, <1>3, <1>4, PortNames, PortFields DEF SwitchIdle
<1>6. /\ n.ports["direct"].uuid = "own" /\ n.ports["direct"].addr = TRUE
  <2>1. /\ [ActivePort EXCEPT !.mtu = "run", !.arp = Guard].uuid = "own"
        /\ [ActivePort EXCEPT !.mtu = "run", !.arp = Guard].addr = TRUE
    BY DEF ActivePort, IdlePort
  <2> QED
    BY <1>2, <1>4, <2>1
<1>7. DirectPartly(n)
  <2>1. original.ports["sibling"] \in Port
    BY <1>1, OriginalFacts, PortNames
  <2>2. [original.ports["sibling"] EXCEPT !.arp = original.ports["sibling"].arp] = original.ports["sibling"]
    BY <2>1 DEF Port
  <2> QED
    BY <1>2, <1>6, <2>2 DEF DirectPartly, ArpKnown, DirectShape
<1> QED
  BY <1>2, <1>3, <1>4, <1>5, <1>6, <1>7 DEF ValidDirectOrIdle, DirectPorts

\* What an entry has intended is where entry_intents looks for it.
LEMMA EntryIntents ==
    ASSUME NetInv, EntryFiles, ~Entered, ~HasPhase("restore-started"), Attempted # {}
    PROVE  /\ IntentsInOrder
           /\ \A p \in {"switch1", "switch2"}, kind \in {"switch-disconnect", "switch-admin-down"} :
                 Has(Intent(<<kind, p>>)) => <<kind, p>> \in Attempted
<1>1. ToSet(Entry) = {<<"fabric-stop", Host>>, <<"switch-disconnect", "switch1">>,
           <<"switch-admin-down", "switch1">>, <<"switch-disconnect", "switch2">>,
           <<"switch-admin-down", "switch2">>, <<"check", "idle">>}
  <2>1. DOMAIN Entry = 1..6
    BY Programs DEF IsProgram
  <2>2. ToSet(Entry) = {Entry[i] : i \in 1..6}
    BY <2>1 DEF ToSet
  <2>3. \A i \in 1..6 : i \in {1, 2, 3, 4, 5, 6}
    OBVIOUS
  <2> QED
    BY <2>2, <2>3, EntryOrders
<1>2. ~Has(Intent(<<"check", "idle">>))
  <2>1. files \subseteq Written
    BY DEF NetInv, HandlerInv, NetTypes
  <2>2. <<"check", "idle">> \notin Commands
    BY DEF Commands
  <2>3. Intent(<<"check", "idle">>) \notin Written
    BY <2>2 DEF Written, Intent, Done, Phase
  <2> QED
    BY <2>1, <2>3 DEF Has
<1>3. PICK l \in ToSet(Entry) : Has(Intent(l))
  BY DEF Attempted
<1>4. Has(Intent(<<"fabric-stop", Host>>))
  BY <1>1, <1>2, <1>3 DEF EntryFiles
<1>5. <<"fabric-stop", Host>> \in Attempted
  BY <1>1, <1>4 DEF Attempted
<1>6. /\ \A i \in DOMAIN Switch : i \in {1, 2} /\ Switch[i] \in {"switch1", "switch2"}
      /\ \A i \in DOMAIN Switch : i > 1 => i = 2 /\ Switch[i] = "switch2" /\ Switch[i - 1] = "switch1"
  BY PortNames DEF Switch
<1>7. \A i \in DOMAIN Switch :
         (\E kind \in {"switch-disconnect", "switch-admin-down"} : <<kind, Switch[i]>> \in Attempted)
          => /\ Has(Done(<<"fabric-stop", Host>>))
             /\ i > 1 => Has(Done(<<"switch-admin-down", Switch[i - 1]>>))
  BY <1>6 DEF Attempted, EntryFiles
<1>8. IntentsInOrder
  BY <1>5, <1>7 DEF IntentsInOrder, EntryFiles, Entered
<1> QED
  BY <1>1, <1>8 DEF Attempted

\* A half entry is one that validate_entry_partial explains.
LEMMA HalfEntryExplained ==
    ASSUME NetInv, Quiet, ~IsPredeclared, EnteringHeld, ~Entered, ~HasPhase("restore-started"),
           Attempted # {}
    PROVE  AcceptsPartial(Settled(net))
<1> DEFINE n == Settled(net)
           m == [n EXCEPT !.fabric = original.fabric,
                        !.ports = [p \in Ports |-> IF p \in SwitchPorts
                                                   THEN original.ports[p] ELSE n.ports[p]]]
<1>1. /\ original \in Baselines /\ ValidOriginal(original) /\ net \in Snapshot
      /\ EnteringNet /\ EntryFiles
  BY DEF NetInv, HandlerInv, NetTypes, Quiet, EnteringHeld
<1>2. /\ n \in Snapshot /\ n.dispatcher = FALSE /\ n.fabric = net.fabric /\ SameAside(n, net)
      /\ n.ports = net.ports /\ n.profile = net.profile /\ n.rules = net.rules
  BY <1>1, SettledFields
<1>3. /\ IntentsInOrder
      /\ \A p \in {"switch1", "switch2"}, kind \in {"switch-disconnect", "switch-admin-down"} :
            Has(Intent(<<kind, p>>)) => <<kind, p>> \in Attempted
  BY <1>1, EntryIntents
<1>4. /\ original.ports["switch1"] = ActivePort /\ original.ports["switch2"] = ActivePort
      /\ original \in Snapshot /\ original.ports \in [Ports -> Port]
  BY <1>1, TransientOriginal, OriginalFacts
<1>5. ASSUME NEW p \in SwitchPorts
      PROVE  LET now == n.ports[p]
                 was == original.ports[p]
                 mayDisconnect == \/ p \in Reviewed
                                  \/ <<"switch-disconnect", p>> \in Attempted
             IN  /\ now.mtu = was.mtu /\ now.arp = was.arp
                 /\ \/ now.uuid = was.uuid /\ now.addr = was.addr
                    \/ mayDisconnect /\ now.uuid = "none" /\ ~now.addr
                 /\ now.up = was.up \/ (<<"switch-admin-down", p>> \in Attempted /\ ~now.up)
                 /\ ~now.up => now.uuid = "none" /\ ~now.addr
                 /\ now.route = was.route \/ (mayDisconnect /\ now.route = "none")
  <2>1. p \in {"switch1", "switch2"}
    BY PortNames
  <2>2. SwitchPart(p) /\ original.ports[p] = ActivePort
    BY <1>1, <1>4, <2>1 DEF EnteringNet
  <2> QED
    BY <1>2, <1>3, <2>1, <2>2, PortFields DEF SwitchPart
<1>6. ValidSwitched(m)
  <2>1. [p \in Ports |-> IF p \in SwitchPorts THEN original.ports[p] ELSE n.ports[p]] = original.ports
    <3>1. \A p \in Ports : p \in SwitchPorts \/ n.ports[p] = original.ports[p]
      BY <1>1, <1>2 DEF EnteringNet, Ports
    <3> QED
      BY <1>4, <3>1
  <2>2. m = [n EXCEPT !.fabric = original.fabric, !.ports = original.ports]
    BY <2>1
  <2> HIDE DEF m, n
  <2>3. /\ m \in Snapshot /\ m.fabric = original.fabric /\ m.ports = original.ports
        /\ m.dispatcher = FALSE /\ SameAside(m, n) /\ m.rules = n.rules /\ m.profile = n.profile
    BY <1>2, <1>4, <2>2 DEF Snapshot, SameAside
  <2>4. SameAside(m, original)
    BY <1>1, <1>2, <2>3 DEF SameAside, EnteringNet, Untouched
  <2>5. Undisturbed(m) /\ m.idle = original.idle
    BY <1>1, <2>3, <2>4, UndisturbedNow
  <2> QED
    BY <1>1, <1>2, <2>3, <2>5 DEF ValidSwitched, NothingOwned, EnteringNet
<1>7. n.fabric \in {original.fabric, "dead"}
  BY <1>1, <1>2 DEF EnteringNet
<1>8. ValidEntryPartial(n, Attempted)
  BY <1>5, <1>6, <1>7 DEF ValidEntryPartial
<1> QED
  BY <1>3, <1>8 DEF AcceptsPartial

(* restore accepts whatever a killed entry, installation or script of the  *)
(* run has left on a node that nobody else has changed, also while remote  *)
(* shells of the script still run, save in the gap in front of the first   *)
(* intent and between the two ARP sysctls of a port:                       *)
(* validate_entry_partial and validate_direct_or_idle (phase.py) refuse no *)
(* other state that network.py and the model script can stop in.           *)
THEOREM RestorableHolds == Spec => []Restorable
<1>1. ASSUME NetInv, ShellInv, Story PROVE Restorable
  <2> SUFFICES ASSUME AwaitsRestore, ArpKnown(net), EntryBegan => Attempted # {} \/ Entered
               PROVE  AcceptsRestore(Settled(net))
    BY DEF Restorable
  <2>1. /\ ~Busy /\ Quiet /\ ~HasPhase("restore-started") /\ ~HasPhase("unchanged")
        /\ original \in Baselines /\ ValidOriginal(original) /\ net \in Snapshot
    BY <1>1 DEF AwaitsRestore, Quiet, NetInv, HandlerInv, NetTypes, ShellInv, LateOnly
  <2>2. /\ Settled(net) \in Snapshot /\ Settled(net).dispatcher = FALSE
        /\ Settled(net).fabric = net.fabric /\ SameAside(Settled(net), net)
        /\ Settled(net).ports = net.ports
        /\ Settled(net).profile = net.profile /\ Settled(net).rules = net.rules
    BY <2>1, SettledFields
  <2>3. CASE IsPredeclared
    <3>1. PredeclaredHeld
      BY <1>1, <2>1, <2>3 DEF Story, KeptPredeclared
    <3>2. ValidDirectOrIdle(Settled(net))
      BY <1>1, <2>1, <2>3, <3>1, PredeclaredStands
    <3>3. CASE Entered
      BY <2>3, <3>2, <3>3 DEF AcceptsRestore, AcceptsEntered
    <3>4. CASE ~Entered
      <4>1. files = {} /\ net.rules = original.rules
        BY <2>1, <3>1, <3>4 DEF PredeclaredHeld, NothingYet, HasPhase, Has
      <4>2. ~EntryBegan
        BY <4>1 DEF EntryBegan, HasPhase, Has
      <4> QED
        BY <2>2, <2>3, <3>2, <3>4, <4>1, <4>2 DEF AcceptsRestore, AcceptsUnentered
    <3> QED
      BY <3>3, <3>4
  <2>4. CASE ~IsPredeclared
    <3>1. TransientHeld
      BY <1>1, <2>1, <2>4 DEF Story, Transiting
    <3>2. CASE ~EntryBegan
      <4>1. FreshHeld
        BY <3>1, <3>2 DEF TransientHeld
      <4>2. files = {} /\ net = original
        BY <2>1, <4>1 DEF FreshHeld, HasPhase, Has
      <4>3. ~Entered
        BY <4>2 DEF Entered, HasPhase, Has
      <4>4. Undisturbed(Settled(net)) /\ Settled(net).idle = original.idle
        BY <2>1, <2>2, <4>2, UndisturbedNow
      <4>5. ValidSwitched(Settled(net))
        BY <2>2, <2>4, <4>2, <4>4 DEF ValidSwitched, NothingOwned
      <4> QED
        BY <2>4, <3>2, <4>2, <4>3, <4>5 DEF AcceptsRestore, AcceptsUnentered
    <3>3. CASE EntryBegan /\ ~Entered
      <4>1. AcceptsPartial(Settled(net))
        BY <1>1, <2>1, <2>4, <3>1, <3>3, HalfEntryExplained DEF TransientHeld
      <4> QED
        BY <3>3, <4>1 DEF AcceptsRestore
    <3>4. CASE Entered
      <4>1. InsideNet
        BY <2>1, <3>1, <3>4 DEF TransientHeld, InsideHeld
      <4>2. Undisturbed(Settled(net)) /\ SwitchIdle(Settled(net)) /\ DirectPartly(Settled(net))
        <5>1. SameAside(Settled(net), original)
          BY <2>2, <4>1 DEF InsideNet, Untouched, SameAside
        <5>2. Undisturbed(Settled(net))
          BY <2>1, <2>2, <5>1, UndisturbedNow
        <5>3. SwitchIdle(Settled(net)) /\ DirectPartly(Settled(net))
          BY <2>2, <4>1 DEF InsideNet, SwitchIdle, DirectPartly, DirectShape, ArpKnown, SameAside
        <5> QED
          BY <5>2, <5>3
      <4> QED
        BY <2>1, <2>4, <3>4, <4>2 DEF AcceptsRestore, AcceptsEntered, ValidDirectOrIdle
    <3> QED
      BY <3>2, <3>3, <3>4
  <2> QED
    BY <2>3, <2>4
<1> QED
  BY <1>1, NetworkInvariant, StoryHolds, PTL

\* Left alone, an order of the predeclared restore has nothing to refuse but
\* the intent of an earlier attempt.
LEMMA PredeclaredRefuses ==
    ASSUME NetInv, Quiet, IsPredeclared, PredeclaredHeld, handler.op = "restore", Refuse
    PROVE  ~IsCheck /\ Has(Intent(Command))
<1>1. /\ NetTypes /\ Busy /\ Running(PredeclaredRestore, 3)
      /\ Left <= 2 => net.rules[1] = 0
      /\ Left <= 1 => net.rules[2] = 0
  BY DEF NetInv, HandlerInv, Refuse, PredeclaredHeld, Removing
<1>2. /\ original \in Baselines /\ ValidOriginal(original)
      /\ net.rules \in [Rules -> 0..1] /\ original.rules = [r \in Rules |-> 0]
  BY <1>1, OriginalFacts DEF NetTypes, Snapshot, Quiet
<1>3. /\ Left \in 1..3
      /\ Left = 3 => Command = <<"firewall-remove", 1>>
      /\ Left = 2 => Command = <<"firewall-remove", 2>>
      /\ Left = 1 => Command = <<"check", "predeclared-restored">>
  BY <1>1, AtPredeclared
<1>4. CASE Left = 1
  <2>1. net.rules = original.rules
    BY <1>1, <1>2, <1>4, PortNames
  <2>2. ValidDirectOrIdle(net)
    BY PredeclaredStands
  <2>3. Passes(Command[2], net) /\ IsCheck /\ ~Waits(Command[2])
    BY <1>3, <1>4, <2>1, <2>2 DEF Passes, IsCheck, Waits
  <2> QED
    BY <2>3 DEF Refuse
<1>5. CASE Left \in 2..3
  <2>1. ~IsCheck /\ Command[1] = "firewall-remove" /\ Command[2] \in Rules
    BY <1>3, <1>5, PortNames DEF IsCheck
  <2>2. net.rules[Command[2]] \in 0..1
    BY <1>2, <2>1
  <2>3. Permitted(Command)
    BY <2>1, <2>2 DEF Permitted
  <2> QED
    BY <2>1, <2>3 DEF Refuse
<1> QED
  BY <1>3, <1>4, <1>5

\* The check in front of the switch side finds the ports idle ...
LEMMA IdleAgain ==
    ASSUME QuietStep, ~IsPredeclared, Busy, handler.op = "restore", ReturningHeld, Left = 11,
           net.dispatcher = FALSE
    PROVE  ValidIdle(net)
<1> DEFINE d == net.ports["direct"]   s == net.ports["sibling"]
<1>1. /\ NetTypes /\ net \in Snapshot /\ ReturningNet /\ original.rules = [r \in Rules |-> 0]
      /\ original.ports["direct"] = IdlePort /\ original.ports["sibling"] = IdlePort
      /\ original.profile = FALSE /\ original \in Baselines /\ ValidOriginal(original)
      /\ net.profile \in BOOLEAN
  BY ReturnFacts
<1>2. /\ DirectOk(d, IdlePort) /\ SiblingOk(s, IdlePort)
      /\ net.rules[1] = 0 /\ net.rules[2] = 0
      /\ d.uuid = "none" /\ ~net.profile /\ d.mtu = IdlePort.mtu /\ d.arp = IdlePort.arp
      /\ s.arp = IdlePort.arp /\ SwitchIdle(net)
  BY DirectNow
<1>3. d \in Port /\ s \in Port /\ net.rules \in [Rules -> 0..1] /\ IdlePort \in Port
  BY <1>1, PortNames, PortTypes DEF Snapshot
<1>4. d = IdlePort
  <2>1. d.addr = FALSE /\ d.route = "none" /\ d.up = IdlePort.up
    BY <1>2, <1>3 DEF DirectOk, Port
  <2> HIDE DEF d
  <2> QED
    BY <1>2, <1>3, <2>1, PortFields DEF Port
<1>5. s = IdlePort
  <2> HIDE DEF s
  <2> QED
    BY <1>2, <1>3 DEF SiblingOk, Port
<1>6. net.rules = original.rules
  BY <1>1, <1>2, <1>3, PortNames
<1>7. Undisturbed(net)
  BY <1>1, UndisturbedNow DEF ReturningNet, Untouched
<1> QED
  BY <1>1, <1>2, <1>4, <1>5, <1>6, <1>7 DEF ValidIdle, NothingOwned, DirectPorts

\* ... and the one behind it the reviewed baseline.
LEMMA SwitchedAgain ==
    ASSUME QuietStep, ~IsPredeclared, Busy, handler.op = "restore", ReturningHeld, Left = 1
    PROVE  ValidSwitched(Settled(net))
<1>1. /\ NetTypes /\ net \in Snapshot /\ ReturningNet /\ net.ports \in [Ports -> Port]
      /\ original.ports["switch1"] = ActivePort /\ original.ports["switch2"] = ActivePort
      /\ original \in Baselines /\ ValidOriginal(original) /\ original.ports \in [Ports -> Port]
  BY ReturnFacts, OriginalFacts
<1>2. Untouched /\ BackToSwitch /\ net.fabric = original.fabric
  BY <1>1 DEF ReturningNet
<1>3. net.ports["switch1"] = ActivePort /\ net.ports["switch2"] = ActivePort
  BY <1>1 DEF ReturningNet, SwitchSettled
<1>4. net.ports = original.ports
  <2>1. \A p \in Ports : net.ports[p] = original.ports[p]
    BY <1>1, <1>2, <1>3, PortNames DEF BackToSwitch, Ports
  <2> QED
    BY <1>1, <2>1
<1> DEFINE n == Settled(net)
<1>5. /\ n \in Snapshot /\ n.dispatcher = FALSE /\ n.fabric = net.fabric /\ SameAside(n, net)
      /\ n.ports = net.ports /\ n.profile = net.profile /\ n.rules = net.rules
  BY <1>1, SettledFields
<1>6. SameAside(n, original)
  BY <1>2, <1>5 DEF SameAside, Untouched
<1>7. Undisturbed(n) /\ n.idle = original.idle
  BY <1>1, <1>5, <1>6, UndisturbedNow
<1> QED
  BY <1>2, <1>4, <1>5, <1>7 DEF ValidSwitched, NothingOwned, BackToSwitch

\* What a restore reads before its commands permits them.
LEMMA PermittedAgain ==
    ASSUME QuietStep, ~IsPredeclared, Busy, ~IsCheck, handler.op = "restore", ReturningHeld
    PROVE  Permitted(Command)
<1>1. /\ NetTypes /\ Running(Fallback, 19) /\ Left \in 1..19
      /\ net.rules[1] \in 0..1 /\ net.rules[2] \in 0..1
  BY ReturnFacts
<1>2. /\ Left \in 2..19 /\ Left # 11
      /\ Left = 19 => Command = <<"firewall-remove", 1>>
      /\ Left = 18 => Command = <<"firewall-remove", 2>>
      /\ Left = 17 => Command = <<"direct-down", "direct">>
      /\ Left = 16 => Command = <<"direct-delete", "direct">>
      /\ Left = 15 => Command = <<"direct-mtu", "direct">>
      /\ Left \in 12..14 => Command[1] \in {"direct-admin", "direct-arp"}
      /\ Left \in 2..10 => Command[1] \in {"fabric-start", "switch-up", "switch-metric",
                                           "switch-mtu", "switch-arp"}
  BY <1>1, AtFallback DEF IsCheck
<1>3. Left \in 12..19 =>
         /\ DirectOk(net.ports["direct"], IdlePort)
         /\ Left <= 16 => net.ports["direct"].uuid = "none"
         /\ Left <= 15 => ~net.profile
  BY DirectNow
<1>4. CASE Left \in 2..10 \/ Left \in 12..14
  BY <1>2, <1>4 DEF Permitted
<1>5. CASE Left \in 18..19
  BY <1>1, <1>2, <1>5 DEF Permitted
<1>6. CASE Left \in 15..17
  BY <1>2, <1>3, <1>6 DEF Permitted, DirectOk
<1> QED
  BY <1>2, <1>4, <1>5, <1>6

(* A restore that has begun gives up only for what somebody else did, for   *)
(* what a remote shell of the dead script builds up behind its back, for    *)
(* the dispatcher hooks, or for the intent of an earlier attempt: neither   *)
(* its own commands nor what is left of the script's trap make a state that *)
(* the checks of network.py restore, or the readings in front of its        *)
(* commands, refuse.                                                        *)
THEOREM RestoreGivesUpHolds == Spec => RestoreGivesUpForOthers
<1> DEFINE Given == Refuse /\ handler.op = "restore" =>
                       \/ drift > 0 \/ script.late
                       \/ Command = <<"check", "idle-restored">> /\ net.dispatcher
                       \/ IsPredeclared /\ ~IsCheck /\ Has(Intent(Command))
<1>1. ASSUME NetInv, ShellInv, Story, [Next]_vars PROVE Given
  <2> SUFFICES ASSUME Refuse, handler.op = "restore", ~(drift > 0), ~script.late
               PROVE  \/ Command = <<"check", "idle-restored">> /\ net.dispatcher
                      \/ IsPredeclared /\ ~IsCheck /\ Has(Intent(Command))
    OBVIOUS
  <2>1. NetTypes /\ Busy /\ drift = 0 /\ drift' = 0 /\ ~script'.late
    <3>1. NetTypes /\ drift \in Nat
      BY <1>1, NetworkAssumption DEF NetInv, HandlerInv, NetTypes
    <3> QED
      BY <3>1 DEF Refuse, Frame
  <2>2. Quiet /\ QuietStep
    BY <1>1, <2>1 DEF NetInv, HandlerInv, Reviewing, Quiet, QuietStep
  <2>3. CASE IsPredeclared
    <3>1. PredeclaredHeld
      BY <1>1, <2>2, <2>3 DEF Story, KeptPredeclared
    <3> QED
      BY <1>1, <2>2, <2>3, <3>1, PredeclaredRefuses
  <2>4. CASE ~IsPredeclared
    <3>1. ReturningHeld
      BY <1>1, <2>2, <2>4 DEF Story, Transiting, TransientHeld
    <3>2. Running(Fallback, 19) /\ NotYetIntended /\ net \in Snapshot
      BY <2>1, <2>2, <2>4, <3>1, ReturnFacts
    <3>3. CASE ~IsCheck
      <4>1. Permitted(Command)
        BY <2>1, <2>2, <2>4, <3>1, <3>3, PermittedAgain
      <4>2. ~handler.sent /\ Has(Intent(Command))
        BY <3>3, <4>1 DEF Refuse
      <4>3. Command = handler.todo[1] /\ 1 \in DOMAIN handler.todo
        BY <2>1, Position
      <4> QED
        BY <3>2, <4>2, <4>3 DEF NotYetIntended
    <3>4. CASE IsCheck
      <4>1. /\ Left \in {1, 11}
            /\ Left = 1 => Command = <<"check", "switched-restored">>
            /\ Left = 11 => Command = <<"check", "idle-restored">>
        BY <2>1, <3>2, <3>4, AtFallback DEF IsCheck
      <4>2. CASE Left = 1
        <5>1. ValidSwitched(Settled(net))
          BY <2>1, <2>2, <2>4, <3>1, <4>2, SwitchedAgain
        <5> QED
          BY <3>4, <4>1, <4>2, <5>1 DEF Refuse, Passes, Waits
      <4>3. CASE Left = 11
        <5>1. ~Passes("idle-restored", net)
          BY <3>4, <4>1, <4>3 DEF Refuse, Waits
        <5>2. ~ValidIdle(net)
          BY <5>1 DEF Passes
        <5>3. net.dispatcher \in BOOLEAN
          BY <3>2 DEF Snapshot
        <5> QED
          BY <2>1, <2>2, <2>4, <3>1, <4>1, <4>3, <5>2, <5>3, IdleAgain
      <4> QED
        BY <4>1, <4>2, <4>3
    <3> QED
      BY <3>3, <3>4
  <2> QED
    BY <2>3, <2>4
<1>2. NetInv /\ ShellInv /\ Story /\ [Next]_vars => [Given]_vars
  BY <1>1
<1> QED
  BY <1>2, NetworkInvariant, StoryHolds, PTL DEF Spec, RestoreGivesUpForOthers

=============================================================================
