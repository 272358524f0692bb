---------------------------- MODULE LocalNetwork ----------------------------
(***************************************************************************)
(* The shell's network of local nodes: a list of node objects in memory,   *)
(* the network configuration, and a directory for each node with its       *)
(* configuration and its private key.  A command is a sequence of steps,   *)
(* each a change of memory and one file; an exception ends the shell, a    *)
(* crash can come before each step or in the middle of writing a file.     *)
(* What a node does while it runs is not part of this module.              *)
(***************************************************************************)
EXTENDS Naturals, Sequences, SequencesExt

CONSTANTS
  Names,       \* names of nodes, and of their directories
  Reuse,       \* whether "node add" is given a name that is in the list
  None, Torn,  \* no value; a file cut off while it was written
  MaxKeys,     \* bound: keys generated; the key of a node is its identity
  MaxFaults    \* bound: crashes and exceptions

Key == 1..MaxKeys \union {None}
Cfg == [rid : Key, fc : Key]
Dir == [cfg : Cfg \union {None, Torn}, key : Key \union {Torn}]

ASSUME LocalNetworkAssumption ==
  /\ Reuse \in BOOLEAN
  /\ MaxKeys \in Nat /\ MaxFaults \in Nat
  /\ None # Torn
  /\ \A v \in {None, Torn} : v \notin Names /\ v \notin Nat /\ v \notin Cfg /\ v \notin Dir

VARIABLES
  open,     \* a shell runs
  nodes,    \* NetworkInterface.nodes: the sequence of node objects
  net,      \* the network configuration: first contact and names of nodes
  disk,     \* disk[n]: directory of n, or None: its configuration and key
  todo,     \* steps left of the command that runs
  synced,   \* history: the last command was a sync
  spoilt,   \* history: a command was cut off, or a configuration wiped
  cut,      \* history: nodes whose key was cut off from their configuration
  keys, faults  \* counters of the bounds

vars == <<open, nodes, net, disk, todo, synced, spoilt, cut, keys, faults>>

-----------------------------------------------------------------------------
(* NodeInterface: "up" once initialized, with the configuration and the    *)
(* key it has in memory.                                                   *)
Node(n) == [name |-> n, up |-> FALSE, run |-> FALSE, rid |-> None, fc |-> None, key |-> None]

Empty == [cfg |-> None, key |-> None]

Ids == DOMAIN nodes
Exists(i) == disk[nodes[i].name] # None

(* resolve_node: the first of that name; 0 for none.                       *)
Resolve(n) ==
  IF \E i \in Ids : nodes[i].name = n
  THEN CHOOSE i \in Ids : nodes[i].name = n /\ \A j \in 1..(i - 1) : nodes[j].name # n
  ELSE 0

Contact == IF net.fc = None THEN 0 ELSE Resolve(net.fc)

(* A step of a command: for node object i, or, in a loop, for each.        *)
Step(do, i, x) == [do |-> do, i |-> i, x |-> x]
One(do, i) == <<Step(do, i, None)>>
Pair(do, next, i) == <<Step(do, i, None), Step(next, i, None)>>
Each(do, x) == [i \in Ids |-> Step(do, i, x)]
Create(i) == Pair("mkdir", "load", i)

(* del self.config.nodes[node.name]                                        *)
Without(names, n) ==
  IF n \in ToSet(names) THEN RemoveAt(names, CHOOSE i \in DOMAIN names : names[i] = n) ELSE names

Init ==
  /\ open = FALSE /\ nodes = <<>> /\ net = [fc |-> None, names |-> <<>>]
  /\ disk = [n \in Names |-> None]
  /\ todo = <<>> /\ synced = FALSE /\ spoilt = FALSE /\ cut = {}
  /\ keys = 0 /\ faults = 0

-----------------------------------------------------------------------------
(* Steps                                                                   *)

Dies ==
  /\ faults < MaxFaults /\ faults' = faults + 1
  /\ open' = FALSE /\ nodes' = <<>> /\ todo' = <<>> /\ synced' = FALSE /\ spoilt' = TRUE

At(do) == open /\ todo # <<>> /\ Head(todo).do = do
It == Head(todo)
Me == nodes[It.i]

Config(o) == [rid |-> o.rid, fc |-> o.fc]

(* ConfigProvider.save_to_yaml                                             *)
Saved(o) == [disk EXCEPT ![o.name].cfg = Config(o)]

Put(o) == nodes' = [nodes EXCEPT ![It.i] = o]
Then(steps) == todo' = steps \o Tail(todo)

(* A loop passes over a node without a directory.                          *)
PassOver ==
  /\ At("load") \/ At("wipeall")
  /\ ~Exists(It.i) /\ Then(<<>>)
  /\ UNCHANGED <<open, nodes, net, disk, synced, spoilt, cut, keys, faults>>

MkDir ==
  /\ At("mkdir") /\ disk' = [disk EXCEPT ![Me.name] = Empty] /\ Then(<<>>)
  /\ UNCHANGED <<open, nodes, net, synced, spoilt, cut, keys, faults>>

(* NodeInterface.init, ConfigProvider._load_from_yaml, load_priv_key: an   *)
(* unreadable file leaves the node uninitialized, a missing key is         *)
(* generated.                                                              *)
Load ==
  /\ At("load") /\ Exists(It.i)
  /\ LET d == disk[Me.name]
         c == IF d.cfg = None THEN Config(Node(Me.name)) ELSE d.cfg
     IN  IF Me.up \/ Torn \in {d.cfg, d.key} THEN Then(<<>>) /\ UNCHANGED nodes
         ELSE /\ Put([Me EXCEPT !.rid = c.rid, !.fc = c.fc, !.key = d.key, !.up = d.key # None])
              /\ Then(IF d.key # None THEN <<>>
                      ELSE Pair("key", "save", It.i))
  /\ UNCHANGED <<open, net, disk, synced, spoilt, cut, keys, faults>>

(* create_priv_key writes the key before the configuration names it.       *)
NewKey ==
  /\ At("key") /\ keys < MaxKeys /\ keys' = keys + 1
  /\ disk' = [disk EXCEPT ![Me.name].key = keys + 1]
  /\ Put([Me EXCEPT !.key = keys + 1, !.rid = keys + 1]) /\ Then(<<>>)
  /\ UNCHANGED <<open, net, synced, spoilt, cut, faults>>

Save ==
  /\ At("save") /\ disk' = Saved(Me) /\ Put([Me EXCEPT !.up = TRUE]) /\ Then(<<>>)
  /\ UNCHANGED <<open, net, synced, spoilt, cut, keys, faults>>

(* mutate_config with the first contact f, or None: not of a node that is  *)
(* not initialized.                                                        *)
Mutate(f) ==
  IF Me.up
  THEN /\ Put([Me EXCEPT !.fc = f]) /\ disk' = Saved([Me EXCEPT !.fc = f]) /\ Then(<<>>)
       /\ UNCHANGED <<open, net, synced, spoilt, cut, keys, faults>>
  ELSE Dies /\ UNCHANGED <<net, disk, cut, keys>>

(* apply_first_contact                                                     *)
Apply ==
  /\ At("apply")
  /\ IF nodes[It.x].up THEN Mutate(nodes[It.x].rid)
     ELSE Dies /\ UNCHANGED <<net, disk, cut, keys>>

(* unset_first_contact, for one node: It.x was the first contact.          *)
Clear ==
  /\ At("clear")
  /\ IF It.x.up THEN Mutate(IF Me.fc = It.x.rid THEN None ELSE Me.fc)
     ELSE Dies /\ UNCHANGED <<net, disk, cut, keys>>

UnsetContact ==
  /\ At("unset") /\ net' = [net EXCEPT !.fc = None] /\ Then(Each("clear", It.x))
  /\ UNCHANGED <<open, nodes, disk, synced, spoilt, cut, keys, faults>>

SetContact ==
  /\ At("set") /\ net' = [net EXCEPT !.fc = Me.name]
  /\ Then(RemoveAt(Each("apply", It.i), It.i))
  /\ UNCHANGED <<open, nodes, disk, synced, spoilt, cut, keys, faults>>

(* NetworkInterface.add_node and remove_node                               *)
AddNode ==
  /\ At("add") /\ net' = [net EXCEPT !.names = IF Me.name \in ToSet(@) THEN @ ELSE Append(@, Me.name)]
  /\ Then(IF Contact = 0 THEN <<>> ELSE <<Step("apply", It.i, Contact)>>)
  /\ UNCHANGED <<open, nodes, disk, synced, spoilt, cut, keys, faults>>

RmDir ==
  /\ At("rmdir") /\ disk' = [disk EXCEPT ![Me.name] = None] /\ Then(<<>>)
  /\ UNCHANGED <<open, nodes, net, synced, spoilt, cut, keys, faults>>

\* fault: the name stays in the configuration when the node is not the first contact
NameStays ==
  /\ At("remove") /\ nodes' = RemoveAt(nodes, It.i)
  /\ net' = [net EXCEPT !.names = IF net.fc = Me.name THEN Without(@, Me.name) ELSE @]
  /\ Then(IF net.fc = Me.name THEN <<Step("unset", 0, Me)>> ELSE <<>>)
  /\ UNCHANGED <<open, disk, synced, spoilt, cut, keys, faults>>

RemoveNode ==
  /\ At("remove") /\ nodes' = RemoveAt(nodes, It.i)
  /\ net' = [net EXCEPT !.names = Without(@, Me.name)]
  /\ Then(IF net.fc = Me.name THEN <<Step("unset", 0, Me)>> ELSE <<>>)
  /\ UNCHANGED <<open, disk, synced, spoilt, cut, keys, faults>>

\* fault: a node that exists is left alone
VisitMissing ==
  /\ At("visit")
  /\ Then(IF Exists(It.i) THEN <<>>
          ELSE Create(It.i) \o (IF Contact \in {0, It.i} THEN <<>> ELSE <<Step("apply", It.i, Contact)>>))
  /\ UNCHANGED <<open, nodes, net, disk, synced, spoilt, cut, keys, faults>>

(* sync, for one node                                                      *)
Visit ==
  /\ At("visit")
  /\ Then((IF Exists(It.i) THEN <<>> ELSE Create(It.i))
            \o (IF Contact \in {0, It.i} THEN <<>> ELSE <<Step("apply", It.i, Contact)>>))
  /\ UNCHANGED <<open, nodes, net, disk, synced, spoilt, cut, keys, faults>>

\* fault: wipe leaves the private key where it is
KeyStays ==
  /\ At("wipekey") /\ Then(<<>>)
  /\ UNCHANGED <<open, nodes, net, disk, synced, spoilt, cut, keys, faults>>

(* ConfigProvider.wipe: two files.  Memory keeps what they held.           *)
WipeKey ==
  /\ At("wipekey") /\ disk' = [disk EXCEPT ![Me.name].key = None] /\ Then(<<>>)
  /\ UNCHANGED <<open, nodes, net, synced, spoilt, cut, keys, faults>>

WipeFile ==
  /\ At("wipe") \/ (At("wipeall") /\ Exists(It.i))
  /\ IF Me.up
     THEN /\ disk' = [disk EXCEPT ![Me.name].cfg = None] /\ spoilt' = TRUE
          /\ Then(One("wipekey", It.i))
          /\ UNCHANGED <<open, nodes, net, synced, cut, keys, faults>>
     ELSE Dies /\ UNCHANGED <<net, disk, cut, keys>>

(* A node that starts saves its configuration.  Asking for the state of a  *)
(* node that is not initialized is an exception.                           *)
StartNode ==
  /\ At("start")
  /\ IF Me.up
     THEN /\ Put([Me EXCEPT !.run = TRUE]) /\ Then(<<>>)
          /\ disk' = IF Me.run THEN disk ELSE Saved(Me)
          /\ UNCHANGED <<open, net, synced, spoilt, cut, keys, faults>>
     ELSE Dies /\ UNCHANGED <<net, disk, cut, keys>>

StopNode ==
  /\ At("stop")
  /\ IF Me.up
     THEN /\ Put([Me EXCEPT !.run = FALSE]) /\ Then(<<>>)
          /\ UNCHANGED <<open, net, disk, synced, spoilt, cut, keys, faults>>
     ELSE Dies /\ UNCHANGED <<net, disk, cut, keys>>

Steps ==
  \/ StartNode \/ StopNode \/ PassOver \/ MkDir \/ Load \/ NewKey \/ Save \/ Apply \/ Clear \/ UnsetContact \/ SetContact
  \/ AddNode \/ RmDir \/ RemoveNode \/ Visit \/ WipeKey \/ WipeFile

-----------------------------------------------------------------------------
(* Commands                                                                *)

Idle == open /\ todo = <<>>

Do(sync, steps) ==
  /\ todo' = steps /\ synced' = sync
  /\ UNCHANGED <<open, nodes, net, disk, spoilt, cut, keys, faults>>

(* A command that needs an initialized node ends the shell without one.    *)
With(i, steps) ==
  IF nodes[i].up THEN Do(FALSE, steps) ELSE Dies /\ UNCHANGED <<net, disk, cut, keys>>

(* KoiShell, NetworkInterface.load_nodes                                   *)
Open ==
  /\ ~open /\ open' = TRUE /\ synced' = FALSE
  /\ nodes' = [i \in DOMAIN net.names |-> Node(net.names[i])]
  /\ todo' = [i \in DOMAIN net.names |-> Step("load", i, None)]
  /\ UNCHANGED <<net, disk, spoilt, cut, keys, faults>>

(* node_add: a directory that is there already is not initialized, and     *)
(* the node is not added; a name that is in the list is only reported.     *)
Add(n) ==
  /\ Idle /\ disk[n] = None /\ (Reuse \/ Resolve(n) = 0)
  /\ nodes' = Append(nodes, Node(n)) /\ synced' = FALSE
  /\ todo' = Create(Len(nodes) + 1) \o One("add", Len(nodes) + 1)
  /\ UNCHANGED <<open, net, disk, spoilt, cut, keys, faults>>

(* node_rm: not of a running node.                                         *)
Rm(i) ==
  /\ Idle
  /\ IF Exists(i)
     THEN ~nodes[i].run /\ With(i, Pair("rmdir", "remove", i))
     ELSE Do(FALSE, One("remove", i))

\* fault: the first contact before is not unset
SetDirectly(i) ==
  Idle /\ Contact # i /\ With(i, One("set", i))

(* set_first_contact, of a full node                                       *)
Set(i) ==
  /\ Idle /\ Contact # i
  /\ With(i, (IF Contact = 0 THEN <<>> ELSE <<Step("unset", 0, nodes[Contact])>>)
                       \o One("set", i))

Unset == Idle /\ Contact # 0 /\ Do(FALSE, <<Step("unset", 0, nodes[Contact])>>)

Sync ==
  /\ Idle
  /\ Do(TRUE, (IF Contact # 0 /\ ~Exists(Contact) THEN Create(Contact) ELSE <<>>)
                  \o Each("visit", None))

(* node_wipe_config, and wipe_config for the nodes that have a directory.  *)
WipeConfig ==
  Idle /\ \E s \in {One("wipe", i) : i \in Ids} \union {Each("wipeall", None)} : Do(FALSE, s)

(* One node, or all of them: in the order of the configuration, and the    *)
(* other way round.                                                        *)
OneOrAll(do) == {One(do, i) : i \in Ids} \union {Each(do, None)}

Start == Idle /\ \E s \in OneOrAll("start") : Do(FALSE, s)

Stop == Idle /\ \E s \in OneOrAll("stop") : Do(FALSE, Reverse(s))

(* node_init                                                               *)
InitNode(i) == Idle /\ Do(FALSE, One("load", i))

(* quit and QUIT                                                           *)
Quit ==
  /\ Idle /\ open' = FALSE /\ nodes' = <<>> /\ synced' = FALSE
  /\ UNCHANGED <<net, disk, todo, spoilt, cut, keys, faults>>

(* The shell is killed: what is in memory is gone, and a file that is      *)
(* being written may be cut off.                                           *)
Crash ==
  /\ open /\ todo # <<>> /\ Dies
  /\ cut' = IF At("save") \/ At("wipekey") THEN cut \union {Me.name} ELSE cut
  /\ \/ UNCHANGED disk
     \/ At("key") /\ disk' = [disk EXCEPT ![Me.name].key = Torn]
     \/ /\ At("save") \/ (At("apply") /\ Me.up) \/ (At("clear") /\ Me.up)
           \/ (At("start") /\ Me.up /\ ~Me.run)
        /\ disk' = [disk EXCEPT ![Me.name].cfg = Torn]
  /\ UNCHANGED <<net, keys>>

Next ==
  \/ Steps \/ Open \/ Quit \/ Crash \/ Unset \/ Sync
  \/ \E n \in Names : Add(n)
  \/ \E i \in Ids : Rm(i) \/ Set(i) \/ InitNode(i)
  \/ Start \/ Stop \/ WipeConfig

Spec == Init /\ [][Next]_vars

-----------------------------------------------------------------------------
(* Properties                                                              *)

(* Well-formed state; between commands the network configuration names     *)
(* each node of the list once, in its order.                               *)
TypeOK ==
  /\ open \in BOOLEAN /\ spoilt \in BOOLEAN /\ cut \subseteq Names
  /\ net.fc \in Names \union {None} /\ ToSet(net.names) \subseteq Names /\ IsInjective(net.names)
  /\ Idle => net.names = [i \in Ids |-> nodes[i].name]
  /\ \A n \in Names : disk[n] # None =>
       disk[n].key \in Key \union {Torn} /\ disk[n].cfg \in Cfg \union {None, Torn}
  /\ \A i \in Ids : nodes[i].name \in Names /\ {nodes[i].rid, nodes[i].fc, nodes[i].key} \subseteq Key
  /\ ~open => nodes = <<>> /\ todo = <<>>

(* A node of the list and its files agree on the first contact c.          *)
Follows(i, c) ==
  /\ Exists(i) /\ nodes[i].up /\ nodes[i].fc = c
  /\ disk[nodes[i].name].cfg = Config(nodes[i])

(* Whatever nodes are added and removed, and whatever first contacts are   *)
(* set and unset, between restarts of the shell: every node but the first  *)
(* contact has the identity of the first contact as its own, in memory and *)
(* on disk, and without a first contact none does.                         *)
Agreed ==
  (Idle /\ ~spoilt) =>
    \A i \in Ids :
      Follows(i, IF Contact \in {0, i} THEN None ELSE nodes[Contact].rid)

(* A sync that ends leaves every node of the list with a directory, and    *)
(* with the identity its first contact has now, even after crashes, wiped  *)
(* configurations and the new identities these lead to.  A file that was   *)
(* cut off is the exception: nothing replaces it.                          *)
SyncRepairs ==
  (Idle /\ synced) =>
    \A i \in Ids : /\ Exists(i)
                   /\ nodes[i].up \/ Torn \in {disk[nodes[i].name].cfg, disk[nodes[i].name].key}
                   /\ Contact \notin {0, i} => Follows(i, nodes[Contact].rid)

(* A node's identity is that of its private key, unless a crash came       *)
(* between the two files: nothing repairs that.                            *)
KeyMatches ==
  \A i \in Ids : (nodes[i].up /\ nodes[i].name \notin cut) => nodes[i].rid = nodes[i].key

=============================================================================
