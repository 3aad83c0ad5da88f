------------------------------ MODULE Operator ------------------------------
(***************************************************************************)
(* Operators at work: shells of clawgressctl that share one candidate file *)
(* and one admin API.  set reads the file, changes the tree and writes it  *)
(* back in place; save stages what the file holds, commit stages it and    *)
(* puts it in force; `clawgressctl commit --ops-mode apply` also carries   *)
(* the plan of what is in force out on the host, action by action.         *)
(*                                                                         *)
(* The state directory is Activation, which OpMode implements; there the   *)
(* nftables step and the failures of the files are.  A command of its own, *)
(* `clawgressctl set`, is a shell with one command.                        *)
(***************************************************************************)
EXTENDS OpsPlan

CONSTANTS
  Shells,
  None,
  Commands,    \* the set commands operators type: [tokens, raw]
  FirstTyped,  \* the commands that candidates to work on were made by
  Read,        \* those that are only read: no command follows but discard
  Units,       \* the systemd units the host may have, set by set
  MaxSets,     \* bound: set commands
  MaxRev,      \* bound: save and commit commands of the shells
  MaxFaults    \* bound: commands that fail on the host, clients that die

SetCommands == [tokens : Seq(STRING), raw : STRING]

ASSUME OperatorAssumption ==
  /\ None \notin Nat \cup Shells
  /\ Commands \subseteq SetCommands
  /\ FirstTyped \cup Read \subseteq Seq(SetCommands)
  /\ MaxSets \in Nat /\ MaxRev \in Nat /\ MaxFaults \in Nat

VARIABLES
  file,        \* the candidate file: [is, doc]
  units,       \* the units of the host
  dirty,       \* files written since their unit was last restarted
  docs,        \* the changes of the revisions staged so far
  waiting,     \* the staged and the active revision, or None
  inForce,
  pc,          \* where each shell, or the handler it called, is
  hand,        \* the candidate it has read or made
  rev,         \* the revision its last configure call returned
  todo,        \* actions the handler has yet to run
  (* history *)
  acked,       \* the set commands answered since the last discard
  disturbed,   \* commands overlapped, or a client died, since then
  solo,        \* the handler that runs its actions with no other one, or None
  settled,     \* files of the plan that was applied last, by a sole handler
  sets, calls, faults

hostVars == <<units, dirty, solo, settled>>
storeVars == <<docs, waiting, inForce>>
counters == <<sets, calls, faults>>
fileVars == <<file, acked, disturbed>>
vars == <<file, units, dirty, docs, waiting, inForce, pc, hand, rev, todo,
          acked, disturbed, solo, settled, sets, calls, faults>>

Store == INSTANCE Activation WITH Revisions <- 1 .. MaxRev

(* A candidate, and the commands it was made by. *)
EmptyDoc == [tree |-> EmptyTree, typed |-> <<>>]
AfterCommand(d, c) == [tree |-> Entered(d.tree, c), typed |-> Append(d.typed, c)]
DocOf(typed) == [tree |-> TreeOf(typed), typed |-> typed]

Holding(d) == [is |-> "doc", doc |-> d]
Missing == [is |-> "missing", doc |-> EmptyDoc]
Truncated == [is |-> "empty", doc |-> EmptyDoc]
Garbled == [is |-> "garbled", doc |-> EmptyDoc]

Init ==
  /\ \E typed \in FirstTyped \cup Read :
       /\ file = IF typed = <<>> THEN Missing ELSE Holding(DocOf(typed))
       /\ acked = typed
       /\ sets = IF typed \in FirstTyped THEN 0 ELSE MaxSets
       /\ calls = IF typed \in FirstTyped THEN 0 ELSE MaxRev
  /\ units \in Units
  /\ dirty = {}
  /\ Store!Init
  /\ docs = <<>>
  /\ pc = [s \in Shells |-> "idle"]
  /\ hand = [s \in Shells |-> EmptyDoc]
  /\ rev = [s \in Shells |-> 0]
  /\ todo = [s \in Shells |-> <<>>]
  /\ disturbed = FALSE
  /\ solo = None
  /\ settled = {}
  /\ faults = 0

Goto(s, step) == pc' = [pc EXCEPT ![s] = step]

(* A command ends: its locals are gone. *)
End(s) ==
  /\ hand' = [hand EXCEPT ![s] = EmptyDoc]
  /\ rev' = [rev EXCEPT ![s] = 0]
  /\ Goto(s, "idle")

InSet(s) == pc[s] \in {"truncate", "write"}

-----------------------------------------------------------------------------
(* set *)

(* Mutant: every set starts from an empty configuration. *)
LoadNothing == EmptyDoc

(* A missing or an empty file is an empty configuration. *)
LoadOrInit == file.doc

(* The command is checked and the file read; when either fails, or the     *)
(* value cannot be encoded, nothing changes and the shell goes on.         *)
Set(s, c) ==
  /\ pc[s] = "idle" /\ sets < MaxSets
  /\ Accepted(c) /\ file.is # "garbled"
  /\ sets' = sets + 1
  /\ hand' = [hand EXCEPT ![s] = AfterCommand(LoadOrInit, c)]
  /\ disturbed' = (disturbed \/ \E o \in Shells : InSet(o))
  /\ Goto(s, "truncate")
  /\ UNCHANGED <<file, acked, rev, todo, calls, faults>>
  /\ UNCHANGED storeVars /\ UNCHANGED hostVars

(* os.WriteFile empties the file... *)
Truncate(s) ==
  /\ pc[s] = "truncate"
  /\ file' = Truncated
  /\ Goto(s, "write")
  /\ UNCHANGED <<acked, disturbed, hand, rev, todo>>
  /\ UNCHANGED counters
  /\ UNCHANGED storeVars /\ UNCHANGED hostVars

(* ... and writes from its start.  What another shell has written in       *)
(* between shows behind it where it was longer.                            *)
WriteBack(s) ==
  /\ pc[s] = "write"
  /\ \/ file' = Holding(hand[s])
     \/ file.is \in {"doc", "garbled"} /\ file' = Garbled
  /\ acked' = Append(acked, Last(hand[s].typed))
  /\ End(s)
  /\ UNCHANGED <<disturbed, todo>>
  /\ UNCHANGED counters
  /\ UNCHANGED storeVars /\ UNCHANGED hostVars

Discard(s) ==
  /\ pc[s] = "idle" /\ (file # Missing \/ acked # <<>>)
  /\ file' = Missing
  /\ acked' = <<>>
  /\ disturbed' = \E o \in Shells : InSet(o)
  /\ UNCHANGED <<pc, hand, rev, todo>>
  /\ UNCHANGED counters
  /\ UNCHANGED storeVars /\ UNCHANGED hostVars

-----------------------------------------------------------------------------
(* save and commit *)

(* runConfigureOnce reads the candidate.  One that is missing, empty or    *)
(* does not parse ends the shell with nothing done.                        *)
ReadCandidate(s, for) ==
  /\ pc[s] = "idle" /\ calls < MaxRev
  /\ file.is = "doc"
  /\ calls' = calls + 1
  /\ hand' = [hand EXCEPT ![s] = file.doc]
  /\ Goto(s, for)
  /\ UNCHANGED <<rev, todo, sets, faults>>
  /\ UNCHANGED fileVars /\ UNCHANGED storeVars /\ UNCHANGED hostVars

(* POST /v1/opmode/configure; commit goes on with the revision's id. *)
Stage(s) ==
  /\ pc[s] \in {"save", "stage"}
  /\ Store!Stage(Len(docs) + 1)
  /\ docs' = Append(docs, hand[s])
  /\ IF pc[s] = "save" THEN End(s)
     ELSE /\ rev' = [rev EXCEPT ![s] = Len(docs) + 1]
          /\ Goto(s, "commit")
          /\ UNCHANGED hand
  /\ UNCHANGED todo /\ UNCHANGED counters
  /\ UNCHANGED fileVars /\ UNCHANGED hostVars

(* Mutant: the shell's commit takes whatever is staged. *)
ExpectedAny(s) == waiting

Expected(s) == rev[s]

(* POST /v1/opmode/commit of a shell, a dry run: 409 and 412 end it. *)
Commit(s) ==
  /\ pc[s] = "commit"
  /\ \/ waiting # None /\ waiting = Expected(s) /\ Store!Activate
     \/ waiting # Expected(s) /\ UNCHANGED <<waiting, inForce>>
  /\ End(s)
  /\ UNCHANGED <<docs, todo>> /\ UNCHANGED counters
  /\ UNCHANGED fileVars /\ UNCHANGED hostVars

(* clawgressctl commit --ops-mode apply, with no revision expected. *)
CommitApply(s) ==
  /\ pc[s] = "idle" /\ waiting # None
  /\ Store!Activate
  /\ Goto(s, "state")
  /\ UNCHANGED <<docs, rev, hand, todo>> /\ UNCHANGED counters
  /\ UNCHANGED fileVars /\ UNCHANGED hostVars

-----------------------------------------------------------------------------
(* The plan on the host *)

(* What reads a file, and which of its readers an action makes read. *)
Reader(f) ==
  LET n == f.name IN
  CASE f.dir = "/etc/bind/" -> <<"bind9">>
    [] f.dir = "/etc/chrony/" -> <<"chrony">>
    [] f.dir = "/etc/haproxy/" -> <<"haproxy">>
    [] f.dir = "/etc/ssh/" -> <<"ssh">>
    [] f.dir = "/etc/nftables.d/" -> <<"nft", n[1]>>
    [] f.dir = "/run/dhclient/" -> <<"dhclient", n[2]>>
    [] f.dir = "/run/systemd/" /\ n[1] = "dhclient" -> <<"systemd">>
    [] f.dir = "/etc/systemd/" /\ n[1] = "network" -> <<"systemd-networkd">>
    [] f.dir = "/etc/systemd/" /\ n[1] # "network" -> <<"systemd-resolved">>
    [] f.dir = "/etc/clawgress/" /\ n[1] = "services" -> <<n[2]>>
    [] f.dir = "/etc/clawgress/" /\ n[1] = "rendered" -> <<"clawgress-configd">>
    [] f.dir = "/etc/clawgress/" /\ n[1] = "policy.json" -> <<"clawgress-policyd">>
    [] OTHER -> <<"nothing">>

MakesRead(a) ==
  CASE a.do = "systemctl" -> a.unit
    [] a.do = "nft" /\ ~a.check -> <<"nft", a.name>>
    [] OTHER -> <<>>

(* The handler reads the state again and plans for what is in force. *)
ReadState(s) ==
  /\ pc[s] = "state"
  /\ todo' = [todo EXCEPT ![s] = Plan(docs[inForce].tree)]
  /\ solo' = IF \E o \in Shells : pc[o] = "ops" THEN None ELSE s
  /\ settled' = {}
  /\ Goto(s, "ops")
  /\ UNCHANGED <<units, dirty, hand, rev>> /\ UNCHANGED counters
  /\ UNCHANGED fileVars /\ UNCHANGED storeVars

Works(a) == Allowed(a) /\ (a.do = "systemctl" => a.unit \in units)

RunAction(s) ==
  /\ pc[s] = "ops" /\ todo[s] # <<>>
  /\ LET a == Head(todo[s])
         f == [dir |-> a.dir, name |-> a.name]
     IN /\ Works(a)
        /\ IF a.do = "write"
           THEN /\ dirty' = dirty \cup {f}
                /\ settled' = IF solo = s THEN settled \cup {f} ELSE settled
           ELSE /\ dirty' = {d \in dirty : Reader(d) # MakesRead(a)}
                /\ UNCHANGED settled
  /\ todo' = [todo EXCEPT ![s] = Tail(todo[s])]
  /\ UNCHANGED <<units, solo, pc, hand, rev>> /\ UNCHANGED counters
  /\ UNCHANGED fileVars /\ UNCHANGED storeVars

(* The first action that is refused or fails ends the call with a 500;     *)
(* what was done before stays.                                             *)
ActionFails(s) ==
  /\ pc[s] = "ops" /\ todo[s] # <<>>
  /\ \/ ~Works(Head(todo[s])) /\ UNCHANGED faults
     \/ faults < MaxFaults /\ faults' = faults + 1
  /\ todo' = [todo EXCEPT ![s] = <<>>]
  /\ solo' = IF solo = s THEN None ELSE solo
  /\ End(s)
  /\ UNCHANGED <<units, dirty, settled, sets, calls>>
  /\ UNCHANGED fileVars /\ UNCHANGED storeVars

Finish(s) ==
  /\ pc[s] = "ops" /\ todo[s] = <<>>
  /\ End(s)
  /\ UNCHANGED todo /\ UNCHANGED counters
  /\ UNCHANGED fileVars /\ UNCHANGED storeVars /\ UNCHANGED hostVars

(* The client dies, or a call of it fails, which ends it. *)
Die(s) ==
  /\ pc[s] \in {"truncate", "write", "save", "stage", "commit"} /\ faults < MaxFaults
  /\ faults' = faults + 1
  /\ disturbed' = (disturbed \/ pc[s] = "write")
  /\ End(s)
  /\ UNCHANGED <<file, acked, todo, sets, calls>>
  /\ UNCHANGED storeVars /\ UNCHANGED hostVars

-----------------------------------------------------------------------------
Next ==
  \E s \in Shells :
    \/ \E c \in Commands : Set(s, c)
    \/ \E for \in {"save", "stage"} : ReadCandidate(s, for)
    \/ Truncate(s) \/ WriteBack(s) \/ Discard(s)
    \/ Stage(s) \/ Commit(s) \/ CommitApply(s)
    \/ ReadState(s) \/ RunAction(s) \/ ActionFails(s) \/ Finish(s)
    \/ Die(s)

Spec == Init /\ [][Next]_vars

-----------------------------------------------------------------------------
Steps == {"idle", "truncate", "write", "save", "stage", "commit", "state", "ops"}

IsTree(t) ==
  \A keys \in DOMAIN t :
    /\ t[keys].items # <<>> /\ (~t[keys].list => Len(t[keys].items) = 1)
    /\ \A p \in DOMAIN t : ~IsStrictPrefix(p, keys)

TypeOK ==
  /\ file.is \in {"missing", "empty", "garbled", "doc"} /\ IsTree(file.doc.tree)
  /\ \A i \in DOMAIN docs : IsTree(docs[i].tree)
  /\ waiting \in DOMAIN docs \cup {None} /\ inForce \in DOMAIN docs \cup {None}
  /\ pc \in [Shells -> Steps]
  /\ rev \in [Shells -> {0} \cup DOMAIN docs]
  /\ \A s \in Shells : IsTree(hand[s].tree)
  /\ \A s \in Shells : todo[s] # <<>> => pc[s] = "ops"
  /\ solo \in Shells \cup {None}
  /\ disturbed \in BOOLEAN /\ sets \in 0 .. MaxSets /\ calls \in 0 .. MaxRev /\ faults \in 0 .. MaxFaults

(* Commands that are answered stay: unless two of them overlapped on the   *)
(* candidate, or a client died between emptying the file and filling it,   *)
(* the file holds what every set since the last discard made, in order.    *)
LoneSetsKept ==
  ~disturbed /\ (\A s \in Shells : pc[s] # "write")
  => file.doc.typed = acked /\ (acked # <<>> => file.is = "doc")

(* What the commit of a shell puts in force is the candidate it read when  *)
(* commit was typed, whatever others stage, commit and edit meanwhile.     *)
CommitIsOwn ==
  [][\A s \in Shells : pc[s] = "commit" /\ pc'[s] = "idle" /\ inForce' # inForce
                      => docs[inForce'] = hand[s]]_vars

(* A handler that got through its plan alone leaves no file behind that    *)
(* the service it is for has not read since.                               *)
AppliedIsLive ==
  solo # None /\ todo[solo] = <<>>
  => \A f \in settled \cap dirty : Reader(f) = <<"nothing">>

-----------------------------------------------------------------------------
(* The words that were typed and what becomes of them *)

(* Where the settings are that rules and plan are made of. *)
ChainAt(c) == <<"firewall", "nftables", c, "default_action">>
WanBlockAt == <<"firewall", "nftables", "wan_block">>
RoleAt(n) == Ethernet \o <<n, "role">>
AddressAt(n) == Ethernet \o <<n, "address">>
OifAt(n) == NatRules \o <<n>> \o <<"outbound_interface">>
SourceAt(n) == NatRules \o <<n>> \o <<"source", "address">>
TranslationAt(n) == NatRules \o <<n>> \o <<"translation", "address">>
HostNameAt == <<"system", "host_name">>
NameServerAt == <<"system", "name_server">>

Chains == {"input", "forward", "output"}
Lists == {AddressAt("<>"), NameServerAt}
Settings ==
  Lists \cup {ChainAt(c) : c \in Chains} \cup {WanBlockAt, HostNameAt}
  \cup {RoleAt("<>"), OifAt("<>"), SourceAt("<>"), TranslationAt("<>")}
SettingWords == (UNION {Range(r) : r \in Settings}) \ {"<>"}

IsWord(raw) == raw # "" /\ ParseValue(raw) = Text(raw)

(* Two patterns go the same way until one has another word than the other. *)
PartAtAWord(q, r) ==
  \E i \in DOMAIN q \cap DOMAIN r :
    /\ \A j \in 1 .. (i - 1) : q[j] = r[j]
    /\ q[i] # r[i] /\ "<>" \notin {q[i], r[i]}

(* What command_schema.json says of these settings.  No other command      *)
(* leads to them, past them or to what they are below of, but for the name *)
(* and the group of an outbound interface.  Addresses have a slash, or are *)
(* dhcp, and so are never taken for a switch or a number; nor are the      *)
(* words that the readers of the configuration know.                       *)
ASSUME SchemaAssumption ==
  /\ \A p \in Schema :
       LET q == Normal(p.tokens) IN
       /\ Range(q) \cap DOMAIN Dotted = {}
       /\ \A r \in Settings :
            \/ q = r \/ PartAtAWord(q, r)
            \/ r = OifAt("<>") /\ \E x \in {"name", "group"} : q = Append(r, x)
       /\ q \in Settings /\ p.multi => q \in Lists
       /\ q \in {ChainAt(c) : c \in Chains} => p.accepts \subseteq {"accept", "drop"}
       /\ q = WanBlockAt => p.accepts \subseteq {"enable"}
       /\ q \in {AddressAt("<>"), SourceAt("<>")} => \A raw \in p.accepts : IsWord(raw)
  /\ \A r \in Lists : \E p \in Schema : p.multi /\ Normal(p.tokens) = r
  /\ SettingWords \cap (DOMAIN Dashed \cup DOMAIN Dotted) = {}
  /\ {"accept", "drop", "enable", "wan", "masquerade", "dhcp"} \cap DOMAIN Printed = {}
  /\ \A typed \in FirstTyped \cup Read : \A i \in DOMAIN typed : Accepted(typed[i])

(* The last value typed for a path, "" if none was. *)
LastRaw(d, keys) ==
  LET at == {i \in DOMAIN d.typed : Normal(d.typed[i].tokens) = keys}
  IN IF at = {} THEN "" ELSE d.typed[Max(at)].raw

(* The values typed for a path that are kept as what they are. *)
AllWords(d, keys) ==
  {raw \in {d.typed[i].raw : i \in {i \in DOMAIN d.typed : Normal(d.typed[i].tokens) = keys}} :
     IsWord(raw)}

(* No name goes on with one of these words after its first dot, as the     *)
(* interface eth0.role does, whose settings replace the role of eth0.      *)
Undivided(d) ==
  \A i \in DOMAIN d.typed : \A t \in Range(Normal(d.typed[i].tokens)) \cap DOMAIN Dotted :
    Dotted[t][2] \notin SettingWords

(* The rules that nft loads are what was typed last, setting by setting:   *)
(* chain policies, the interfaces of the WAN block, the masquerade rules.  *)
(* Left out: interfaces of rules called like a switch or a number; rules   *)
(* whose interface was also set by name or by group, which takes its plain *)
(* setting away.                                                           *)
RulesFollowCommands ==
  LET d == file.doc
      r == RenderRules(d.tree)
      Of(at) == LastRaw(d, at)
      Clear(n) == /\ Of(OifAt(n)) # "" => IsWord(Of(OifAt(n)))
                  /\ \A x \in {"name", "group"} : Of(Append(OifAt(n), x)) = ""
      wanted == Among(Names, {n \in Range(Names) :
                  Of(OifAt(n)) # "" /\ Of(SourceAt(n)) # "" /\ Of(TranslationAt(n)) = "masquerade"})
  IN Undivided(d) =>
     /\ \A c \in {"input", "forward"} :
          r[c] = IF Of(ChainAt(c)) = "" THEN "drop" ELSE Of(ChainAt(c))
     /\ r.output = IF Of(ChainAt("output")) = "" THEN "accept" ELSE Of(ChainAt("output"))
     /\ \A n \in Range(Names) : n \in r.wan <=> Of(WanBlockAt) # "" /\ Of(RoleAt(n)) = "wan"
     /\ (\A n \in Range(Names) : Clear(n))
        => r.nat = [i \in DOMAIN wanted |-> [oif |-> Of(OifAt(wanted[i])), src |-> Of(SourceAt(wanted[i]))]]

(* The plan carries what was typed: an interface gets dhclient as soon as  *)
(* dhcp is among its addresses, or else its network file with every one of *)
(* them, and networkd restarted after it; the host name and the name       *)
(* servers likewise, but for those that set takes for switches or numbers. *)
PlanFollowsCommands ==
  LET d == file.doc
      plan == Plan(d.tree)
      Runs(a) == \E i \in DOMAIN plan : plan[i] = a
      WritesThen(f, values, a) ==
        \E i, j \in DOMAIN plan :
          /\ i < j /\ plan[j] = a
          /\ plan[i].do = "write" /\ plan[i].name = f /\ Range(plan[i].what) = values
      host == LastRaw(d, HostNameAt)
      dns == AllWords(d, NameServerAt)
  IN Undivided(d) =>
     /\ \A n \in Range(Names) :
          LET addresses == AllWords(d, AddressAt(n)) IN
          /\ "dhcp" \in addresses
             <=> Runs(Systemctl("restart", <<"dhclient", n>>))
          /\ addresses # {} /\ "dhcp" \notin addresses
             <=> WritesThen(<<"network", n>>, addresses,
                            Systemctl("restart", <<"systemd-networkd">>))
     /\ IsWord(host) => Runs(Hostnamectl(host))
     /\ dns # {} => WritesThen(<<"90-clawgress.conf">>, dns,
                               Systemctl("restart", <<"systemd-resolved">>))

(* What show prints restores the candidate, but for the order of lists,    *)
(* when it is typed into an empty one.  Left out are configurations with   *)
(* switches, printed as true and refused as such, with numbers that print  *)
(* in another form, with names that contain dots, with a list that took a  *)
(* map in, and with a value or a name that has blanks, which is printed    *)
(* without quotes: the shell refuses the command or sets something else.   *)
ShownCommandsRestore ==
  LET d == file.doc
  IN (/\ \A keys \in DOMAIN d.tree : \A x \in Range(d.tree[keys].items) : x.t \in {"text", "number"}
      /\ \A i \in DOMAIN d.typed :
           /\ Range(Normal(d.typed[i].tokens)) \cap (DOMAIN Dotted \cup DOMAIN Spaced) = {}
           /\ d.typed[i].raw \notin DOMAIN Spaced
           /\ d.typed[i].raw \in DOMAIN Printed => Printed[d.typed[i].raw] = d.typed[i].raw)
     => SameTree(Replay(d.tree), d.tree)
=============================================================================
