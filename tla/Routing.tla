------------------------------ MODULE Routing ------------------------------
(***************************************************************************)
(* routing.rs: an ordered list of rules, named groups of addresses and a   *)
(* default, behind one RwLock.  The first rule that matches a peer decides. *)
(* Addresses are numbers of AddressBits bits of one family: a prefix never *)
(* contains an address of the other.                                       *)
(***************************************************************************)
EXTENDS Integers, FiniteSets, Sequences, SequencesExt

CONSTANTS AddressBits, Port,
          Rule,      \* the rules that may be added: [group, ips, ports, action]
          GroupName,
          IpGroup,   \* the groups that may be added: [ips, prefixes]
          Action,    \* the actions that may be the default
          MaxRules   \* a bound on the list, for model checking

VARIABLES rules, groups, default
tableVars == <<rules, groups, default>>

Ip == 0..(2^AddressBits - 1)
Peer == [ip : Ip, port : Port]

ASSUME RoutingAssumption ==
  /\ AddressBits \in Nat /\ Port \subseteq Nat /\ MaxRules \in Nat
  /\ \A r \in Rule : /\ r.group \subseteq GroupName /\ Cardinality(r.group) <= 1
                     /\ r.ips \subseteq Ip /\ r.action \in Action
                     /\ r.ports \subseteq Nat \X Nat /\ Cardinality(r.ports) <= 1
  /\ \A g \in IpGroup : g.ips \subseteq Ip /\ g.prefixes \subseteq Ip \X Nat

\* IpPrefix::contains: the leading bits agree; a prefix longer than an address
\* is the address.
PrefixContains(prefix, ip) ==
  LET bits == IF prefix[2] < AddressBits THEN prefix[2] ELSE AddressBits
      tail == 2^(AddressBits - bits)
  IN  prefix[1] \div tail = ip \div tail

InGroup(g, ip) == ip \in g.ips \/ \E prefix \in g.prefixes : PrefixContains(prefix, ip)

\* RoutingRule::matches.  A group that no add_group has named has no members.
Matches(rule, peer) ==
  /\ \A range \in rule.ports : peer.port \in range[1]..range[2]
  /\ \/ rule.group = {} /\ rule.ips = {}
     \/ peer.ip \in rule.ips
     \/ \E name \in rule.group : name \in DOMAIN groups /\ InGroup(groups[name], peer.ip)

Matching(peer) == {i \in DOMAIN rules : Matches(rules[i], peer)}

Resolve(peer) ==
  IF Matching(peer) = {} THEN default
  ELSE rules[CHOOSE i \in Matching(peer) : \A j \in Matching(peer) : i <= j].action

-----------------------------------------------------------------------------
TableInit == rules = <<>> /\ groups = [name \in {} |-> {}] /\ default \in Action

AddGroup(name, g) ==
  /\ groups' = [n \in DOMAIN groups \cup {name} |-> IF n = name THEN g ELSE groups[n]]
  /\ UNCHANGED <<rules, default>>

AddRule(rule) ==
  /\ Len(rules) < MaxRules
  /\ rules' = Append(rules, rule)
  /\ UNCHANGED <<groups, default>>

PrependRule(rule) ==
  /\ Len(rules) < MaxRules
  /\ rules' = <<rule>> \o rules
  /\ UNCHANGED <<groups, default>>

SetDefault(action) ==
  /\ default' = action
  /\ UNCHANGED <<rules, groups>>

TableNext == \/ \E name \in GroupName, g \in IpGroup : AddGroup(name, g)
             \/ \E rule \in Rule : AddRule(rule) \/ PrependRule(rule)
             \/ \E action \in Action : SetDefault(action)

-----------------------------------------------------------------------------
TableTypeOK ==
  /\ rules \in Seq(Rule) /\ Len(rules) <= MaxRules
  /\ DOMAIN groups \subseteq GroupName /\ groups \in [DOMAIN groups -> IpGroup]
  /\ default \in Action
=============================================================================
