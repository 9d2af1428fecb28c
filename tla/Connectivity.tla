---------------------------- MODULE Connectivity ----------------------------
(***************************************************************************)
(* `nullseal check` (src/commands/check.rs): a chain of probes, none of    *)
(* which stops the chain, and the verdict that names the most fundamental  *)
(* failing layer.  The world is what the probes meet: each of its fields   *)
(* says whether one thing works in itself, so that one broken thing makes  *)
(* every probe fail that depends on it.                                    *)
(***************************************************************************)
EXTENDS Integers, Sequences, SequencesExt

VARIABLES
  world,   \* what works
  target,  \* "server" or "turn", "off" when the command is another
  todo,    \* probes yet to run, in order
  results  \* what the probes found, in order

checkVars == <<world, target, todo, results>>

Order == <<"Config", "Dns", "TcpTls", "Web", "CoreApi", "Session", "Signaling", "Stun", "Turn">>
Critical == {"Config", "Dns", "TcpTls", "CoreApi", "Session", "Signaling"}

\* What the API may answer as iceServers: TURN URIs count with credentials.
IceConfigs == {{}, {"stun"}, {"turn"}, {"stun", "turn"}}

\* CLI_APPS_CORE_URL and CLI_APPS_USER_URL: unset, without a host that
\* host_port could name ("localhost:3000"), or whole.  A STUN server answers
\* with a mapped address, with something else, or not at all.
Urls == {"unset", "hostless", "whole"}
AnyWorld ==
  [coreUrl : Urls, webUrl : Urls, coreName : BOOLEAN, coreHost : BOOLEAN,
   api : BOOLEAN, sessions : BOOLEAN, signaling : BOOLEAN, webName : BOOLEAN, webHost : BOOLEAN,
   ice : IceConfigs, udp : BOOLEAN, mapped : BOOLEAN, allocates : BOOLEAN]
NoWorld ==
  [coreUrl |-> "unset", webUrl |-> "unset", coreName |-> FALSE, coreHost |-> FALSE,
   api |-> FALSE, sessions |-> FALSE, signaling |-> FALSE, webName |-> FALSE,
   webHost |-> FALSE, ice |-> {}, udp |-> FALSE, mapped |-> FALSE, allocates |-> FALSE]
Worlds == {NoWorld} \cup {w \in AnyWorld :
             /\ w.coreUrl # "unset"
             /\ w.coreUrl # "whole" => ~w.coreName /\ ~w.coreHost
             /\ w.webUrl # "whole" => ~w.webName /\ ~w.webHost}

-----------------------------------------------------------------------------
(* The probes.                                                             *)

HttpWorks(w) == w.coreName /\ w.coreHost
ApiWorks(w) == HttpWorks(w) /\ w.api

\* The servers the core API gave: none when that probe failed.
IceServers(w) == IF ApiWorks(w) THEN w.ice ELSE {}

Succeeds(probe, w) ==
  CASE probe = "config"    -> w.coreUrl # "unset"
    [] probe = "dnsCore"   -> w.coreName
    [] probe = "dnsWeb"    -> w.webName
    [] probe = "tcpTls"    -> HttpWorks(w)
    [] probe = "web"       -> w.webName /\ w.webHost
    [] probe = "coreApi"   -> ApiWorks(w)
    [] probe = "session"   -> HttpWorks(w) /\ w.sessions
    [] probe = "signaling" -> HttpWorks(w) /\ w.signaling
    [] probe = "stun"      -> "stun" \in IceServers(w) /\ w.udp /\ w.mapped
    [] probe = "turn"      -> "turn" \in IceServers(w) /\ w.udp /\ w.allocates

LayerOf ==
  [config |-> "Config", dnsCore |-> "Dns", dnsWeb |-> "Dns", tcpTls |-> "TcpTls",
   web |-> "Web", coreApi |-> "CoreApi", session |-> "Session",
   signaling |-> "Signaling", stun |-> "Stun", turn |-> "Turn"]

\* run_server_probes and run_turn_probes: without a core URL, only config,
\* and no name is looked up in a URL that has none.
Only(cond, probe) == IF cond THEN <<probe>> ELSE <<>>
Chain(t, w) ==
  IF w.coreUrl = "unset" THEN <<"config">>
  ELSE IF t = "turn"
    THEN <<"config">> \o Only(w.coreUrl = "whole", "dnsCore") \o <<"coreApi", "stun", "turn">>
  ELSE <<"config">> \o Only(w.coreUrl = "whole", "dnsCore") \o Only(w.webUrl = "whole", "dnsWeb")
         \o <<"tcpTls">> \o Only(w.webUrl # "unset", "web")
         \o <<"coreApi", "session", "signaling", "stun", "turn">>

CheckInit ==
  /\ world \in Worlds /\ target \in {"server", "turn"}
  /\ todo = Chain(target, world) /\ results = <<>>

\* Every probe runs within its timeout, whatever the ones before it found.
Probe ==
  /\ todo # <<>>
  /\ results' = Append(results, [layer |-> LayerOf[Head(todo)], probe |-> Head(todo),
                                 ok |-> Succeeds(Head(todo), world)])
  /\ todo' = Tail(todo)
  /\ UNCHANGED <<world, target>>

-----------------------------------------------------------------------------
(* The verdict.                                                            *)

Failing(layers) == {l \in layers : \E i \in DOMAIN results :
                                      results[i].layer = l /\ ~results[i].ok}

LastFound(layers) ==
  LET bad == SelectSeq(results, LAMBDA r : r.layer \in layers /\ ~r.ok)
  IN IF bad = <<>> THEN "none" ELSE bad[Len(bad)].layer
FirstFailing(layers) ==
  LET bad == SelectSeq(Order, LAMBDA l : l \in Failing(layers))
  IN IF bad = <<>> THEN "none" ELSE Head(bad)

Verdict ==
  IF FirstFailing(Critical) # "none"
    THEN [is |-> "Blocked", blocker |-> FirstFailing(Critical)]
  ELSE IF FirstFailing({"Stun", "Turn"}) # "none"
    THEN [is |-> "OkButP2pMayFail", blocker |-> FirstFailing({"Stun", "Turn"})]
  ELSE [is |-> "Ok", blocker |-> "none"]

ExitFor ==
  IF \/ Verdict.is = "Blocked"
     \/ target = "turn" /\ Verdict.is = "OkButP2pMayFail"
    THEN 1 ELSE 0

-----------------------------------------------------------------------------
(* Properties.                                                             *)

\* What is broken in itself, by the layer it belongs to, of what the target
\* depends on.
Broken ==
  {l \in ToSet(Order) :
     CASE l = "Config"    -> world.coreUrl = "unset"
       [] l = "Dns"       -> world.coreUrl # "hostless" /\ ~world.coreName
       [] l = "TcpTls"    -> ~world.coreHost
       [] l = "CoreApi"   -> ~world.api
       [] l = "Session"   -> target = "server" /\ ~world.sessions
       [] l = "Signaling" -> target = "server" /\ ~world.signaling
       [] OTHER           -> FALSE}

\* When the chain is through, the blocker it names is broken in itself and
\* not for a more fundamental reason, and the exit code says whether the
\* server's own chain works (is_critical: "a web outage does NOT block
\* session creation").  Two exceptions: a web host whose name does not
\* resolve counts as DNS and blocks, although the web is informational
\* (check.rs:77-81, 169-170), and `check turn`, which does not connect to the
\* host first, calls a dead host an API.  A core URL without a host passes
\* the configuration and counts as a host that cannot be reached.
CheckDone == todo = <<>> /\ target # "off"
WebNameOnly ==
  target = "server" /\ world.coreUrl # "unset" /\ world.webUrl = "whole" /\ ~world.webName

BlockerIsRootCause ==
  CheckDone =>
    LET first == SelectSeq(Order, LAMBDA l : l \in Broken)
        root == IF Head(first) = "TcpTls" /\ target = "turn" THEN "CoreApi" ELSE Head(first)
    IN /\ Verdict.is = "Blocked" <=> Broken # {} \/ WebNameOnly
       /\ Broken # {} /\ ~WebNameOnly => Verdict.blocker = root
       /\ Broken = {} /\ ~WebNameOnly =>
            /\ Verdict.blocker = "Stun" => ~("stun" \in world.ice /\ world.udp /\ world.mapped)
            /\ ExitFor = 0 <=>
                 target = "server" \/ (world.ice = {"stun", "turn"} /\ world.udp
                                       /\ world.mapped /\ world.allocates)
=============================================================================
