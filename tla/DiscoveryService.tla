-------------------------- MODULE DiscoveryService --------------------------
(***************************************************************************)
(* The discovery service: its thread pings the network and drops hosts     *)
(* that have not answered for some pings; the discovery thread calls back  *)
(* for every answer.  Both work under state_mutex and report the list of   *)
(* hosts to the user when it changed.                                      *)
(***************************************************************************)
EXTENDS Naturals, Sequences

CONSTANTS
  HostIds,     \* consoles on the network
  HostsMax,    \* options.hosts_max
  DropPings,   \* options.host_drop_pings
  MaxPings     \* bound: number of pings

ASSUME DiscoveryAssumption ==
  HostsMax \in Nat \ {0} /\ DropPings \in Nat /\ MaxPings \in Nat

VARIABLES
  hosts,       \* hosts and host_discovery_infos: id, state and last_ping_index
  pings,       \* ping_index
  reported,    \* the list the user last saw
  service      \* the service runs, was told to stop, or has stopped

discoveryVars == <<hosts, pings, reported, service>>

HostStates == {"ready", "standby"}
View(hs) == [i \in 1 .. Len(hs) |-> [id |-> hs[i].id, state |-> hs[i].state]]

DiscoveryTypeOK ==
  /\ hosts \in Seq([id : HostIds, state : HostStates, last : 0 .. MaxPings]) /\ Len(hosts) <= HostsMax
  /\ \A i, j \in 1 .. Len(hosts) : hosts[i].id = hosts[j].id => i = j
  /\ pings \in 0 .. MaxPings
  /\ reported = View(hosts)
  /\ service \in {"running", "stopping", "stopped"}

DiscoveryInit == hosts = <<>> /\ pings = 0 /\ reported = <<>> /\ service = "running"

-----------------------------------------------------------------------------
\* Slip: the ping is compared with the wrong side of the limit.
FreshSlip(h, ping) == h.last + DropPings + 2 >= ping
Fresh(h, ping) == h.last + DropPings >= ping

\* discovery_service_drop_old_hosts.  The loop steps back after a removal,
\* except at index 0: the host that moves there is not looked at this time.
Stays(hs, k, ping) == Fresh(hs[k], ping) \/ (k = 2 /\ ~Fresh(hs[1], ping))
Swept(hs, ping) ==
  LET kept[k \in 0 .. Len(hs)] ==
        IF k = 0 THEN <<>>
        ELSE IF Stays(hs, k, ping) THEN Append(kept[k - 1], hs[k]) ELSE kept[k - 1]
  IN  kept[Len(hs)]

\* discovery_service_ping, up to the sending, on every timeout of the wait for the stop.
Pings ==
  /\ service = "running" /\ pings < MaxPings
  /\ pings' = pings + 1
  /\ hosts' = Swept(hosts, pings + 1)
  /\ reported' = IF Len(hosts') < Len(hosts) THEN View(hosts') ELSE reported
  /\ UNCHANGED service

\* discovery_service_host_received.
Known(id) == {i \in 1 .. Len(hosts) : hosts[i].id = id}
HostAnswers(id, state) ==
  LET h == [id |-> id, state |-> state, last |-> pings]
  IN /\ service # "stopped"
     /\ \/ \E i \in Known(id) : hosts' = [hosts EXCEPT ![i] = h]
        \/ Known(id) = {} /\ Len(hosts) < HostsMax /\ hosts' = Append(hosts, h)
     /\ reported' = IF View(hosts') # View(hosts) THEN View(hosts') ELSE reported
     /\ UNCHANGED <<pings, service>>

\* chiaki_discovery_service_fini; the service thread stops the discovery thread before it ends.
StopsDiscovery == service = "running" /\ service' = "stopping" /\ UNCHANGED <<hosts, pings, reported>>
DiscoveryEnds == service = "stopping" /\ service' = "stopped" /\ UNCHANGED <<hosts, pings, reported>>

DiscoveryNext ==
  \/ Pings
  \/ \E id \in HostIds, state \in HostStates : HostAnswers(id, state)
  \/ StopsDiscovery
  \/ DiscoveryEnds

DiscoverySpec == DiscoveryInit /\ [][DiscoveryNext]_discoveryVars

-----------------------------------------------------------------------------
\* A console that stopped answering leaves the list at the latest one ping
\* after its time, although every sweep skips the host that moves to the front.
StaleHostsLeave == \A i \in 1 .. Len(hosts) : hosts[i].last + DropPings + 1 >= pings
=============================================================================
