----------------------------- MODULE MCNetwork -----------------------------
(***************************************************************************)
(* The wireless client, the network page - its panels, and by themselves   *)
(* the three that run functions of the worker pool, the list of networks   *)
(* of one of these, and the one that sets the proxies - and the queries    *)
(* for addresses, each explored by itself: one behaviour is about one of   *)
(* them.                                                                   *)
(***************************************************************************)
EXTENDS Integers, Sequences

CONSTANTS Opener, Users, MaxCommands, ClientEvents, Free, Scans, ListEvents, Attempts,
  ConnectEvents, Profiles, MaxChanges, Ethernets, Wlans, None, Names, Proxies,
  Unnamed, Places

\* What `lock` holds when nobody has it is no thread, a null pointer is no device,
\* and there is a button for a network.
ASSUME NetworkAssumption ==
  /\ Free \notin {Opener} \cup Users /\ None \notin Ethernets \cup Wlans
  /\ Places \in Nat \ {0}

VARIABLES part,
  client, file, up, attached, polling, requests, wire, told, pc, count, lock, buffer,
  permits, answer,
  listClient, wifi, eventId, listening, listUpdating, scan, got, state, next, drawing,
  completed, listJobs, listTold, listCrashed, listLeft, missed,
  connClient, opening, conn, joined, spinner, listeners, attempt, parting, connCalls,
  trying, connJobs, connTold, connCrashed, connLeft,
  open, address, timer, onChanges, updating, reading, configuring, running, buttons,
  turning, calls, stored, copy, applied, crashed, left,
  links, has, changes, sock, dump, query, asked, table, info, broken, ever, always, vanished,
  front, hidden, dev, onBack, back, profiles, form, given, trail,
  env, fields, touched, wanted,
  results, bssid, airScan, draws, items, marked, focus, meant

\* An address of either interface, a route of two hops beside the default
\* routes that it could be mixed up with, and a gateway of either interface.
AddressOf(i, v) == [oif |-> i, to |-> 24, via |-> v, metric |-> -1, hops |-> <<>>]
RouteOf(i, t, v, m) == [oif |-> i, to |-> t, via |-> v, metric |-> m, hops |-> <<>>]
KernelTables == <<
  <<AddressOf("shown", "a"), AddressOf("other", "b")>>,
  <<AddressOf("shown", "c")>>,
  <<RouteOf("shown", 0, "none", -1),
    [RouteOf("none", 0, "none", 1) EXCEPT
       !.hops = <<[oif |-> "other", via |-> "g"], [oif |-> "shown", via |-> "h"]>>],
    RouteOf("shown", 24, "none", 2)>>,
  <<RouteOf("other", 0, "i", 1), RouteOf("shown", 0, "j", 2)>> >>

\* Two stations of one name, which may be the strongest or not, two more names,
\* and a station that hides its own.
Station(n, b, r) == [ssid |-> n, bssid |-> b, rssi |-> r]
MCStations == {Station("n", 1, 1), Station("n", 2, 2), Station("m", 3, 2),
  Station("o", 4, 1), Station(Unnamed, 5, 3)}

Client == INSTANCE WlanClient WITH MaxEvents <- ClientEvents
List == INSTANCE WlanList WITH MaxEvents <- ListEvents, client <- listClient,
  updating <- listUpdating, jobs <- listJobs, told <- listTold, crashed <- listCrashed,
  left <- listLeft
Conn == INSTANCE WlanConnect WITH MaxEvents <- ConnectEvents, client <- connClient,
  calls <- connCalls, jobs <- connJobs, told <- connTold, crashed <- connCrashed,
  left <- connLeft
Wired == INSTANCE EthernetPanel
Kernel == INSTANCE Netlink WITH Interfaces <- {"shown", "other"}, Shown <- "shown",
  Tables <- KernelTables
Page == INSTANCE NetworkPage
Proxy == INSTANCE ProxyPanel WITH Unset <- None
Air == INSTANCE ScanList WITH Stations <- MCStations, NoBssid <- 0, scan <- airScan

clientVars == <<client, file, up, attached, polling, requests, wire, told, pc, count, lock,
  buffer, permits, answer>>
listVars == <<listClient, wifi, eventId, listening, listUpdating, scan, got, state, next,
  drawing, completed, listJobs, listTold, listCrashed, listLeft, missed>>
connVars == <<connClient, opening, conn, joined, spinner, listeners, attempt, parting,
  connCalls, trying, connJobs, connTold, connCrashed, connLeft>>
wiredVars == <<open, address, timer, onChanges, updating, reading, configuring, running,
  buttons, turning, calls, stored, copy, applied, crashed, left>>
kernelVars == <<links, has, changes, sock, dump, query, asked, table, info, broken, ever,
  always, vanished>>
pageVars == <<front, hidden, dev, onBack, back, profiles, form, given, trail>>
proxyVars == <<env, fields, touched, wanted>>
airVars == <<results, bssid, airScan, draws, items, marked, focus, meant>>
lookVars == <<kernelVars, pageVars, proxyVars, airVars>>
vars == <<part, clientVars, listVars, connVars, wiredVars, lookVars>>

Init ==
  /\ part \in {"client", "list", "connect", "wired", "address", "panels", "proxy", "air"}
  /\ Client!Init /\ List!Init /\ Conn!Init /\ Wired!Init /\ Kernel!Init
  /\ Page!Init /\ Proxy!Init /\ Air!Init
  /\ part # "client" => up /\ file
  /\ part # "list" => completed
  /\ part # "address" => has = [q \in 1 .. 4 |-> {}]
  /\ part # "proxy" => env = [x \in Names \X {"capital", "small"} |-> None]

InClient(A) ==
  part = "client" /\ A /\ UNCHANGED <<part, listVars, connVars, wiredVars, lookVars>>
InList(A) ==
  part = "list" /\ A /\ UNCHANGED <<part, clientVars, connVars, wiredVars, lookVars>>
InConn(A) ==
  part = "connect" /\ A /\ UNCHANGED <<part, clientVars, listVars, wiredVars, lookVars>>
InWired(A) ==
  part = "wired" /\ A /\ UNCHANGED <<part, clientVars, listVars, connVars, lookVars>>
InKernel(A) ==
  /\ part = "address" /\ A
  /\ UNCHANGED <<part, clientVars, listVars, connVars, wiredVars, pageVars, proxyVars, airVars>>
InPage(A) ==
  /\ part = "panels" /\ A
  /\ UNCHANGED <<part, clientVars, listVars, connVars, wiredVars, kernelVars, proxyVars, airVars>>
InProxy(A) ==
  /\ part = "proxy" /\ A
  /\ UNCHANGED <<part, clientVars, listVars, connVars, wiredVars, kernelVars, pageVars, airVars>>
InAir(A) ==
  /\ part = "air" /\ A
  /\ UNCHANGED <<part, clientVars, listVars, connVars, wiredVars, kernelVars, pageVars,
       proxyVars>>

Next ==
  \/ InClient(Client!Next) \/ InList(List!Next) \/ InConn(Conn!Next)
  \/ InWired(Wired!Next) \/ InKernel(Kernel!Next)
  \/ InPage(Page!Next) \/ InProxy(Proxy!Next) \/ InAir(Air!Next)

Spec ==
  /\ Init /\ [][Next]_vars
  /\ \A t \in {Opener} \cup Users : WF_vars(InClient(Client!Exec(t)))
  /\ WF_vars(InClient(Client!ReadEvent)) /\ WF_vars(InClient(Client!Reply))
  /\ WF_vars(InConn(Conn!Pool)) /\ WF_vars(InConn(Conn!Ui))
  /\ WF_vars(InWired(Wired!Run)) /\ WF_vars(InWired(Wired!EnableButtons))
  /\ WF_vars(InKernel(Kernel!Look))

\* Replies are told apart by nothing but the order they come in: stated in
\* WlanClient.
RepliesAreOwn == Client!RepliesAreOwn

\* Nothing follows a null pointer in a panel that stays: stated in each panel.
SafeWhileOpen == List!SafeWhileOpen /\ Conn!SafeWhileOpen /\ Wired!SafeWhileOpen

\* The list shows what the supplicant says with the focus where the user put it,
\* and the page the panel that was asked for; what was typed for a device, and as
\* a proxy, is what is used: stated in WlanList, ScanList, NetworkPage and
\* ProxyPanel.
ShownIsCurrent ==
  /\ List!ShownIsCurrent /\ Air!FocusIsMeant
  /\ Page!FrontIsMeant /\ Page!ProfilesAreOwn /\ Proxy!SpellingsAgree

\* What a scan and the kernel's tables came to: each network once, the strongest
\* first, and the addresses and the gateways that the kernel has: stated in
\* ScanList and Netlink.
ReadIsTrue == Air!ListIsTrue /\ Kernel!LookIsTrue

\* A command ends, an attempt that heard its end gives the panel back, so does a
\* configuration, and a look at the addresses is over some day: stated in
\* WlanClient, WlanConnect, EthernetPanel and Netlink.
WaitsEnd ==
  /\ part = "client" => Client!CommandsEnd
  /\ part = "connect" => Conn!HeardEnds
  /\ part = "wired" => Wired!ButtonsReturn
  /\ part = "address" => Kernel!LookEnds
=============================================================================
