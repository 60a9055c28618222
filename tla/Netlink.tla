------------------------------ MODULE Netlink ------------------------------
(***************************************************************************)
(* get_intf_address (src/src/network/netlink.cpp): the addresses and the   *)
(* gateways that the network panels show of an interface.  A function of   *)
(* the worker pool asks the kernel for four dumps, one after the other, on *)
(* one socket.  The kernel answers a request part by part, whenever a      *)
(* datagram is read, and the interfaces, addresses and routes change       *)
(* meanwhile.  Answers carry no number: what one query leaves unread, the  *)
(* next one takes for its own.                                             *)
(***************************************************************************)
EXTENDS Integers, Sequences, FiniteSets, SequencesExt

CONSTANTS
  Interfaces, Shown,  \* Shown is the interface of the panel
  Tables,             \* what the kernel may list, per query, in its order
  MaxChanges          \* bound: changes of the kernel's tables

\* A record of Tables[q]: `oif` its interface, `to` the length of the prefix of
\* its destination, `via` its address or gateway (NoAddress: none), `metric`
\* (-1: none) and `hops`, the interfaces and gateways of a multipath route.

VARIABLES
  links,     \* the interfaces that exist
  has,       \* per query: the positions of the table that are there
  changes,
  sock,      \* datagrams that wait in the socket, each a sequence of messages
  dump,      \* the dump the kernel has not finished: its query and position
  query,     \* 0: nothing asked; 1 to 4: the query; 5: the answers are drawn
  asked,     \* the query was sent
  table,     \* what it has collected so far
  info,      \* per query: what it came to
  broken,    \* a query ended by an exception
  ever, always,  \* positions of the query's table that were there at some
                 \* moment, and all the time, since it was sent
  vanished   \* an interface vanished since the first query

vars == <<links, has, changes, sock, dump, query, asked, table, info, broken, ever, always,
  vanished>>

kernel == <<links, has, changes, vanished>>
look == <<query, asked, table, info, broken>>

NoAddress == "none"
NoDump == [of |-> 0, at |-> 0]
Queries == 1 .. 4
Nothing == {}

Init ==
  /\ links = Interfaces /\ changes = 0
  /\ has \in [Queries -> {Nothing}] \cup {[q \in Queries |-> DOMAIN Tables[q]]}
  /\ sock = <<>> /\ dump = NoDump
  /\ query = 0 /\ asked = FALSE /\ table = <<>>
  /\ info = [q \in Queries |-> <<>>] /\ broken = FALSE
  /\ ever = Nothing /\ always = Nothing /\ vanished = FALSE

-----------------------------------------------------------------------------
(* The kernel.                                                             *)

Uses(e) == {e.oif} \cup {e.hops[i].oif : i \in DOMAIN e.hops}

\* An address or a route comes or goes.
Change(q, n) ==
  /\ changes < MaxChanges /\ changes' = changes + 1
  /\ n \in has[q] \/ Uses(Tables[q][n]) \subseteq links \cup {NoAddress}
  /\ has' = [has EXCEPT ![q] = IF n \in @ THEN @ \ {n} ELSE @ \cup {n}]
  /\ IF asked /\ q = query THEN ever' = ever \cup has'[q] /\ always' = always \cap has'[q]
     ELSE UNCHANGED <<ever, always>>
  /\ UNCHANGED <<links, vanished, sock, dump, look>>

\* An interface goes, with all that uses it.
Vanish(i) ==
  /\ i \in links /\ changes < MaxChanges /\ changes' = changes + 1
  /\ links' = links \ {i}
  /\ has' = [q \in Queries |-> {n \in has[q] : i \notin Uses(Tables[q][n])}]
  /\ always' = IF asked THEN always \cap has'[query] ELSE always
  /\ vanished' = TRUE
  /\ UNCHANGED <<sock, dump, look, ever>>

\* A part of a dump: some of the entries that are left, alone or with the end.
Fill(d) ==
  LET rest == {n \in has[d.of] : n >= d.at}
      Part(k) == [i \in 1 .. k |-> [type |-> "entry", of |-> d.of,
                    n |-> CHOOSE n \in rest : Cardinality({m \in rest : m < n}) = i - 1]]
      Done == [type |-> "done", of |-> d.of, n |-> 0]
  IN  IF rest = {} THEN {[gram |-> <<Done>>, left |-> NoDump]}
      ELSE {[gram |-> Append(Part(Cardinality(rest)), Done), left |-> NoDump]}
           \cup {[gram |-> Part(k), left |-> [of |-> d.of, at |-> Part(k)[k].n + 1]] :
                 k \in {1, Cardinality(rest)}}

-----------------------------------------------------------------------------
(* netlink_helper.                                                         *)

\* What a message adds to the table of the query that reads it.  Only its type
\* is looked at: a route of the other family is taken for one of this one,
\* with an address that is none.  Of a multipath route every hop is a route,
\* and the route itself only if it has a gateway too.
Address(e) == [oif |-> e.oif, to |-> e.to, via |-> e.via, metric |-> e.metric]
Hops(e) == [i \in DOMAIN e.hops |->
  [Address(e) EXCEPT !.oif = e.hops[i].oif, !.via = e.hops[i].via]]
Routes(e) ==
  IF e.hops # <<>> /\ e.via = NoAddress THEN Hops(e) ELSE Append(Hops(e), Address(e))
Mangled(r) == [r EXCEPT !.via = IF @ = NoAddress THEN @ ELSE "mangled"]

IsRoute(q) == q > 2
Added(q, m) ==
  LET e == Tables[m.of][m.n]
      routes == Routes(e)
  IN  IF m.type # "entry" \/ IsRoute(m.of) # IsRoute(q) THEN <<>>
      ELSE IF ~IsRoute(q) THEN (IF e.oif = Shown THEN <<Address(e)>> ELSE <<>>)
      ELSE IF m.of = q THEN routes
      ELSE [i \in DOMAIN routes |-> Mangled(routes[i])]

\* ifindex_to_name of an interface that is gone.
Throws(q, m) ==
  \/ m.type = "error"
  \/ m.type = "entry" /\ IsRoute(m.of) /\ IsRoute(q)
     /\ ~(Uses(Tables[m.of][m.n]) \subseteq links \cup {NoAddress})

\* process_netlink, one datagram: up to the first message that ends it.
Ends(q, m) == m.type = "done" \/ Throws(q, m)
Stop(q, gram) == SelectInSeq(gram, LAMBDA m : Ends(q, m))
Read(q, messages) == FoldLeft(LAMBDA all, m : all \o Added(q, m), <<>>, messages)
Collected(q, gram) ==
  Read(q, IF Stop(q, gram) = 0 THEN gram ELSE SubSeq(gram, 1, Stop(q, gram) - 1))

\* ipv4_route_table::by_ifname and find: the longest prefix, then the smallest
\* metric; once a route without a metric is the best, none of its length
\* replaces it.
ByIfname(t) == FoldLeft(LAMBDA own, r : IF r.oif = Shown THEN Append(own, r) ELSE own, <<>>, t)
Limit == 1000
Metric(r) == IF r.metric < 0 THEN Limit ELSE r.metric
Better(best, r) ==
  IF r.to = 0 /\ (best = <<>> \/ Metric(r) < best[1].metric) THEN <<r>> ELSE best
Find(t) == FoldLeft(Better, <<>>, t)

\* get_intf_address begins, with a new socket.
Begin ==
  /\ query = 0 /\ query' = 1
  /\ info' = [q \in Queries |-> <<>>] /\ broken' = FALSE /\ vanished' = FALSE
  /\ UNCHANGED <<links, has, changes, sock, dump, asked, table, ever, always>>

\* The queries for addresses look for the interface first, and send nothing
\* when it is gone.
Skip ==
  /\ query \in Queries /\ ~asked /\ ~IsRoute(query) /\ Shown \notin links
  /\ query' = query + 1 /\ ever' = Nothing /\ always' = Nothing
  /\ UNCHANGED <<kernel, sock, dump, asked, table, info, broken>>

\* The kernel refuses a second dump while one is not finished.
Ask ==
  /\ query \in Queries /\ ~asked /\ (IsRoute(query) \/ Shown \in links)
  /\ asked' = TRUE /\ table' = <<>>
  /\ ever' = has[query] /\ always' = has[query]
  /\ IF dump # NoDump
     THEN sock' = Append(sock, <<[type |-> "error", of |-> query, n |-> 0]>>)
          /\ UNCHANGED dump
     ELSE \E p \in Fill([of |-> query, at |-> 1]) :
            sock' = Append(sock, p.gram) /\ dump' = p.left
  /\ UNCHANGED <<kernel, query, info, broken>>

\* xrecv, which makes the kernel go on, and the messages of the datagram.  (`all` is
\* bound by a quantifier so that it is computed once.)
Receive ==
  /\ asked /\ sock # <<>>
  /\ IF dump = NoDump THEN sock' = Tail(sock) /\ UNCHANGED dump
     ELSE \E p \in Fill(dump) : sock' = Append(Tail(sock), p.gram) /\ dump' = p.left
  /\ LET gram == Head(sock)
         stop == Stop(query, gram)
     IN  \E all \in {table \o Collected(query, gram)} :
         IF stop = 0 THEN table' = all /\ UNCHANGED <<query, asked, info, broken>>
         ELSE /\ query' = query + 1 /\ asked' = FALSE /\ table' = <<>>
              /\ IF Throws(query, gram[stop]) THEN broken' = TRUE /\ UNCHANGED info
                 ELSE /\ info' = [info EXCEPT ![query] =
                           IF IsRoute(query) THEN ByIfname(all) ELSE all]
                      /\ UNCHANGED broken
  /\ UNCHANGED <<kernel, ever, always>>

\* The socket is closed, and the panel draws what was found.
Draw ==
  /\ query = 5 /\ query' = 0
  /\ sock' = <<>> /\ dump' = NoDump
  /\ UNCHANGED <<kernel, asked, table, info, broken, ever, always>>

Look == Skip \/ Ask \/ Receive \/ Draw

Next ==
  \/ Look \/ Begin
  \/ \E q \in Queries : \E n \in DOMAIN Tables[q] : Change(q, n)
  \/ \E i \in Interfaces : Vanish(i)

Spec == Init /\ [][Next]_vars /\ WF_vars(Look)

-----------------------------------------------------------------------------
(* What is checked.                                                        *)

Own(q, S) == UNION {{r \in ToSet(Added(q, [type |-> "entry", of |-> q, n |-> n])) :
                       r.oif = Shown} : n \in S}

\* Of the interface, and of no other, the panel learns every address and route
\* that was there all the time the kernel was asked for it, and none that was
\* not there at any moment of it; and the gateway is the one of the route that
\* the kernel prefers.  Only an exception may spoil it, and only an interface
\* that vanished meanwhile raises one.
LookIsTrue ==
  /\ broken => vanished
  /\ query > 1 /\ ~asked /\ ~broken =>
       LET q == query - 1
           found == ToSet(info[q])
       IN  /\ Own(q, always) \subseteq found /\ found \subseteq Own(q, ever)
           /\ IsRoute(q) => \A r \in found :
                r.to = 0 => Find(info[q]) # <<>> /\ Find(info[q])[1].metric <= r.metric

\* A look ends: the answers that another query left behind never leave it
\* waiting for more.
LookEnds == query = 1 ~> query = 0
=============================================================================
