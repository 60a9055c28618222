----------------------------- MODULE ScanList -----------------------------
(***************************************************************************)
(* What the list of a wireless device shows (src/src/ui/network/wlan.cpp,  *)
(* src/src/network/wlan/client.cpp).  A scan reads the stations, asks      *)
(* LVGL's thread to draw them and only then reads the station the device   *)
(* is connected to; the list draws with whatever has been read by then.    *)
(* Its buttons are made once and are given other networks by every draw,   *)
(* so the focus is put back by the name of the network that had it.  When  *)
(* WlanList reads and draws at all is not looked at here.                  *)
(***************************************************************************)
EXTENDS Integers, FiniteSets, SequencesExt

CONSTANTS
  Stations,     \* what may be in the air: the name, bssid and rssi of each
  Unnamed,      \* the name of a station that hides its own
  NoBssid,      \* the device is not connected
  Places        \* the buttons, at least one: ssid_items.size()

VARIABLES
  results,      \* device_wifi::results
  bssid,        \* device_wifi::cur_bssid
  scan,         \* thread_scan: "idle", or "status" when cur_bssid is to be read
  draws,        \* update_scan_result waits for LVGL's thread
  items,        \* what the visible buttons show: [ssid, bssid, rssi, connected]
  marked,       \* history: cur_bssid at the last draw
  focus,        \* the button that has the focus, or 0 for another object
  meant         \* history: the name the user moved the focus to

vars == <<results, bssid, scan, draws, items, marked, focus, meant>>

Bssids == {s.bssid : s \in Stations}

Init ==
  /\ results = {} /\ bssid = NoBssid /\ scan = "idle" /\ draws = FALSE
  /\ items = <<>> /\ marked = NoBssid
  /\ focus = 0 /\ meant = Unnamed

-----------------------------------------------------------------------------
(* thread_scan, in the worker pool.                                        *)

\* scan_results: a line that ends with an empty name loses the tab before it
\* and has too few columns.
ScanResults(air) == {s \in air : s.ssid # Unnamed}

\* The supplicant names a station once.
ReadResults(air) ==
  /\ scan = "idle" /\ scan' = "status"
  /\ \A s, t \in air : s.bssid = t.bssid => s = t
  /\ results' = ScanResults(air) /\ draws' = TRUE
  /\ UNCHANGED <<bssid, items, marked, focus, meant>>

ReadStatus(b) ==
  /\ scan = "status" /\ scan' = "idle"
  /\ bssid' = b
  /\ UNCHANGED <<results, draws, items, marked, focus, meant>>

-----------------------------------------------------------------------------
(* LVGL's thread.                                                          *)

\* draw_result: the next button, for a name that none has yet.
DrawResult(list, s, connected) ==
  IF Len(list) = Places \/ \E i \in DOMAIN list : list[i].ssid = s.ssid THEN list
  ELSE Append(list, [ssid |-> s.ssid, bssid |-> s.bssid, rssi |-> s.rssi,
                     connected |-> connected])

\* The others, in the order of the list that was sorted.
DrawResults(list, o) == FoldLeft(LAMBDA drawn, s : DrawResult(drawn, s, FALSE), list, o)

\* Mutant: the results are drawn as the supplicant told them.
AsTold == SetToSeqs(results)

\* The strongest come first; std::sort may leave two that are equal as it likes.
Orders ==
  {o \in SetToSeqs(results) : \A i, j \in DOMAIN o : i < j => o[i].rssi >= o[j].rssi}

DrawFirst(T) == FoldSet(LAMBDA s, drawn : DrawResult(drawn, s, TRUE), <<>>, T)
Connected == DrawFirst({s \in results : s.bssid = bssid})

\* The button with that name, or 0: "rescan" has the focus.
Find(list, name) == SelectInSeq(list, LAMBDA x : x.ssid = name)

\* update_scan_result.
Draw ==
  /\ draws /\ draws' = FALSE
  /\ \E o \in Orders : items' = DrawResults(Connected, o)
  /\ focus' = IF focus = 0 THEN 0 ELSE Find(items', items[focus].ssid)
  /\ meant' = IF focus' = 0 THEN Unnamed ELSE meant
  /\ marked' = bssid
  /\ UNCHANGED <<results, bssid, scan>>

\* The keys move the focus to a button or away from the list; a press opens the
\* network of the button that has it.
Focus(i) ==
  /\ focus # i /\ focus' = i
  /\ meant' = IF i = 0 THEN Unnamed ELSE items[i].ssid
  /\ UNCHANGED <<results, bssid, scan, draws, items, marked>>

-----------------------------------------------------------------------------
Next ==
  \/ \E air \in SUBSET Stations : ReadResults(air)
  \/ \E b \in Bssids \cup {NoBssid} : ReadStatus(b)
  \/ Draw
  \/ \E i \in 0 .. Len(items) : Focus(i)

-----------------------------------------------------------------------------
(* What is checked.                                                        *)

\* The list shows each name once, with the strongest of its stations that is
\* not the connected one, and the strongest names when there are more of them
\* than buttons; the mark is on the station the device was connected to when the
\* list was drawn, which comes first, and on no other.
ListIsTrue == ~draws =>
  LET hears == \E s \in results : s.bssid = marked
      Above(i) == {items[j].ssid : j \in 1 .. i - 1}
  IN  /\ \A i \in DOMAIN items : items[i].ssid \notin Above(i)
      /\ \A i \in DOMAIN items :
           items[i].connected <=> i = 1 /\ hears /\ items[i].bssid = marked
      /\ hears => items[1].bssid = marked
      /\ \A i \in DOMAIN items : ~items[i].connected =>
           \A s \in results : s.ssid \notin Above(i) => s.rssi <= items[i].rssi
      /\ Len(items) < Places =>
           \A s \in results : \E i \in DOMAIN items : items[i].ssid = s.ssid

\* A key pressed on the list opens the network the user moved the focus to, or
\* nothing when it has gone: no draw puts another network under the focus.
FocusIsMeant == focus # 0 => focus <= Len(items) /\ items[focus].ssid = meant
=============================================================================
