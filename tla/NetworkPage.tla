----------------------------- MODULE NetworkPage -----------------------------
(***************************************************************************)
(* The network page (src/src/ui/network): six panels of which one is in    *)
(* front, and the panel of a device's addresses, which edits the profile   *)
(* that dhcpcd is given.  Showing a panel hides the others, hiding the     *)
(* panel of a device makes it forget the device, and what the panels that  *)
(* lead back know of where they were opened from is all there is of a      *)
(* history.  LVGL's thread does all of this.                               *)
(***************************************************************************)
EXTENDS SequencesExt

CONSTANTS Ethernets, Wlans,   \* the devices of the menu
          None               \* nullptr

VARIABLES
  front,       \* net->current
  hidden,      \* the panels that are hidden
  dev,         \* the `current` of the panels that are about a device
  onBack,      \* where the address panel's Back leads: a panel and a device
  back,        \* btn_back is enabled
  profiles,    \* of each device, with what was typed for it
  form,        \* the widgets of the address panel
  given,       \* the device configured last and what dhcpcd and resolv.conf got
  trail        \* the panels and devices from the menu to the one in front

vars == <<front, hidden, dev, onBack, back, profiles, form, given, trail>>
where == <<front, hidden, dev, onBack, back>>

Devices == Ethernets \cup Wlans
DevicePanels == {"wifi", "connect", "ipconfig", "eth"}
Panels == DevicePanels \cup {"hello", "proxy"}

\* What is typed is known by the device it was typed for: an address text is
\* empty, <<d>> without a prefix, which is no address, or <<d, "/">>.
Default == [mode |-> "dhcp", addr |-> <<>>, dns |-> None, autodns |-> TRUE]

-----------------------------------------------------------------------------
(* The panels.                                                             *)

Hides(p) == hidden' = Panels \ {p}

\* hide is virtual: switch_to(nullptr).
Forgets(p, d) == dev' = [q \in DevicePanels |-> IF q = p THEN d ELSE None]

HaveBack(p) == p = "connect" \/ (p = "ipconfig" /\ onBack' # <<>>)

Show(p, d, b) ==
  /\ front' = p /\ Hides(p) /\ Forgets(p, d)
  /\ onBack' = b /\ back' = HaveBack(p)

\* ui_network_panel_device::switch_to, which does nothing for the same device.
SwitchTo(p, d) == IF dev[p] = d THEN UNCHANGED where ELSE Show(p, d, <<>>)

\* What reload and update_status show of a profile: the address without its
\* prefix, the switch off for a static address.
Shown(p) == [mode |-> p.mode, addr |-> p.addr, dns |-> p.dns,
             auto |-> p.autodns /\ p.mode # "static"]

Init ==
  /\ front = "hello" /\ hidden = Panels \ {"hello"}
  /\ dev = [q \in DevicePanels |-> None] /\ onBack = <<>> /\ back = FALSE
  /\ profiles = [d \in Devices |-> Default] /\ form = Shown(Default)
  /\ given = <<>> /\ trail = <<>>

-----------------------------------------------------------------------------
(* The menu and the ways from one panel to the next.                       *)

PressWired(d) ==
  /\ SwitchTo("eth", d) /\ trail' = << <<"eth", d>> >>
  /\ UNCHANGED <<profiles, form, given>>

PressWireless(d) ==
  /\ SwitchTo("wifi", d) /\ trail' = << <<"wifi", d>> >>
  /\ UNCHANGED <<profiles, form, given>>

PressProxy ==
  /\ Show("proxy", None, <<>>) /\ trail' = << <<"proxy", None>> >>
  /\ UNCHANGED <<profiles, form, given>>

\* An entry of the list, or a hidden network: always a new entry.
PickNetwork ==
  /\ front = "wifi" /\ dev["wifi"] # None
  /\ Show("connect", dev["wifi"], <<>>)
  /\ trail' = Append(trail, <<"connect", dev["wifi"]>>)
  /\ UNCHANGED <<profiles, form, given>>

\* btn_ipconfig_clicked of the wired panel and of the one that connects; the
\* address panel's switch_to reloads it.
OpenAddress ==
  /\ front \in {"eth", "connect"} /\ dev[front] # None
  /\ Show("ipconfig", dev[front], <<front, dev[front]>>)
  /\ form' = Shown(profiles[dev[front]])
  /\ trail' = Append(trail, <<"ipconfig", dev[front]>>)
  /\ UNCHANGED <<profiles, given>>

Back ==
  /\ back /\ trail' = Front(trail)
  /\ \/ front = "connect" /\ SwitchTo("wifi", dev["connect"])
     \/ front = "ipconfig" /\ SwitchTo(onBack[1], onBack[2])
  /\ UNCHANGED <<profiles, form, given>>

\* Skip, or Next where the device is up: the page goes, and its profiles with it;
\* another one comes later.
LeavePage ==
  /\ front' = "hello" /\ hidden' = Panels \ {"hello"}
  /\ dev' = [q \in DevicePanels |-> None] /\ onBack' = <<>> /\ back' = FALSE
  /\ profiles' = [d \in Devices |-> Default] /\ form' = Shown(Default)
  /\ trail' = <<>> /\ UNCHANGED given

-----------------------------------------------------------------------------
(* The address panel.                                                      *)

Device == dev["ipconfig"]
Typed == front = "ipconfig" /\ UNCHANGED <<where, profiles, given, trail>>

\* update_status shows and enables the fields that the mode needs.
PickMode(m) ==
  Typed /\ form' = [form EXCEPT !.mode = m, !.auto = form.auto /\ m # "static"]
TypeAddress(t) == Typed /\ form.mode = "static" /\ form' = [form EXCEPT !.addr = t]
PressAuto == Typed /\ form.mode = "dhcp" /\ form' = [form EXCEPT !.auto = ~form.auto]
TypeDns(s) ==
  Typed /\ form.mode # "disabled" /\ ~form.auto /\ form' = [form EXCEPT !.dns = s]

\* Reset clears a copy of the profile and reloads the one it is a copy of.
Reload == Typed /\ form' = Shown(profiles[Device])

\* What the form says: the addresses are cleared and read again for the modes
\* that have them; the switch is taken for its opposite.
Read ==
  [mode |-> form.mode,
   addr |-> IF form.mode = "static" /\ form.addr # <<>> THEN <<form.addr[1]>> ELSE <<>>,
   autodns |-> form.mode = "disabled" \/ ~form.auto,
   dns |-> IF form.mode # "disabled" /\ form.auto THEN form.dns ELSE None]

\* An address without a prefix is refused.  The panels that would be told are
\* hidden: they listen no more.
Apply ==
  /\ front = "ipconfig"
  /\ ~(form.mode = "static" /\ Len(form.addr) = 1)
  /\ profiles' = [profiles EXCEPT ![Device] = Read]
  /\ UNCHANGED <<where, form, given, trail>>

-----------------------------------------------------------------------------
(* ipconfig_profile::configure: what dhcpcd is told, and whether            *)
(* resolv.conf is written.                                                 *)

GenConfig(d, profile) ==
  [device |-> d,
   ipv4 |-> profile.mode # "disabled",
   dhcp |-> profile.mode = "dhcp",
   static |-> IF profile.mode = "static" THEN profile.addr ELSE <<>>,
   nohook |-> ~profile.autodns,
   nameserver |-> IF profile.autodns THEN None ELSE profile.dns]

\* Reconfigure of the wired panel takes its device's profile.  The wireless device,
\* once connected, takes the one of the network, which no panel edits, unless it
\* is the device's own: the network is called "default".
Configure(p) ==
  /\ front = p /\ dev[p] # None
  /\ \E profile \in {profiles[dev[p]]} \cup (IF p = "connect" THEN {Default} ELSE {}) :
       given' = <<GenConfig(dev[p], profile)>>
  /\ UNCHANGED <<where, profiles, form, trail>>

-----------------------------------------------------------------------------
Next ==
  \/ \E d \in Ethernets : PressWired(d)
  \/ \E d \in Wlans : PressWireless(d)
  \/ PressProxy \/ PickNetwork \/ OpenAddress \/ Back \/ LeavePage
  \/ \E m \in {"dhcp", "static", "disabled"} : PickMode(m)
  \/ \E t \in {<<>>, <<Device>>, <<Device, "/">>} : TypeAddress(t)
  \/ \E s \in {None, Device} : TypeDns(s)
  \/ PressAuto \/ Reload \/ Apply
  \/ \E p \in {"eth", "connect"} : Configure(p)

-----------------------------------------------------------------------------
(* What is checked.                                                        *)

\* The panel in front is the one the user went to, about the device it was
\* opened for, whichever way it was reached; no other panel is seen or still
\* has a device, and Back is there where there is a way back.
FrontIsMeant ==
  /\ hidden = Panels \ {front}
  /\ \A q \in DevicePanels : dev[q] # None => q = front
  /\ IF trail = <<>> THEN front = "hello"
     ELSE /\ front = Last(trail)[1]
          /\ front \in DevicePanels => dev[front] = Last(trail)[2]
  /\ back <=> Len(trail) > 1

\* A device is configured with nothing that was typed for another one, has a
\* static address only in the static mode and name servers only where dhcpcd
\* leaves resolv.conf alone.
ProfilesAreOwn ==
  /\ \A d \in Devices :
       /\ profiles[d].addr \in {<<>>, <<d>>} /\ profiles[d].dns \in {None, d}
       /\ profiles[d].addr # <<>> => profiles[d].mode = "static"
       /\ profiles[d].dns # None => ~profiles[d].autodns /\ profiles[d].mode # "disabled"
  /\ \A i \in 1 .. Len(given) :
       /\ given[i].static \in {<<>>, <<given[i].device>>}
       /\ given[i].nameserver \in {None, given[i].device}
       /\ given[i].nameserver # None => given[i].nohook /\ given[i].ipv4
=============================================================================
