------------------------------ MODULE ProxyPanel ------------------------------
(***************************************************************************)
(* The panel that sets the proxies (src/src/ui/network/proxy.cpp): five    *)
(* text fields and five pairs of environment variables, each in capital    *)
(* and in small letters.  Nothing calls reload: the fields of a new page   *)
(* are empty whatever the environment says.                                *)
(***************************************************************************)
CONSTANTS Names,     \* ALL_PROXY, HTTP_PROXY, ...
          Proxies,   \* what may be typed
          Unset

VARIABLES env,       \* both spellings of every variable
          fields,    \* the text fields
          touched, wanted    \* the page changed them; what was applied last

vars == <<env, fields, touched, wanted>>
Spellings == {"capital", "small"}
Nothing == [n \in Names |-> Unset]

\* The environment is the one the program was started with.
Init ==
  /\ env \in [Names \X Spellings -> Proxies \cup {Unset}]
  /\ fields = Nothing /\ touched = FALSE /\ wanted = Nothing

Type(n, v) == fields' = [fields EXCEPT ![n] = v] /\ UNCHANGED <<env, touched, wanted>>

Clear ==
  /\ env' = [x \in Names \X Spellings |-> Unset]
  /\ touched' = TRUE /\ wanted' = Nothing /\ UNCHANGED fields

\* All are cleared, and those that are not empty set again.
Applied == [x \in Names \X Spellings |-> fields[x[1]]]

Apply ==
  /\ env' = Applied
  /\ touched' = TRUE /\ wanted' = fields /\ UNCHANGED fields

\* The page is left and drawn again.
Draw == fields' = Nothing /\ UNCHANGED <<env, touched, wanted>>

Next == Clear \/ Apply \/ Draw \/ \E n \in Names, v \in Proxies \cup {Unset} : Type(n, v)

-----------------------------------------------------------------------------
\* After the page has changed anything, a program finds the same proxy under
\* both spellings, the one that was applied last, and none from before.
SpellingsAgree == touched => env = [x \in Names \X Spellings |-> wanted[x[1]]]
=============================================================================
