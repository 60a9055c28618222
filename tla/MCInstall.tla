----------------------------- MODULE MCInstall -----------------------------
(***************************************************************************)
(* An installation on the device: flashers, one after or beside the other, *)
(* the progress page that runs one, and the URLs on the way to the image.  *)
(* The page's flasher is what the page sees of it, an exit status and      *)
(* output; so one behaviour looks at one of the programs, or at the URLs   *)
(* that the two hand on.                                                   *)
(***************************************************************************)
EXTENDS Naturals, Sequences

CONSTANTS Programs,          \* the programs looked at
          Flashers, Nobody,  \* see Flasher
          MaxStatus,         \* see ProgressPage
          Manifests, Refs, FileRefs  \* see Url

ASSUME InstallAssumption == Nobody \notin Flashers /\ MaxStatus \in Nat

VARIABLES program,
  pc, owner, group, folder, mounted, netblk, out, object, script, inside, child, termed, heard, held,
  state, shown, process, result, pid, output, lines, pipe, thread, then, verdict, stop, sem, calls,
  timer, ui, page, cutoff,
  stage, u, sent, meant

Flash == INSTANCE Flasher

\* The page's process is its flasher, its thread the one that reads what the
\* flasher says.
Page == INSTANCE ProgressPage
  WITH child <- process, out <- output, written <- lines, pc <- thread

\* The documents that lead to an image, and the text that the page hands to the flasher.
Chain == INSTANCE Url

\* Texts are texts; and a manifest whose path can be followed name by name has no dots
\* for names, keeps its user out of the host, and has a scheme or a path only.
ASSUME ChainAssumption ==
  /\ \A r \in Manifests \cup Refs \cup FileRefs : r \in Seq(STRING)
  /\ \A m \in Manifests :
       LET v == Chain!Parse(m)
       IN  Chain!Plain(v.path) =>
             /\ \A i \in DOMAIN Chain!Parts(v.path) : Chain!Parts(v.path)[i] \notin {<<".">>, <<"..">>}
             /\ ~Chain!Has(v.host, {"@"})
             /\ v.scheme = <<>> =>
                  v.username = <<>> /\ v.host = <<>> /\ v.port = Chain!NoPort

flashVars == <<pc, owner, group, folder, mounted, netblk, out, object, script, inside, child,
  termed, heard, held>>
pageVars == <<state, shown, process, result, pid, output, lines, pipe, thread, then, verdict,
  stop, sem, calls, timer, ui, page, cutoff>>
urlVars == <<stage, u, sent, meant>>
installVars == <<program, flashVars, pageVars, urlVars>>

NoUrl == stage = "none" /\ u = Chain!Empty /\ sent = Chain!Empty /\ meant = <<>>

InstallInit ==
  /\ program \in Programs /\ Flash!Init /\ Page!Init
  /\ IF program = "urls" THEN Chain!Init ELSE NoUrl

OfFlashers(A) == program = "flasher" /\ A /\ UNCHANGED <<program, pageVars, urlVars>>
OfPage(A) == program = "page" /\ A /\ UNCHANGED <<program, flashVars, urlVars>>
OfUrls(A) == program = "urls" /\ A /\ UNCHANGED <<program, flashVars, pageVars>>

InstallNext == OfFlashers(Flash!Next) \/ OfPage(Page!Next) \/ OfUrls(Chain!Next)

\* Each program with its own fairness; of the URLs nothing need come.
InstallSpec ==
  /\ InstallInit /\ [][InstallNext]_installVars
  /\ \A f \in Flashers :
       /\ WF_flashVars(OfFlashers(Flash!SetUp(f) \/ Flash!CleanUp(f)))
       /\ WF_flashVars(OfFlashers(Flash!Terminated(f)))
  /\ WF_pageVars(OfPage(Page!Thread)) /\ WF_pageVars(OfPage(Page!Lvgl))
-----------------------------------------------------------------------------
\* Texts that are short, with and without what a URL may have.  Two dots side by side
\* would be another token.
Https == <<"w", ":", "/", "/">>
Servers == {<<"w">>, <<"x", "@", "w", ":", "80">>, <<"w", ":", "x", "@", "[", "w", ":", "x", "]">>}
MCManifests == {Https \o s \o p : s \in Servers,
    p \in {<<"/", "x", "/", "%?", "/", "w">>, <<"/", "w", "?", "x">>}}
  \cup {Https \o <<"w">>, <<"/", "x", "/", "w">>, Https \o <<"[", "w">>, Https \o <<"w", ":", "w">>}
Texts(T, n) == UNION {[1 .. k -> T] : k \in 0 .. n}
MCRefs == {r \in Texts({"w", "/", ".."}, 3) \cup Texts({"w", "/", ".", "%20", "%?"}, 2) :
    \A i \in 1 .. Len(r) - 1 : {r[i], r[i + 1]} \subseteq {".", ".."} => FALSE}
  \cup {Https \o <<"x", "@">>, <<"?", "x">>, <<"#", "w">>}
MCFileRefs == {<<>>, <<"w">>, <<"/", "x">>, <<"..", "/", "w">>, <<"%%">>, <<"x", "+">>}

-----------------------------------------------------------------------------
\* The properties of the programs and the URLs, stated in their modules.

\* Only the holder of the lock has anything set up.
LockCoversWork == Flash!LockCoversWork

\* The image is mounted and served while the script may use it.
ImageServed == Flash!ImageServed

\* No step of a flasher ends what another runs.
OthersUntouched == Flash!OthersUntouched

\* A flasher that was told to stop ends.
CancelEnds == Flash!CancelEnds

\* Success is shown for a process that exited with 0 only.
SuccessIsReal == Page!SuccessIsReal

\* No call of LVGL's thread finds a page that was freed.
CallsFindPage == Page!CallsFindPage

\* A cancelled installation is never shown as a success.
CancelIsFinal == Page!CancelIsFinal

\* A click is answered, and the page of a flasher that ended shows an end.
PageEnds == Page!PageEnds

\* Every document that is asked for is the one that is meant.
DocumentsAreMeant == Chain!DocumentsAreMeant
=============================================================================
