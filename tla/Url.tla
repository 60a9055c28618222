-------------------------------- MODULE Url --------------------------------
(***************************************************************************)
(* URLs (src/src/lib/url) and the chain of them that leads to an image:    *)
(* the manifest of the configuration names the list of devices, a device   *)
(* its list of images (choose_image/load.cpp), whose URL is handed as text *)
(* to the flasher, which finds the image relative to it                    *)
(* (flasher/netblk.cpp).  A text is a sequence of tokens: delimiters,      *)
(* words, a number, and the codes of single characters.  No word begins    *)
(* with two hexadecimal digits, and no two dots stand side by side.        *)
(***************************************************************************)
EXTENDS Integers, Sequences, SequencesExt

CONSTANTS Manifests,  \* what the configuration says
          Refs,       \* what manifest and device say
          FileRefs    \* what an image says

VARIABLES stage,  \* whose URL it is, or "threw"
          u,      \* the url object
          sent,   \* history: the url object whose text was handed to the flasher
          meant   \* history: the path that is meant, or <<>>: not followed

vars == <<stage, u, sent, meant>>

Number == "80"
Chars == <<":", "/", "?", "#", "@", "[", "]", "%", "+", "space">>
Codes == <<"%:", "%/", "%?", "%#", "%@", "%[", "%]", "%%", "%+", "%20">>

Has(s, C) == \E i \in DOMAIN s : s[i] \in C
First(s, C) == SelectInSeq(s, LAMBDA c : c \in C)
Starts(s, c) == s # <<>> /\ s[1] = c
From(s, i) == SubSeq(s, i, Len(s))

\* set_...(val, len): a length of zero stands for the rest of the text.
Part(s, len) == IF len = 0 THEN s ELSE SubSeq(s, 1, len)
\* What comes before the delimiter at c, if there is one
Till(s, c) == IF c = 0 THEN s ELSE Part(s, c - 1)
After(s, c) == IF c = 0 THEN <<>> ELSE From(s, c)

\* url::encode: letters, digits and -_.* stay, and what is to be skipped.
Encode(s, skip) == [i \in DOMAIN s |-> IF s[i] \in skip \/ ~Contains(Chars, s[i])
  THEN s[i] ELSE Codes[First(Chars, {s[i]})]]

\* url::decode: a percent sign without two digits after it throws.
Decodes(s) == ~Has(s, {"%"})
Decode(s) == [i \in DOMAIN s |->
  IF s[i] = "+" THEN "space"
  ELSE IF Contains(Codes, s[i]) THEN Chars[First(Codes, {s[i]})] ELSE s[i]]

NoPort == <<>>
Empty == [scheme |-> <<>>, username |-> <<>>, password |-> <<>>, host |-> <<>>,
          port |-> NoPort, path |-> <<>>, query |-> <<>>, fragment |-> <<>>]
Threw == [Empty EXCEPT !.port = <<"threw">>]

-----------------------------------------------------------------------------
\* url::parse, part by part; each names the text that is left for the next.

AuthorityAt(s) == \E i \in 1 .. Len(s) - 2 : SubSeq(s, i, i + 2) = <<":", "/", "/">>
SchemeEnd(s) == CHOOSE i \in 1 .. Len(s) - 2 : SubSeq(s, i, i + 2) = <<":", "/", "/">>
  /\ \A j \in 1 .. i - 1 : SubSeq(s, j, j + 2) # <<":", "/", "/">>

\* The scheme is what comes before the first "://", wherever that is.
ParseScheme(s) ==
  IF AuthorityAt(s) THEN [val |-> SubSeq(s, 1, SchemeEnd(s) - 1), rest |-> From(s, SchemeEnd(s) + 3)]
  ELSE [val |-> <<>>, rest |-> s]

ParseUserInfo(s) ==
  LET c == First(s, {"@", "/"})
      colon == First(SubSeq(s, 1, c - 1), {":"})
  IN  CASE c = 0 \/ s[c] # "@" -> [name |-> <<>>, word |-> <<>>, rest |-> s]
        [] c # 0 /\ s[c] = "@" /\ colon = 0 ->
             [name |-> Part(s, c - 1), word |-> <<>>, rest |-> From(s, c + 1)]
        [] OTHER -> [name |-> Part(s, colon - 1),
             word |-> Part(From(s, colon + 1), c - colon - 1), rest |-> From(s, c + 1)]

ParseHost(s) ==
  LET close == First(s, {"]"})
      c == First(s, {":", "/", "?", "#"})
  IN  CASE Starts(s, "[") -> [ok |-> close # 0, val |-> Part(From(s, 2), close - 2),
             rest |-> From(s, close + 1)]
        [] s # <<>> /\ c = 1 -> [ok |-> TRUE, val |-> <<>>, rest |-> s]
        [] OTHER -> [ok |-> TRUE, val |-> Till(s, c), rest |-> After(s, c)]

\* std::stoi takes a number and nothing else.
ParsePort(s) ==
  LET q == From(s, 2)
      c == First(q, {"/", "?", "#"})
  IN  IF ~Starts(s, ":") THEN [ok |-> TRUE, val |-> NoPort, rest |-> s]
      ELSE [ok |-> Till(q, c) = <<Number>>, val |-> Till(q, c), rest |-> After(q, c)]

ParsePath(s) ==
  LET c == First(s, {"?", "#"})
  IN  IF ~Starts(s, "/") THEN [val |-> <<>>, rest |-> s]
      ELSE [val |-> Till(s, c), rest |-> After(s, c)]

ParseQuery(s) ==
  LET q == From(s, 2)
      c == First(q, {"#"})
  IN  IF ~Starts(s, "?") THEN [val |-> <<>>, rest |-> s]
      ELSE [val |-> Till(q, c), rest |-> After(q, c)]

Parse(s) ==
  LET scheme == ParseScheme(s)
      user == ParseUserInfo(scheme.rest)
      host == ParseHost(user.rest)
      port == ParsePort(host.rest)
      path == ParsePath(port.rest)
      query == ParseQuery(path.rest)
  IN  CASE s = <<>> -> Empty
        [] s # <<>> /\ (~host.ok \/ ~port.ok \/ \E t \in {user.name, user.word, host.val, path.val} : ~Decodes(t)) -> Threw
        [] OTHER -> [scheme |-> scheme.val, username |-> Decode(user.name),
             password |-> Decode(user.word), host |-> Decode(host.val), port |-> port.val,
             path |-> Decode(path.val), query |-> query.val,
             fragment |-> IF Starts(query.rest, "#") THEN From(query.rest, 2) ELSE <<>>]

-----------------------------------------------------------------------------
\* url::append_all and what it calls.

AppendScheme(v) == (IF v.scheme = <<>> THEN <<>> ELSE Append(v.scheme, ":")) \o <<"/", "/">>
AppendUserInfo(v) ==
  LET info == Encode(v.username, {}) \o
        (IF v.password = <<>> THEN <<>> ELSE <<":">> \o Encode(v.password, {}))
  IN  IF info = <<>> THEN <<>> ELSE Append(info, "@")
AppendHost(v) ==
  IF Has(v.host, {"[", "]", "#", "?", "%"}) THEN Encode(v.host, {})
  ELSE IF Has(v.host, {":", "/", "@"}) THEN <<"[">> \o v.host \o <<"]">>
  ELSE v.host
AppendPort(v) == IF v.port = NoPort THEN <<>> ELSE <<":">> \o v.port
AppendPath(v) == (IF Starts(v.path, "/") THEN <<>> ELSE <<"/">>) \o Encode(v.path, {"/"})
AppendQuery(v) == IF v.query = <<>> THEN <<>> ELSE <<"?">> \o v.query
AppendFragment(v) == IF v.fragment = <<>> THEN <<>> ELSE <<"#">> \o v.fragment

Text(v) == AppendScheme(v) \o AppendUserInfo(v) \o AppendHost(v) \o AppendPort(v)
  \o AppendPath(v) \o AppendQuery(v) \o AppendFragment(v)

-----------------------------------------------------------------------------
\* url::relative.

\* The parts between slashes, the empty ones left out
Put(parts, p) == IF p = <<>> THEN parts ELSE Append(parts, p)
Cut(s) ==
  LET cut[i \in 0 .. Len(s)] ==  \* after i tokens: the parts, and the one that has begun
        IF i = 0 THEN [parts |-> <<>>, begun |-> <<>>]
        ELSE IF s[i] = "/" THEN [parts |-> Put(cut[i - 1].parts, cut[i - 1].begun), begun |-> <<>>]
        ELSE [cut[i - 1] EXCEPT !.begun = Append(@, s[i])]
  IN  cut[Len(s)]
Parts(s) == Put(Cut(s).parts, Cut(s).begun)

Up(stack) == IF stack = <<>> THEN stack ELSE Front(stack)
\* Mutant: a step up at the top is kept.
ResolveKeeps(stack, p) ==
  CASE p = <<"..">> /\ stack # <<>> -> Front(stack)
    [] p = <<".">> -> stack
    [] OTHER -> Append(stack, p)
Resolve(stack, p) ==
  CASE p = <<"..">> -> Up(stack)
    [] p = <<".">> -> stack
    [] OTHER -> Append(stack, p)
Resolved(parts) ==
  LET stack[i \in 0 .. Len(parts)] ==
        IF i = 0 THEN <<>> ELSE Resolve(stack[i - 1], parts[i])
  IN  stack[Len(parts)]

Join(parts) ==
  LET text[i \in 0 .. Len(parts)] ==
        IF i = 0 THEN <<>> ELSE Append(text[i - 1], "/") \o parts[i]
  IN  text[Len(parts)]

NewPath(v, r) ==
  LET last == SelectLastInSeq(v.path, LAMBDA c : c = "/")
  IN  CASE Starts(r, "/") -> r
        [] ~Starts(r, "/") /\ v.path = <<>> -> <<"/">> \o r
        [] OTHER -> (IF last = 0 THEN v.path ELSE SubSeq(v.path, 1, last)) \o r

\* The path is decoded, though the part that comes from the base has been already.
Relative(v, r) ==
  LET new == NewPath(v, r)
      dir == Join(Resolved(Parts(new)))
      whole == IF dir = <<>> THEN <<"/">>
               ELSE IF Last(new) = "/" THEN Append(dir, "/") ELSE dir
  IN  CASE AuthorityAt(r) -> Parse(r)
        [] ~AuthorityAt(r) /\ Starts(r, "?") ->
             [v EXCEPT !.query = (IF @ = <<>> THEN @ ELSE Append(@, "&")) \o Tail(r)]
        [] ~AuthorityAt(r) /\ Starts(r, "#") -> [v EXCEPT !.fragment = Tail(r)]
        [] OTHER -> IF ~Decodes(whole) THEN Threw
             ELSE [v EXCEPT !.query = <<>>, !.fragment = <<>>, !.path = Decode(whole)]

-----------------------------------------------------------------------------
\* The chain.

\* What a reference to a file means, if there is nothing in it but names, dots, slashes
\* and codes that are not looked at again: no empty names, and a name at the end.
Plain(r) ==
  /\ r # <<>> /\ Last(r) \notin {"/", ".", ".."}
  /\ ~Has(r, {"?", "#", "%", "+", "%%", "%+", "%/"}) /\ ~AuthorityAt(r)
  /\ \A i \in 1 .. Len(r) - 1 : ~(r[i] = "/" /\ r[i + 1] = "/")
\* A name leads from one place to another; the names of a path lead on one by one, each
\* of them decoded for itself.
Enter(at, name) ==
  CASE name = <<"..">> -> Up(at)
    [] name \in {<<".">>, <<>>} -> at
    [] OTHER -> Append(at, Decode(name))
Led(from, r) ==
  LET on[i \in 0 .. Len(r)] ==  \* after i tokens: the place, and the name that has begun
        IF i = 0 THEN [at |-> from, name |-> <<>>]
        ELSE IF r[i] = "/" THEN [at |-> Enter(on[i - 1].at, on[i - 1].name), name |-> <<>>]
        ELSE [on[i - 1] EXCEPT !.name = Append(@, r[i])]
  IN  on[Len(r)]
Walk(from, r) == Enter(Led(from, r).at, Led(from, r).name)
Means(at, r) ==
  IF at = <<>> \/ ~Plain(r) THEN <<>>
  ELSE Walk(IF Starts(r, "/") THEN <<>> ELSE Front(at), r)

Init ==
  /\ sent = Empty
  /\ \E m \in Manifests :
       /\ u = Parse(m)
       /\ stage = IF Parse(m) = Threw THEN "threw" ELSE "manifest"
       /\ meant = IF Plain(Parse(m).path) THEN Walk(<<>>, Parse(m).path) ELSE <<>>

Becomes(v, next) ==
  /\ u' = v
  /\ stage' = IF v = Threw THEN "threw" ELSE next

\* load_images: devices_url and images_url
Follow(r) ==
  /\ \/ stage = "manifest" /\ Becomes(Relative(u, r), "devices")
     \/ stage = "devices" /\ Becomes(Relative(u, r), "images")
  /\ meant' = Means(meant, r)
  /\ UNCHANGED sent

\* load_cover asks for the image's cover, relative to the same document.
Cover(r) ==
  /\ stage = "images" /\ Becomes(Relative(u, r), "cover")
  /\ meant' = Means(meant, r)
  /\ UNCHANGED sent

\* btn_next_cb writes the text into the installer's context, and
\* generate_netblk_config makes a url of it again.
Hand ==
  /\ stage = "images" /\ sent' = u
  /\ Becomes(Parse(Text(u)), "context")
  /\ UNCHANGED meant

\* The image's file: its text is what the netblk process is told.
File(r) ==
  /\ stage = "context" /\ r # <<>>
  /\ Becomes(Relative(u, r), "file")
  /\ meant' = Means(meant, r)
  /\ UNCHANGED sent

Next ==
  \/ \E r \in Refs : Follow(r)
  \/ \E r \in FileRefs : Cover(r) \/ File(r)
  \/ Hand

Spec == Init /\ [][Next]_vars

-----------------------------------------------------------------------------
\* Properties.

\* What a text can carry: the host is a name, and no part holds the mark that ends it.
Carried(v) ==
  /\ v.scheme # <<>> /\ v.host # <<>>
  /\ ~Has(v.host, {":", "/", "@", "[", "]", "?", "#", "%", "space", "+"})
  /\ ~Has(v.query, {"#"})

\* The document of images that the flasher knows is the one the page has shown.
HandedIsSame == stage = "context" /\ Carried(sent) =>
  u = [sent EXCEPT !.path = IF @ = <<>> THEN <<"/">> ELSE @]

\* Along plain references, up and down the directories, every document that is
\* asked for is the one that is meant, and none is refused.
PathIsMeant == meant # <<>> => stage # "threw" /\ Parts(u.path) = meant

\* (url::parse, url::append_all, url::relative, load_images, generate_netblk_config.)
DocumentsAreMeant == HandedIsSame /\ PathIsMeant
=============================================================================
