------------------------------ MODULE Pangview ------------------------------
(***************************************************************************)
(* The documentation viewer pangview.py with panglib: a table-driven       *)
(* parser with a stack of states, callbacks that keep the style of the     *)
(* text and cache what has the same style, and a viewer that follows links *)
(* and goes back.  A token is a record of its kind and its text; which     *)
(* token comes next is left open, so every text over an alphabet is        *)
(* parsed.  Colours, fonts and words are opaque, but for the octal escapes *)
(* in a text.                                                              *)
(***************************************************************************)
EXTENDS Naturals, SequencesExt

CONSTANTS
  Alphabets,  \* sets of tokens: what a document may be written with
  Parts,      \* of each text: its parts, a run of plain characters, an octal
              \* escape, or a backslash alone
  Bare,       \* of a quoted text: the text without its quotes
  Numerals,   \* texts that int() takes
  Files,      \* names that are regular files: <<"docroot", text>>, <<"as is", text>>
  Readable,   \* the files that can be opened and read
  Pictures,   \* the files that load as a picture
  Written,    \* of each such file: the alphabets it may be written with
  Args,       \* command lines: <<the file of option -c or NoName, the document>>
  MaxLen,     \* bound: tokens of each document
  MaxDepth,   \* bound: entries of lstack
  MaxPage,    \* bound: items in the text pane when a link is followed
  CacheMax,   \* when the cache is shown although the style is the same
  None

NoName == <<>>
Panes == {"contents", "document"}

Kinds(A) == {t.k : t \in A}
Texts == {t.x : t \in UNION Alphabets}
Values == Texts \cup {Bare[x] : x \in Texts} \cup {""}
Names == {"docroot", "as is"} \X Values
Surrogates == 55296 .. 57343   \* no characters: UTF-8 has none

ASSUME ViewerAssumption ==
  /\ \A A \in Alphabets : \A t \in A : t \in [k : STRING, x : STRING] /\ t.k # ""
  /\ Parts \in [Texts -> Seq([k : {"run", "oct", "bs"}, n : Nat])]
  /\ \A x \in Texts : Parts[x] # <<>> /\ x \notin {"nul", "surrogate"}
  /\ \A x \in Texts : \A i \in DOMAIN Parts[x] :
       Parts[x][i].k = "run" => Parts[x][i].n \notin Surrogates
  /\ Bare \in [Texts -> STRING]
  /\ Numerals \subseteq STRING
  /\ Pictures \subseteq Files /\ Readable \subseteq Files
  /\ NoName \notin Files
  /\ Written \in [Readable -> SUBSET Alphabets] /\ MaxLen \in [Readable -> Nat]
  /\ MaxDepth \in Nat /\ MaxPage \in Nat /\ CacheMax \in Nat \ {0}
  /\ None \notin Files

VARIABLES
  args,      \* the command line
  phase,     \* what mainfunc() shows, then "main" in Gtk.main(), or "gone"
  parse,     \* "running", or "done" or "failed", left with an exception
  doc,       \* the document in the text pane
  lstack,    \* the documents shown, for Backspace
  alphabet, n, last,        \* the document's tokens, how many were read, the last
  fsm, contflag, fstack,    \* the parser's state and its stack
  ts,                       \* the style in force
  accum, oldstate, lastsp,  \* the display cache, its style; old_stresc: "sp" or not
  held,                     \* xtab and xtablen: an escape that is not complete
  flag, page                \* the pane in use; what both panes show

parser == <<fsm, contflag, fstack>>
cache == <<accum, oldstate, lastsp>>
text == <<alphabet, n, last>>
viewer == <<args, phase, doc, lstack, flag>>
vars == <<viewer, parse, text, parser, ts, cache, held, page>>

-----------------------------------------------------------------------------
(* The tables. *)

\* Start tags that set an attribute of the style, count one up, or name a
\* colour.
Sets ==
  [bold |-> "bold", it |-> "italic", itbold |-> "itbold", ul |-> "ul",
   dul |-> "dul", red |-> "red", blue |-> "blue", green |-> "green",
   bgred |-> "bgred", bgblue |-> "bgblue", bggreen |-> "bggreen",
   strike |-> "strike", large |-> "large", xlarge |-> "xlarge",
   xxlarge |-> "xxlarge", small |-> "small", xsmall |-> "xsmall",
   cent |-> "center", right |-> "right", wrap |-> "wrap", sub |-> "sub",
   sup |-> "sup", fill |-> "fill", fixed |-> "fixed", hid |-> "hidden"]
Counts == {"indent", "margin", "lmargin"}
Colors == [ncol |-> "color", ncol2 |-> "color", nbgcol |-> "bgcolor"]

\* The state a start tag enters, under the name the parser looks it up by:
\* XXLARGE is named as XLARGE, SUB and SUP are named crosswise.
Renamed == [it |-> "italic", xxlarge |-> "xlarge", sub |-> "sup",
            sup |-> "sub", ncol2 |-> "ncol"]
Enters(k) == IF k \in DOMAIN Renamed THEN Renamed[k] ELSE k

Openers == DOMAIN Sets \cup Counts \cup DOMAIN Colors
             \cup {"span", "link", "image"}

\* Each end tag and the start tag it ends; it is accepted in that state only.
Closes ==
  [ebold |-> "bold", eit |-> "it", eitbold |-> "itbold", eul |-> "ul",
   edul |-> "dul", ered |-> "red", eblue |-> "blue", egreen |-> "green",
   ebgred |-> "bgred", ebgblue |-> "bgblue", ebggreen |-> "bggreen",
   estrike |-> "strike", elarge |-> "large", exlarge |-> "xlarge",
   exxlarge |-> "xxlarge", esmall |-> "small", exsmall |-> "xsmall",
   ecent |-> "cent", eright |-> "right", ewrap |-> "wrap", esub |-> "sub",
   esup |-> "sup", efill |-> "fill", efixed |-> "fixed", ehid |-> "hid",
   eindent |-> "indent", emargin |-> "margin", elmargin |-> "lmargin",
   encol |-> "ncol", enbgcol |-> "nbgcol"]

\* STATEFMT, where any start tag is accepted: not within hid, itbold and the
\* attributes of a span or an image.
StateFmt ==
  {"init", "spantxt", "link"} \cup
  {Enters(k) : k \in Openers \ {"hid", "itbold", "span", "link", "image"}}

\* Hidden text is text.
StateTxtHid == (StateFmt \ {"link"}) \cup {"itbold", "hid"}

\* Where TXTCLASS tokens are text.
StateTxt == (StateFmt \ {"link"}) \cup {"itbold"}
TxtClass == {"ident", "eq", "lt", "str", "str2", "str3", "gt", "nl", "sp", "any"}
ValClass == {"ident", "str", "str2", "str4"}
States == StateTxt \cup {"link", "image", "span", "key", "val", "hid"}

-----------------------------------------------------------------------------
(* The style: TextState. *)

Flags == {Sets[k] : k \in DOMAIN Sets}
Plain ==
  [on |-> {}, num |-> [c \in Counts \cup {"tab"} |-> 0],
   val |-> [v \in {"color", "bgcolor", "size", "font"} |-> ""],
   link |-> NoName]

Styles ==
  [on : SUBSET Flags, num : [Counts \cup {"tab"} -> Nat],
   val : [{"color", "bgcolor", "size", "font"} -> Values],
   link : Names \cup {NoName}]

\* What parseTextState() makes of a style; it does not look at the count of
\* tabs that Tab() leaves for it, other than to reset it.
NoTab(s) == [s EXCEPT !.num["tab"] = 0]

Opened(s, t) ==
  IF t.k \in DOMAIN Sets THEN [s EXCEPT !.on = @ \cup {Sets[t.k]}]
  ELSE IF t.k \in Counts THEN [s EXCEPT !.num[t.k] = @ + 1]
  ELSE IF t.k \in DOMAIN Colors THEN [s EXCEPT !.val[Colors[t.k]] = t.x]
  ELSE s

\* Only flags are reset.
EndedFlags(s, k) ==
  IF k \in DOMAIN Sets THEN [s EXCEPT !.on = @ \ {Sets[k]}] ELSE s

Ended(s, k) ==
  IF k \in DOMAIN Sets THEN [s EXCEPT !.on = @ \ {Sets[k]}]
  ELSE IF k \in Counts THEN [s EXCEPT !.num[k] = IF @ > 0 THEN @ - 1 ELSE @]
  ELSE IF k \in DOMAIN Colors THEN [s EXCEPT !.val[Colors[k]] = ""]
  ELSE s

\* Where a name leads: docroot first, then as written; "~/" is not expanded.
Resolve(v) ==
  IF <<"docroot", v>> \in Files THEN <<"docroot", v>> ELSE <<"as is", v>>

isTrue(v) == v \in {"1", "TRUE", "true", "True", "Y", "y"}

\* </span> does not end what bold= and italic= began.
SpanEnded(s) ==
  [s EXCEPT !.on = @ \ {"center", "right", "ul"},
            !.val = Plain.val]

-----------------------------------------------------------------------------
(* The parser's stack. *)

Frame(t) == [st |-> fsm, cont |-> contflag, key |-> t.k, str |-> t.x]

\* Parse.parse_item2() on a row with a new state.
Push(t, to, cont) ==
  /\ fstack' = Append(fstack, Frame(t))
  /\ fsm' = to
  /\ contflag' = cont

\* Parse.popstate()
Pop ==
  /\ fstack # <<>>
  /\ fsm' = fstack[Len(fstack)].st
  /\ contflag' = fstack[Len(fstack)].cont
  /\ fstack' = SubSeq(fstack, 1, Len(fstack) - 1)

\* What ">" ends: the frames down to the first without a continuation flag.
\* Without one the loop pops an empty stack, which is an exception.
Bases == {i \in DOMAIN fstack : fstack[i].cont = 0}
Base == Max(Bases)
Below == SubSeq(fstack, 1, Base - 1)

\* The attributes of the tag; they are applied in order, so the last counts.
Attrs(keys) ==
  {i \in Base + 1 .. Len(fstack) : fstack[i].st = "keyval" /\ fstack[i].key \in keys}
Value(i) == Bare[fstack[i].str]
Given(keys, else) ==
  IF Attrs(keys) = {} THEN else ELSE Value(Max(Attrs(keys)))
Said(keys, f) ==
  IF Attrs(keys) = {} THEN f \in ts.on ELSE isTrue(Value(Max(Attrs(keys))))
Aligned(f) == \E i \in Attrs({"align", "alignment"}) : Value(i) = f
NoNumber(keys) == \E i \in Attrs(keys) : Value(i) \notin Numerals

Spanned ==
  [ts EXCEPT
    !.on = {f \in @ \cup {"bold", "italic", "ul", "right", "center"} :
              CASE f \in {"bold", "italic"} -> Said({f}, f)
                [] f = "ul" -> Said({"under", "underline"}, f)
                [] f \in {"right", "center"} -> f \in @ \/ Aligned(f)
                [] OTHER -> TRUE},
    !.val["bgcolor"] = Given({"background", "bg", "bgcolor"}, @),
    !.val["color"] = Given({"foreground", "fg", "color"}, @),
    !.val["size"] = IF Given({"size"}, @) = "0" THEN "" ELSE Given({"size"}, @),
    !.val["font"] = Given({"font"}, @)]

Linked ==
  [ts EXCEPT
    !.link = IF Attrs({"file", "name"}) = {} THEN @
             ELSE Resolve(Given({"file", "name"}, "")),
    !.val["color"] = Given({"color", "fg"}, @)]

\* The picture of an image tag.
Loads ==
  /\ Attrs({"name", "file"}) # {}
  /\ Resolve(Given({"name", "file"}, "")) \in Pictures

\* The lexer takes all of a word at once.
Lexes(t) == ~(t.k = last /\ t.k \in {"ident", "str3"})

\* Where another callback than Text has an exception: the stack runs out, int()
\* of no number, or a picture does not load and add_broken() calls what Gdk 3
\* does not have.
Traps(t) ==
  \/ t.k = "gt" /\ fsm \in {"span", "link", "image"} /\ Bases = {}
  \/ t.k = "gt" /\ fsm = "span" /\ Bases # {} /\ NoNumber({"size"})
  \/ /\ t.k = "gt" /\ fsm = "image" /\ Bases # {}
     /\ NoNumber({"width", "height"}) \/ ~Loads
  \/ t.k \in {"espan", "elink"} /\ fsm = "spantxt" /\ fstack = <<>>
  \/ t.k \in DOMAIN Closes /\ fsm = Enters(Closes[t.k]) /\ fstack = <<>>

Comes(t) ==
  /\ parse = "running"
  /\ t \in alphabet
  /\ n < MaxLen[lstack[Len(lstack)]]
  /\ Lexes(t)

Read(t) ==
  /\ Comes(t)
  /\ n' = n + 1
  /\ last' = t.k
  /\ UNCHANGED <<viewer, alphabet>>

-----------------------------------------------------------------------------
(* Escapes: unescape() and uni().  The bytes of a character and how many it  *)
(* has are kept in globals, from text to text and from document to document. *)

MaxChar == 1114111   \* chr() raises above it

\* How many bytes a character has that begins with b; 0 where none does.
Lead(b) ==
  LET c == b % 256 IN
  CASE c \div 32 = 6 -> 2 [] c \div 16 = 14 -> 3 [] c \div 8 = 30 -> 4
    [] c \div 4 = 62 -> 5 [] c \div 2 = 126 -> 6 [] OTHER -> 0

\* What the first byte adds; of four, the mask drops the lowest bit.
FirstBits(b) ==
  CASE Lead(b) = 2 -> b % 32 [] Lead(b) = 3 -> b % 16
    [] Lead(b) = 4 -> 2 * ((b % 16) \div 2) [] Lead(b) = 5 -> b % 4

\* uni(); no byte has the six bits it looks for.
uni(tab) ==
  IF Lead(tab[1]) \in {0, 6} THEN 0
  ELSE FoldLeft(LAMBDA c, b : 64 * c + (b % 64), FirstBits(tab[1]),
                SubSeq(tab, 2, Lead(tab[1])))

\* Too few bytes, or no character: what uni() returns is unbound.
uniRaises(tab) ==
  /\ Lead(tab[1]) \in 2 .. 5
  /\ Len(tab) < Lead(tab[1]) \/ uni(tab) > MaxChar

Nothing == [tab |-> <<>>, len |-> 0]
Complete(u) == u.len # 0 /\ Len(u.tab) = u.len

\* The next plain character raises, and leaves it so.
Stuck(u) == Complete(u) /\ uniRaises(u.tab)

\* A text on its way: the characters it has, and what is held.
Fails(u) == [out |-> <<>>, tab |-> u.tab, len |-> u.len, ok |-> FALSE]

United(u) ==
  IF ~Complete(u) THEN u
  ELSE IF Stuck(u) THEN Fails(u)
  ELSE [out |-> Append(u.out, uni(u.tab)), tab |-> <<>>, len |-> 0, ok |-> TRUE]

\* No character has seven bytes: the rest is never looked at.
Gathered(u, b) == [u EXCEPT !.tab = IF Len(@) < 7 THEN Append(@, b) ELSE @]

\* Plain characters end an escape and discard one that is not complete.
Run(u, c) ==
  IF Stuck(u) THEN Fails(u)
  ELSE [out |-> Append(United(u).out, c), tab |-> <<>>, len |-> 0, ok |-> TRUE]

\* A part that is not the last. What a first byte makes complete is left.
Inner(u, p) ==
  CASE ~u.ok \/ p.k = "bs" -> u
    [] u.ok /\ p.k = "run" -> Run(u, p.n)
    [] u.ok /\ p.k = "oct" /\ u.len # 0 -> United(Gathered(u, p.n))
    [] u.ok /\ p.k = "oct" /\ u.len = 0 ->
         IF Lead(p.n) # 0 THEN [Gathered(u, p.n) EXCEPT !.len = Lead(p.n)]
         ELSE IF p.n > MaxChar THEN Fails(u)
         ELSE [u EXCEPT !.out = Append(@, p.n)]

\* The last part: an octal number is a byte here, whatever it is.
Ending(u, p) ==
  CASE ~u.ok -> u
    [] u.ok /\ p.k = "run" -> Run(u, p.n)
    [] u.ok /\ p.k = "oct" -> United(Gathered(u, p.n))
    [] u.ok /\ p.k = "bs" -> United(u)

unescape(h, x) ==
  Ending(FoldLeft(Inner, [out |-> <<>>, tab |-> h.tab, len |-> h.len, ok |-> TRUE],
                  Front(Parts[x])),
         Last(Parts[x]))

Unescaped(t) == unescape(held, t.x)
Kept(u) == [tab |-> u.tab, len |-> u.len]

-----------------------------------------------------------------------------
(* The display cache. *)

Tagged(s, look) == [i \in DOMAIN s |-> [x |-> s[i], look |-> NoTab(look)]]
\* What is cached is shown in the style that follows.
CacheLookNow == ts

CacheLook == IF oldstate = <<>> THEN ts ELSE oldstate[1]
Pending == Tagged(accum, CacheLook)

\* GTK takes the cached text up to the first NUL, and as UTF-8.
Encodes == \A i \in DOMAIN accum : accum[i] # "surrogate"

\* What the reader gets of a text put behind those of s.
Reads(t, s) ==
  LET out == Unescaped(t).out IN
  IF \E i \in DOMAIN out : out[i] \in Surrogates THEN "surrogate"
  ELSE IF out = <<>> \/ (\E i \in DOMAIN s : s[i] = "nul") THEN ""
  ELSE IF \E i \in DOMAIN out : out[i] = 0 THEN "nul"
  ELSE t.x
Shown == Texts \cup {"", "nul", "surrogate"}
Others == {"picture", "blank", "unreadable"}

IsText(t) == fsm \in StateTxt /\ t.k \in TxtClass
Space(t) == Unescaped(t).out = <<32>>

\* In wrapped text a space behind a space is dropped.
Dropped(t) == "wrap" \in ts.on /\ Space(t) /\ lastsp = "sp"
Spacing(t) ==
  IF "wrap" \notin ts.on THEN lastsp ELSE IF Space(t) THEN "sp" ELSE "other"

\* A text of another style than the cache, or one too much for it, shows it.
Cached == oldstate = <<ts>> /\ Len(accum) < CacheMax
Materialises(t) == ~Dropped(t) /\ ~Cached /\ "hidden" \notin ts.on

\* Text has an exception: an escape that is none, or the cache does not encode.
TextTraps(t) == ~Unescaped(t).ok \/ (Materialises(t) /\ ~Encodes)

Init ==
  /\ args \in Args
  /\ phase = IF args[1] = NoName THEN "document" ELSE "contents"
  /\ flag = "document"
  /\ doc = None /\ lstack = <<>>
  /\ parse = "done"
  /\ alphabet = {} /\ n = 0 /\ last = ""
  /\ fsm = "init" /\ contflag = 0 /\ fstack = <<>>
  /\ ts = Plain
  /\ accum = <<>> /\ oldstate = <<>> /\ lastsp = "other"
  /\ held = Nothing
  /\ page = [p \in Panes |-> <<>>]

-----------------------------------------------------------------------------
(* The callbacks. *)

Open(t) ==
  /\ Read(t)
  /\ fsm \in StateFmt /\ t.k \in Openers
  /\ ts' = Opened(ts, t)
  /\ Push(t, Enters(t.k), 0)
  /\ UNCHANGED <<parse, cache, held, page>>

Close(t) ==
  /\ Read(t)
  /\ t.k \in DOMAIN Closes /\ fsm = Enters(Closes[t.k])
  /\ ts' = Ended(ts, Closes[t.k])
  /\ Pop
  /\ UNCHANGED <<parse, cache, held, page>>

\* The cache has no bound.
TextUncapped(t) ==
  /\ Read(t) /\ IsText(t) /\ ~TextTraps(t)
  /\ held' = Kept(Unescaped(t))
  /\ accum' = IF oldstate = <<ts>> THEN Append(accum, t.x) ELSE <<t.x>>
  /\ page' = IF oldstate = <<ts>> THEN page ELSE [page EXCEPT ![flag] = @ \o Pending]
  /\ oldstate' = <<ts>>
  /\ UNCHANGED <<parse, parser, ts, lastsp>>

\* The cache is begun anew and what it had is not shown.
TextLoses(t) ==
  /\ Read(t) /\ IsText(t) /\ ~TextTraps(t)
  /\ held' = Kept(Unescaped(t))
  /\ accum' = IF Cached THEN Append(accum, t.x) ELSE <<t.x>>
  /\ oldstate' = <<ts>>
  /\ UNCHANGED <<parse, parser, ts, lastsp, page>>

Text(t) ==
  /\ Read(t)
  /\ IsText(t) /\ ~TextTraps(t)
  /\ held' = Kept(Unescaped(t))
  /\ lastsp' = Spacing(t)
  /\ IF Dropped(t) THEN UNCHANGED <<ts, accum, oldstate, page>>
     ELSE IF Cached
     THEN /\ accum' = Append(accum, Reads(t, accum))
          /\ UNCHANGED <<ts, oldstate, page>>
     ELSE IF Materialises(t)
     THEN /\ page' = [page EXCEPT ![flag] = @ \o Pending]
          /\ ts' = IF oldstate = <<>> THEN NoTab(ts) ELSE ts
          /\ accum' = <<Reads(t, <<>>)>>
          /\ oldstate' = <<ts'>>
     ELSE /\ accum' = Append(accum, Reads(t, accum))
          /\ oldstate' = <<ts>>
          /\ UNCHANGED <<ts, page>>
  /\ UNCHANGED <<parse, parser>>

Tab(t) ==
  /\ Read(t)
  /\ fsm \in StateFmt /\ t.k \in {"tab", "tab2"}
  /\ ts' = [ts EXCEPT !.num["tab"] = @ + 1]
  /\ UNCHANGED <<parse, parser, cache, held, page>>

Key(t) ==
  /\ Read(t)
  /\ fsm \in {"span", "image", "link"} /\ t.k = "ident"
  /\ Push(t, "key", 1)
  /\ UNCHANGED <<parse, ts, cache, held, page>>

Eq(t) ==
  /\ Read(t)
  /\ fsm = "key" /\ t.k = "eq"
  /\ Push(t, "val", 1)
  /\ UNCHANGED <<parse, ts, cache, held, page>>

\* The frames of the key and the "=" are reduced to one of the pair.
Keyval(t) ==
  /\ Read(t)
  /\ fsm = "val" /\ t.k \in ValClass
  /\ LET k == fstack[Len(fstack) - 1] IN
       /\ fstack' = Append(SubSeq(fstack, 1, Len(fstack) - 2),
            [st |-> "keyval", cont |-> 1, key |-> k.str, str |-> t.x])
       /\ fsm' = k.st
  /\ UNCHANGED <<parse, contflag, ts, cache, held, page>>

\* The state is that of the span still, and is pushed where the enclosing
\* state was.
Span2(t) ==
  /\ Read(t)
  /\ fsm = "span" /\ t.k = "gt" /\ ~Traps(t)
  /\ ts' = Spanned
  /\ fstack' = Append(Below, Frame(t))
  /\ fsm' = "spantxt"
  /\ contflag' = 0
  /\ UNCHANGED <<parse, cache, held, page>>

\* The row has IGNORE where it has INIT.
eSpanIgnore(t) ==
  /\ Read(t)
  /\ fsm = "spantxt" /\ t.k = "espan"
  /\ ts' = SpanEnded(ts)
  /\ Pop
  /\ UNCHANGED <<parse, cache, held, page>>

eSpan(t) ==
  /\ Read(t)
  /\ fsm = "spantxt" /\ t.k = "espan" /\ ~Traps(t)
  /\ ts' = SpanEnded(ts)
  /\ LET f == fstack[Len(fstack)] IN
       fstack' = [fstack EXCEPT ![Len(fstack)] =
                    [st |-> f.st, cont |-> f.cont, key |-> t.k, str |-> t.x]]
  /\ fsm' = "init"
  /\ contflag' = 0
  /\ UNCHANGED <<parse, cache, held, page>>

Link2(t) ==
  /\ Read(t)
  /\ fsm = "link" /\ t.k = "gt" /\ ~Traps(t)
  /\ ts' = Linked
  /\ fstack' = Append(Below, [st |-> fstack[Base].st, cont |-> 0,
                              key |-> t.k, str |-> t.x])
  /\ fsm' = "spantxt"
  /\ contflag' = 0
  /\ UNCHANGED <<parse, cache, held, page>>

eLink(t) ==
  /\ Read(t)
  /\ fsm = "spantxt" /\ t.k = "elink"
  /\ ts' = [ts EXCEPT !.link = NoName, !.val["color"] = ""]
  /\ Pop
  /\ UNCHANGED <<parse, cache, held, page>>

\* The picture goes to the pane at once, and the cached text does not.
Image2(t) ==
  /\ Read(t)
  /\ fsm = "image" /\ t.k = "gt" /\ ~Traps(t)
  /\ page' = [page EXCEPT ![flag] =
                Append(@, [x |-> "picture", look |-> Plain])]
  /\ fsm' = fstack[Base].st
  /\ contflag' = 0
  /\ fstack' = Below
  /\ UNCHANGED <<parse, ts, cache, held>>

\* No row for the token, or one that does nothing.
Skip(t) ==
  /\ Read(t)
  /\ ~(fsm \in StateFmt /\ t.k \in Openers \cup {"tab", "tab2"})
  /\ ~(fsm \in StateTxt /\ t.k \in TxtClass)
  /\ ~(t.k \in DOMAIN Closes /\ fsm = Enters(Closes[t.k]))
  /\ ~(fsm \in {"span", "image", "link"} /\ t.k \in {"ident", "gt"})
  /\ ~(fsm = "key" /\ t.k = "eq") /\ ~(fsm = "val" /\ t.k \in ValClass)
  /\ ~(fsm = "spantxt" /\ t.k \in {"espan", "elink"})
  /\ UNCHANGED <<parse, parser, ts, cache, held, page>>

\* It leaves showfile(); before Gtk.main() it ends the program.
Fail ==
  /\ parse' = "failed"
  /\ phase' = IF phase = "main" THEN "main" ELSE "gone"
  /\ UNCHANGED <<args, doc, lstack, flag, text>>

\* The blank in front of a picture is set before the picture is loaded.
Raise(t) ==
  /\ Comes(t) /\ Traps(t)
  /\ Fail
  /\ page' = IF fsm = "image" /\ Bases # {} /\ ~NoNumber({"width", "height"})
             THEN [page EXCEPT ![flag] = Append(@, [x |-> "blank", look |-> Plain])]
             ELSE page
  /\ UNCHANGED <<parser, ts, cache, held>>

\* What could not be shown stays in the cache.
TextRaises(t) ==
  /\ Comes(t) /\ IsText(t)
  /\ Fail
  /\ held' = Kept(Unescaped(t))
  /\ \/ ~Unescaped(t).ok /\ UNCHANGED <<ts, oldstate, lastsp>>
     \/ /\ Unescaped(t).ok /\ Materialises(t) /\ ~Encodes
        /\ lastsp' = Spacing(t)
        /\ ts' = IF oldstate = <<>> THEN NoTab(ts) ELSE ts
        /\ oldstate' = [i \in DOMAIN oldstate |-> NoTab(oldstate[i])]
  /\ UNCHANGED <<parser, accum, page>>

-----------------------------------------------------------------------------
(* The viewer. *)

\* mainfunc() after a showfile()
After(ph) == IF ph = "contents" THEN "document" ELSE "main"

\* showfile() of a file, called with what is left of lstack. The text is any
\* over one of the alphabets.
Showfile(name, left) ==
  \/ /\ name \in Readable
     /\ lstack' = Append(left, name)
     /\ doc' = IF flag' = "contents" THEN doc ELSE name
     /\ page' = [page EXCEPT ![flag'] = <<>>]
     /\ ts' = Plain
     /\ alphabet' \in Written[name] /\ n' = 0 /\ last' = ""
     /\ fsm' = "init" /\ contflag' = 0 /\ fstack' = <<>>
     /\ parse' = "running"
     /\ UNCHANGED <<args, phase, cache, held>>
  \/ /\ name \notin Readable
     /\ lstack' = left
     /\ page' = [page EXCEPT !["document"] =
                   Append(@, [x |-> "unreadable", look |-> Plain])]
     /\ phase' = After(phase)
     /\ UNCHANGED <<args, doc, parse, text, parser, ts, cache, held>>

Mainfunc ==
  /\ phase \in Panes /\ parse # "running"
  /\ flag' = phase
  /\ Showfile(IF flag' = "contents" THEN args[1] ELSE args[2], lstack)

\* The end of the text: flush() and the end of showfile().
Flush ==
  /\ parse = "running" /\ Encodes
  /\ page' = [page EXCEPT ![flag] = @ \o Pending]
  /\ accum' = <<>>
  /\ parse' = "done"
  /\ phase' = After(phase)
  /\ fsm' = "init" /\ contflag' = 0 /\ fstack' = <<>> /\ n' = 0 /\ last' = ""
  /\ UNCHANGED <<args, doc, lstack, flag, alphabet, ts, oldstate, lastsp, held>>

FlushRaises ==
  /\ parse = "running" /\ ~Encodes
  /\ Fail
  /\ UNCHANGED <<parser, ts, cache, held, page>>

Idle == phase = "main" /\ parse # "running"

\* The link is pushed before its file is opened.
FollowPushes ==
  /\ Idle /\ Len(lstack) < MaxDepth /\ Len(page["document"]) < MaxPage
  /\ UNCHANGED flag
  /\ \E p \in Panes : \E i \in DOMAIN page[p] :
       LET name == page[p][i].look.link IN
       /\ name \in Files
       /\ \/ name \in Readable /\ Showfile(name, lstack)
          \/ name \notin Readable /\ Showfile(name, Append(lstack, name))

\* Enter on text with a link, or a click in the text pane (in the contents pane
\* a click raises); a link to no file leaves all as it is.
Follow ==
  /\ Idle /\ Len(lstack) < MaxDepth /\ Len(page["document"]) < MaxPage
  /\ UNCHANGED flag
  /\ \E p \in Panes : \E i \in DOMAIN page[p] :
       /\ page[p][i].look.link \in Files /\ page[p][i].x # ""
       /\ Showfile(page[p][i].look.link, lstack)

bslink ==
  /\ Idle /\ Len(lstack) > 1
  /\ UNCHANGED flag
  /\ LET left == SubSeq(lstack, 1, Len(lstack) - 1)
     IN Showfile(left[Len(left)], left)

Quit ==
  /\ Idle
  /\ phase' = "gone"
  /\ UNCHANGED <<args, parse, doc, lstack, flag, text, parser, ts, cache, held, page>>

Next ==
  \/ Mainfunc \/ Flush \/ FlushRaises \/ Follow \/ bslink \/ Quit
  \/ \E t \in alphabet :
       \/ Open(t) \/ Close(t) \/ Text(t) \/ Tab(t) \/ Key(t) \/ Eq(t)
       \/ Keyval(t) \/ Span2(t) \/ eSpan(t) \/ Link2(t) \/ eLink(t)
       \/ Image2(t) \/ Skip(t) \/ Raise(t) \/ TextRaises(t)

Spec == Init /\ [][Next]_vars

-----------------------------------------------------------------------------
(* Properties. *)

\* The variables keep their types; the frames of the parser's stack are of
\* states, and the cache is never longer than its bound and one text.
TypeOK ==
  /\ args \in Args
  /\ phase \in {"contents", "document", "main", "gone"}
  /\ parse \in {"running", "done", "failed"} /\ flag \in Panes
  /\ doc \in Files \cup {None} /\ lstack \in Seq(Files)
  /\ alphabet \in Alphabets \cup {{}} /\ n \in Nat
  /\ fsm \in States /\ contflag \in {0, 1}
  /\ \A i \in DOMAIN fstack :
       fstack[i].st \in States \cup {"keyval"} /\ fstack[i].cont \in {0, 1}
  /\ ts \in Styles /\ oldstate \in {<<>>} \cup {<<s>> : s \in {CacheLook} \cap Styles}
  /\ lastsp \in {"sp", "other"}
  /\ \A i \in DOMAIN accum : accum[i] \in Shown
  /\ Len(accum) <= CacheMax
  /\ \A p \in Panes : \A i \in DOMAIN page[p] :
       page[p][i].x \in Shown \cup Others

\* Documents without a picture, a size or an escape, and without the end tag of
\* a link where there are spans that it could end.
Tame(A) ==
  /\ "image" \notin Kinds(A)
  /\ \A t \in A : t.x # "size"
  /\ \A t \in A : Len(Parts[t.x]) = 1 /\ Parts[t.x][1].k = "run"
  /\ ~({"span", "elink"} \subseteq Kinds(A))

\* Left by the escapes of an earlier document: the next text, or the next that
\* is shown, raises.
Poisoned == Stuck(held) \/ ~Encodes

\* The parser creates no error conditions (parser.py): no tame document makes
\* a callback raise.
NoTrap == parse = "failed" => ~Tame(alphabet) \/ Poisoned

\* Each text that is read goes behind all that is set or cached, once and in the
\* style in force, but for a space behind a space in wrapped text; and where a
\* document ends, all of it is set.
Whole == page[flag] \o Pending
NothingLost ==
  [][/\ n' > n /\ fsm \in StateTxt /\ last' \in TxtClass =>
          \/ \E x \in Shown : Whole' = Append(Whole, [x |-> x, look |-> NoTab(ts)])
          \/ Whole' = Whole /\ "wrap" \in ts.on /\ lastsp = "sp" /\ lastsp' = "sp"
     /\ parse = "running" /\ parse' = "done" => page'[flag] = Whole]_vars

\* Caching by style is invisible: both panes, with what is still cached, are
\* set as Typeset says, text by text in the style in force.
T == INSTANCE Typeset WITH
  Pages <- Panes, Plain <- Plain,
  Items <- Shown, Others <- Others,
  page <- [p \in Panes |-> IF p = flag THEN page[p] \o Pending ELSE page[p]],
  style <- NoTab(ts)
Shows == T!Spec

\* Text between <hid> and </hid> is not shown, nor kept for later.
NeverHidden ==
  /\ \A p \in Panes : \A i \in DOMAIN page[p] : "hidden" \notin page[p][i].look.on
  /\ \A i \in DOMAIN Pending : "hidden" \notin Pending[i].look.on

\* Documents without spans, and without the one of the two sizes that share a
\* state next to the end tag of the other.
Paired(A) ==
  /\ {"span", "espan"} \cap Kinds(A) = {}
  /\ ~({"xlarge", "exxlarge"} \subseteq Kinds(A))
  /\ ~({"xxlarge", "exlarge"} \subseteq Kinds(A))

\* When every tag of a paired document is closed, the style is plain.
AllClosed ==
  parse = "running" /\ fsm = "init" /\ Paired(alphabet) => NoTab(ts) = Plain

\* A picture is set behind the text before it.
PictureInPlace ==
  [][page'[flag] # page[flag] /\ page'[flag] # <<>>
     /\ page'[flag][Len(page'[flag])].x = "picture" => accum = <<>>]_vars

\* In wrapped text one space is put out: none is dropped but behind another.
OneSpace ==
  [][n' > n /\ last' = "sp" /\ fsm \in StateTxt /\ Whole' = Whole
     => Whole # <<>> /\ Whole[Len(Whole)].x = " "]_vars

\* No document makes a callback raise.
NeverRaises == parse # "failed"

\* Backspace takes the document shown off lstack and puts nothing there.
BackGoesBack ==
  [][lstack' # lstack /\ Len(lstack') <= Len(lstack)
     => lstack' = SubSeq(lstack, 1, Len(lstack) - 1)]_vars

\* The top of lstack is the document in the text pane: Backspace leaves what
\* is shown, and nothing else.
ShownIsLast == (Idle /\ doc # None) => doc = lstack[Len(lstack)]

=============================================================================
