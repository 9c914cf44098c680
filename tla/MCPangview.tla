----------------------------- MODULE MCPangview -----------------------------
(***************************************************************************)
(* Instances of Pangview for TLC: alphabets of a few tokens each.          *)
(***************************************************************************)
EXTENDS Pangview, TLC

Tok(k) == [k |-> k, x |-> k]
Id(x) == [k |-> "ident", x |-> x]
Sp == [k |-> "sp", x |-> " "]
Esc(x) == [k |-> "str3", x |-> x]
Backslash == [k |-> "any", x |-> "\\"]
Quoted == [k |-> "str2", x |-> "'\\303\\251\\'"]

\* Escapes: a letter, its first byte alone, a byte, two spaces of which one is
\* shown, and a NUL.
Octal(b) == [k |-> "oct", n |-> b]
Plainly(c) == [k |-> "run", n |-> c]
Empty == [k |-> "bs", n |-> 0]
Letter == Esc("\\303\\251")
First == Esc("\\303")
Byte == Esc("\\251")
Blank == Esc("\\40\\40")
Null == Esc("\\0\\101")
\* No character, in one piece and of four bytes, of which the last is another
\* text, and half of a surrogate pair.
Huge == Esc("\\77777777\\101")
Beyond == Esc("\\364\\277\\277")
Half == Esc("\\355\\240\\200")
Escapes ==
  Letter.x :> <<Octal(195), Octal(169)>> @@ First.x :> <<Octal(195)>> @@
  Byte.x :> <<Octal(169)>> @@ Blank.x :> <<Octal(32), Octal(32)>> @@
  Null.x :> <<Octal(0), Octal(65)>> @@
  Huge.x :> <<Octal(16777215), Octal(65)>> @@
  Beyond.x :> <<Octal(244), Octal(191), Octal(191)>> @@
  Half.x :> <<Octal(237), Octal(160), Octal(128)>> @@
  Backslash.x :> <<Empty>> @@
  Quoted.x :> <<Plainly(39), Octal(195), Octal(169), Empty, Plainly(39)>>
PartsOf(As) ==
  [x \in {t.x : t \in UNION As} |->
     IF x \in DOMAIN Escapes THEN Escapes[x]
     ELSE <<Plainly(IF x = " " THEN 32 ELSE 119)>>]

\* Tags within tags, with crossed end tags, and hidden text.
Nested == {Id("w"), Tok("bold"), Tok("ebold"), Tok("it"), Tok("eit")}
Hidden == {Id("w"), Tok("bold"), Tok("ebold"), Tok("hid"), Tok("ehid")}
\* Wrapped text, margins and tabs.
Wrapped == {Id("w"), Sp, Blank, Tok("wrap"), Tok("ewrap"), Tok("tab")}
Margins == {Id("w"), Tok("margin"), Tok("emargin"), Tok("itbold"), Tok("eitbold")}
\* Colours, and the sizes that share a state.
Colours == {Id("w"), Tok("ncol"), Tok("encol"), Tok("nbgcol"), Tok("enbgcol")}
Sizes == {Id("w"), Tok("xlarge"), Tok("xxlarge"), Tok("exlarge"), Tok("exxlarge")}
\* Spans with an attribute, and links.
Spans == {Id("ul"), Id("1"), Tok("span"), Tok("eq"), Tok("gt"), Tok("espan"), Tok("bold")}
Links == {Id("name"), Id("locked"), Tok("link"), Tok("eq"), Tok("gt"), Tok("elink")}
Images == {Id("name"), Tok("image"), Tok("eq"), Tok("gt")}
\* Escapes that are kept, or show nothing, and those that raise.
Accents == {Id("w"), Letter, First, Null, Quoted, Tok("bold")}
Marks == {Id("w"), Backslash, Tok("bold"), Tok("ebold")}
Odds == {Id("w"), Huge, Beyond, Byte, Half, Tok("bold")}
SpanLinks == {Id("w"), Tok("span"), Tok("gt"), Tok("elink")}
\* A size that is a number, and one that is none.
Numbers == {Id("size"), Id("7"), Tok("span"), Tok("eq"), Tok("gt")}
Word == {Id("w")}

A == <<"as is", "a">>
B == <<"docroot", "name">>
Menu == <<"as is", "menu">>
Odd == <<"as is", "odd">>
Locked == <<"as is", "locked">>
Same(As) == LET X == {t.x : t \in UNION As} IN [x \in X |-> x]

\* Untame documents are first and only ones.
Styled == {Nested, Hidden, Wrapped, Margins, Colours, Sizes, Spans, Accents, Marks}
Untame == {Images, SpanLinks, Numbers, Odds}
MCAlphabets == Styled \cup Untame \cup {Links, Word}
MCParts == PartsOf(MCAlphabets)
MCBare == [Same(MCAlphabets) EXCEPT !["ul"] = "underline"]
MCFiles == {A, B, Menu, Odd, Locked}
MCReadable == {A, B, Menu, Odd}
MCPictures == {B}
MCWritten == A :> Styled @@ B :> {Word} @@ Menu :> {Links} @@ Odd :> Untame
MCMaxLen == A :> 6 @@ B :> 1 @@ Menu :> 6 @@ Odd :> 6
MCArgs == {<<NoName, A>>, <<NoName, Menu>>, <<B, Menu>>, <<Locked, B>>,
           <<NoName, Locked>>, <<NoName, Odd>>}

\* One document of a kind, shown again and again.
ImageAlphabets == {Images}
ImageWritten == A :> ImageAlphabets
TrapAlphabets == {SpanLinks}
TrapWritten == A :> TrapAlphabets
OneFile == {A}
OneFiles == {A, B}
OneArgs == {<<NoName, A>>}
OneMaxLen == A :> 7
ImageParts == PartsOf(ImageAlphabets)
TrapParts == PartsOf(TrapAlphabets)
ImageBare == Same(ImageAlphabets)
TrapBare == Same(TrapAlphabets)
=============================================================================
