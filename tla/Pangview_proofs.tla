-------------------------- MODULE Pangview_proofs ---------------------------
(***************************************************************************)
(* Proofs about Pangview, for any documents, files and bounds.  The        *)
(* invariant has a part for each of the things that the callbacks share:   *)
(* the list of documents shown, the parser's stack, the style in force,    *)
(* the display cache and the panes.                                        *)
(***************************************************************************)
EXTENDS Pangview, SequenceTheorems, FiniteSetTheorems, WellFoundedInduction, TLAPS

-----------------------------------------------------------------------------
(* The tables. *)

Tags == {"span", "link", "image"}
Crossed == {"it", "xxlarge", "sub", "sup", "ncol2"}
Closable == {Enters(Closes[k]) : k \in DOMAIN Closes}
SetTags ==
  {"bold", "it", "itbold", "ul", "dul", "red", "blue", "green", "bgred",
   "bgblue", "bggreen", "strike", "large", "xlarge", "xxlarge", "small",
   "xsmall", "cent", "right", "wrap", "sub", "sup", "fill", "fixed", "hid"}

LEMMA SetsWhat ==
  /\ DOMAIN Sets = SetTags
  /\ \A k \in SetTags : Sets[k] = "hidden" <=> k = "hid"
<1>1. DOMAIN Sets = SetTags
  BY DEF Sets, SetTags
<1>2. \A k \in SetTags : Sets[k] = "hidden" => k = "hid"
  BY DEF Sets, SetTags
<1>3. Sets["hid"] = "hidden"
  BY DEF Sets
<1> QED BY <1>1, <1>2, <1>3

LEMMA EntersWhat ==
  /\ \A k : k \notin Crossed => Enters(k) = k
  /\ Enters("it") = "italic" /\ Enters("xxlarge") = "xlarge"
  /\ Enters("sub") = "sup" /\ Enters("sup") = "sub" /\ Enters("ncol2") = "ncol"
  BY DEF Enters, Renamed, Crossed

LEMMA OpenersAre ==
  Openers = SetTags \cup {"indent", "margin", "lmargin", "ncol", "ncol2", "nbgcol"}
              \cup Tags
  BY SetsWhat DEF Openers, Counts, Colors, Tags

LEMMA ClosesWhat ==
  \A k \in DOMAIN Closes :
    Closes[k] \in SetTags \cup {"indent", "margin", "lmargin", "ncol", "nbgcol"}
  BY DEF Closes, SetTags

LEMMA OpenedState ==
  ASSUME NEW k \in Openers
  PROVE  /\ Enters(k) \notin {"init", "spantxt", "key", "val", "keyval"}
         /\ \A s \in Tags \cup {"hid", "itbold"} : Enters(k) = s => k = s
<1>1. CASE k \in Crossed
  BY <1>1, EntersWhat DEF Crossed, Tags
<1>2. CASE k \notin Crossed
  BY <1>2, EntersWhat, OpenersAre DEF SetTags, Tags
<1> QED BY <1>1, <1>2

LEMMA FmtStates ==
  ASSUME NEW s \in StateFmt
  PROVE  /\ s \notin {"hid", "itbold", "key", "val", "keyval", "span", "image"}
         /\ s \in States
<1>1. CASE s \in {"init", "spantxt", "link"}
  BY <1>1 DEF States, StateTxt, StateFmt
<1>2. ASSUME NEW k \in Openers \ {"hid", "itbold", "span", "link", "image"},
             s = Enters(k)
      PROVE  s \notin {"hid", "itbold", "key", "val", "keyval", "span", "image",
                       "link"}
  BY <1>2, OpenedState DEF Tags
<1>3. \/ s \in {"init", "spantxt", "link"}
      \/ \E k \in Openers \ {"hid", "itbold", "span", "link", "image"} :
           s = Enters(k)
  BY DEF StateFmt
<1> QED BY <1>1, <1>2, <1>3 DEF States, StateTxt

LEMMA OpenedIn == ASSUME NEW k \in Openers PROVE Enters(k) \in States
<1>1. CASE k \in {"hid", "itbold", "span", "link", "image"}
  BY <1>1, EntersWhat DEF States, StateTxt, Crossed
<1>2. CASE k \notin {"hid", "itbold", "span", "link", "image"}
  <2>1. Enters(k) \in StateFmt
    BY <1>2 DEF StateFmt
  <2> QED BY <2>1, FmtStates
<1> QED BY <1>1, <1>2

LEMMA ClosedState ==
  ASSUME NEW s \in Closable
  PROVE  s \notin Tags \cup {"init", "spantxt", "key", "val", "keyval"}
<1>1. PICK k \in DOMAIN Closes : s = Enters(Closes[k])
  BY DEF Closable
<1>2. Closes[k] \in Openers \ Tags
  BY ClosesWhat, OpenersAre DEF Tags, SetTags
<1> QED BY <1>1, <1>2, OpenedState DEF Tags

LEMMA TextStates ==
  ASSUME NEW s \in StateTxt
  PROVE  s \notin {"hid", "key", "val", "span", "link", "image"}
  BY FmtStates DEF StateTxt

LEMMA ClosesHid ==
  ASSUME NEW k \in DOMAIN Closes, Enters(Closes[k]) = "hid"
  PROVE  Closes[k] = "hid"
<1>1. Closes[k] \in Openers
  BY ClosesWhat, OpenersAre
<1> QED BY <1>1, OpenedState

-----------------------------------------------------------------------------
(* Styles. *)

Hides(s) == "hidden" \in s.on

LEMMA PlainStyle == Plain \in Styles /\ ~Hides(Plain) /\ NoTab(Plain) = Plain
<1>1. Plain \in Styles
  BY DEF Plain, Styles, Values
<1>2. Plain.on = {}
  BY DEF Plain
<1>3. NoTab(Plain) = Plain
  <2>1. [Plain.num EXCEPT !["tab"] = 0] = Plain.num
    BY DEF Plain
  <2>2. Plain = [Plain EXCEPT !.num = Plain.num]
    BY DEF Plain
  <2>3. NoTab(Plain) = [Plain EXCEPT !.num = [Plain.num EXCEPT !["tab"] = 0]]
    BY DEF NoTab
  <2> QED BY <2>1, <2>2, <2>3
<1> QED BY <1>1, <1>2, <1>3 DEF Hides

LEMMA NoTabStyle ==
  ASSUME NEW s \in Styles
  PROVE  /\ NoTab(s) \in Styles /\ NoTab(s).on = s.on
         /\ NoTab(NoTab(s)) = NoTab(s)
  BY DEF NoTab, Styles

LEMMA ValStyle ==
  ASSUME NEW s \in Styles, NEW c \in {"color", "bgcolor"}, NEW v \in Values
  PROVE  [s EXCEPT !.val[c] = v] \in Styles /\ [s EXCEPT !.val[c] = v].on = s.on
  BY DEF Styles

LEMMA OpenedStyle ==
  ASSUME NEW s \in Styles, NEW t \in [k : STRING, x : Texts]
  PROVE  /\ Opened(s, t) \in Styles
         /\ Hides(Opened(s, t)) => Hides(s) \/ t.k = "hid"
<1>1. CASE t.k \in DOMAIN Sets
  <2>1. Opened(s, t) = [s EXCEPT !.on = @ \cup {Sets[t.k]}]
    BY <1>1 DEF Opened
  <2>2. Sets[t.k] \in Flags
    BY <1>1 DEF Flags
  <2> QED BY <1>1, <2>1, <2>2, SetsWhat DEF Styles, Hides
<1>2. CASE t.k \notin DOMAIN Sets /\ t.k \in Counts
  <2>1. Opened(s, t) = [s EXCEPT !.num[t.k] = @ + 1]
    BY <1>2 DEF Opened
  <2> QED BY <1>2, <2>1 DEF Styles, Hides
<1>3. CASE t.k \notin DOMAIN Sets /\ t.k \notin Counts /\ t.k \in DOMAIN Colors
  <2>1. Opened(s, t) = [s EXCEPT !.val[Colors[t.k]] = t.x]
    BY <1>3 DEF Opened
  <2>2. Colors[t.k] \in {"color", "bgcolor"}
    BY <1>3 DEF Colors
  <2>3. t.x \in Values
    BY DEF Values
  <2> QED BY <2>1, <2>2, <2>3, ValStyle DEF Hides
<1>4. CASE t.k \notin DOMAIN Sets /\ t.k \notin Counts /\ t.k \notin DOMAIN Colors
  BY <1>4 DEF Opened
<1> QED BY <1>1, <1>2, <1>3, <1>4

LEMMA EndedStyle ==
  ASSUME NEW s \in Styles, NEW k
  PROVE  /\ Ended(s, k) \in Styles
         /\ Hides(Ended(s, k)) => Hides(s) /\ k # "hid"
<1>1. CASE k \in DOMAIN Sets
  <2>1. Ended(s, k) = [s EXCEPT !.on = @ \ {Sets[k]}]
    BY <1>1 DEF Ended
  <2> QED BY <1>1, <2>1, SetsWhat DEF Styles, Hides
<1>2. CASE k \notin DOMAIN Sets /\ k \in Counts
  <2>1. Ended(s, k) = [s EXCEPT !.num[k] = IF @ > 0 THEN @ - 1 ELSE @]
    BY <1>2 DEF Ended
  <2> QED BY <1>2, <2>1, SetsWhat DEF Styles, Hides, SetTags
<1>3. CASE k \notin DOMAIN Sets /\ k \notin Counts /\ k \in DOMAIN Colors
  <2>1. Ended(s, k) = [s EXCEPT !.val[Colors[k]] = ""]
    BY <1>3 DEF Ended
  <2>2. Colors[k] \in {"color", "bgcolor"}
    BY <1>3 DEF Colors
  <2>3. "" \in Values
    BY DEF Values
  <2>4. k # "hid"
    BY <1>3, SetsWhat DEF SetTags
  <2> QED BY <2>1, <2>2, <2>3, <2>4, ValStyle DEF Hides
<1>4. CASE k \notin DOMAIN Sets /\ k \notin Counts /\ k \notin DOMAIN Colors
  BY <1>4, SetsWhat DEF Ended, SetTags
<1> QED BY <1>1, <1>2, <1>3, <1>4

LEMMA SpanEndedStyle ==
  ASSUME NEW s \in Styles
  PROVE  SpanEnded(s) \in Styles /\ (Hides(SpanEnded(s)) => Hides(s))
<1>1. Plain.val \in [{"color", "bgcolor", "size", "font"} -> Values]
  BY DEF Plain, Values
<1> QED BY <1>1 DEF SpanEnded, Styles, Hides

-----------------------------------------------------------------------------
(* The parser's stack. *)

Frames ==
  [st : States \cup {"keyval"}, cont : {0, 1}, key : STRING, str : Texts]

LEMMA HasMax ==
  ASSUME NEW m \in Nat, NEW S, S \subseteq 1 .. m, S # {}
  PROVE  Max(S) \in S /\ \A i \in S : i <= Max(S)
<1> DEFINE D == {m - i : i \in S}
           R == OpToRel(<, Nat)
<1>1. D \subseteq Nat /\ D # {}
  <2>1. \A i \in S : m - i \in Nat
    OBVIOUS
  <2>2. PICK i \in S : TRUE
    OBVIOUS
  <2>3. m - i \in D
    BY <2>2
  <2> QED BY <2>1, <2>3
<1>2. IsWellFoundedOn(R, Nat)
  BY NatLessThanWellFounded
<1>3. \A x, y \in Nat : x < y => <<x, y>> \in R
  BY DEF OpToRel
<1>4. PICK d \in D : \A e \in D : <<e, d>> \notin R
  <2> HIDE DEF D, R
  <2> QED BY <1>1, <1>2, WFMin
<1>5. \A e \in D : d <= e
  <2> HIDE DEF D, R
  <2>1. \A e \in D : ~ (e < d)
    BY <1>1, <1>3, <1>4
  <2> QED BY <1>1, <2>1
<1>6. \E i \in S : \A j \in S : i >= j
  BY <1>5
<1> QED BY <1>6 DEF Max

\* What ">" ends begins at a frame without a continuation flag.
LEMMA BaseWhat ==
  ASSUME fstack \in Seq(Frames), Bases # {}
  PROVE  /\ Base \in 1 .. Len(fstack)
         /\ fstack[Base] \in Frames /\ fstack[Base].cont = 0
         /\ Below \in Seq(Frames) /\ Len(Below) = Base - 1
         /\ \A i \in 1 .. Base - 1 : Below[i] = fstack[i]
<1>1. Len(fstack) \in Nat /\ DOMAIN fstack = 1 .. Len(fstack)
  BY LenProperties
<1>2. Bases \subseteq 1 .. Len(fstack)
  BY <1>1 DEF Bases
<1>3. Base \in Bases
  BY <1>1, <1>2, HasMax DEF Base
<1>4. Base \in 1 .. Len(fstack) /\ fstack[Base].cont = 0
  BY <1>2, <1>3 DEF Bases
<1>5. fstack[Base] \in Frames
  BY <1>4, ElementOfSeq
<1>6. 1 \in 1 .. Len(fstack) + 1 /\ Base - 1 \in 1 - 1 .. Len(fstack)
  BY <1>1, <1>4
<1>7. /\ SubSeq(fstack, 1, Base - 1) \in Seq(Frames)
      /\ Len(SubSeq(fstack, 1, Base - 1)) = Base - 1
      /\ \A i \in 1 .. Base - 1 : SubSeq(fstack, 1, Base - 1)[i] = fstack[i]
  BY <1>1, <1>4, <1>6, SubSeqProperties
<1> QED BY <1>4, <1>5, <1>7 DEF Below

LEMMA GivenValue ==
  ASSUME fstack \in Seq(Frames), Bases # {}, NEW keys, NEW else \in Values
  PROVE  Given(keys, else) \in Values
<1>1. CASE Attrs(keys) = {}
  BY <1>1 DEF Given
<1>2. CASE Attrs(keys) # {}
  <2>1. Len(fstack) \in Nat /\ Base \in 1 .. Len(fstack)
    BY BaseWhat, LenProperties
  <2>2. Attrs(keys) \subseteq 1 .. Len(fstack)
    BY <2>1 DEF Attrs
  <2>3. Max(Attrs(keys)) \in 1 .. Len(fstack)
    BY <1>2, <2>1, <2>2, HasMax
  <2>4. fstack[Max(Attrs(keys))] \in Frames
    BY <2>3, ElementOfSeq
  <2>5. Value(Max(Attrs(keys))) \in Values
    BY <2>4 DEF Value, Values, Frames
  <2> QED BY <1>2, <2>5 DEF Given
<1> QED BY <1>1, <1>2

LEMMA SomeFlags == {"bold", "italic", "ul", "right", "center"} \subseteq Flags
<1>1. {"bold", "it", "ul", "right", "cent"} \subseteq DOMAIN Sets
  BY SetsWhat DEF SetTags
<1>2. /\ Sets["bold"] = "bold" /\ Sets["it"] = "italic" /\ Sets["ul"] = "ul"
      /\ Sets["right"] = "right" /\ Sets["cent"] = "center"
  BY DEF Sets
<1> QED BY <1>1, <1>2 DEF Flags

LEMMA SpannedStyle ==
  ASSUME ts \in Styles, fstack \in Seq(Frames), Bases # {}
  PROVE  Spanned \in Styles /\ (Hides(Spanned) => Hides(ts))
<1>1. \A c \in {"color", "bgcolor", "size", "font"} : ts.val[c] \in Values
  BY DEF Styles
<1>2. \A keys, c : c \in {"color", "bgcolor", "size", "font"} =>
        Given(keys, ts.val[c]) \in Values
  BY <1>1, GivenValue
<1>3. "" \in Values
  BY DEF Values
<1>4. PICK X, b, c, z, f :
        /\ X \subseteq ts.on \cup {"bold", "italic", "ul", "right", "center"}
        /\ b \in Values /\ c \in Values /\ z \in Values /\ f \in Values
        /\ Spanned = [ts EXCEPT !.on = X, !.val["bgcolor"] = b, !.val["color"] = c,
                                !.val["size"] = z, !.val["font"] = f]
  <2> DEFINE X == {f \in ts.on \cup {"bold", "italic", "ul", "right", "center"} :
              CASE f \in {"bold", "italic"} -> Said({f}, f)
                [] f = "ul" -> Said({"under", "underline"}, f)
                [] f \in {"right", "center"} -> f \in ts.on \/ Aligned(f)
                [] OTHER -> TRUE}
             b == Given({"background", "bg", "bgcolor"}, ts.val["bgcolor"])
             c == Given({"foreground", "fg", "color"}, ts.val["color"])
             z == IF Given({"size"}, ts.val["size"]) = "0" THEN ""
                  ELSE Given({"size"}, ts.val["size"])
             f == Given({"font"}, ts.val["font"])
  <2>1. X \subseteq ts.on \cup {"bold", "italic", "ul", "right", "center"}
    OBVIOUS
  <2>2. b \in Values /\ c \in Values /\ z \in Values /\ f \in Values
    BY <1>2, <1>3
  <2>3. Spanned = [ts EXCEPT !.on = X, !.val["bgcolor"] = b, !.val["color"] = c,
                             !.val["size"] = z, !.val["font"] = f]
    BY DEF Spanned, Styles
  <2> HIDE DEF X, b, c, z, f
  <2> QED BY <2>1, <2>2, <2>3
<1>5. X \subseteq Flags
  BY <1>4, SomeFlags DEF Styles
<1>6. Spanned \in Styles
  BY <1>4, <1>5 DEF Styles
<1>7. Spanned.on = X
  BY <1>4 DEF Styles
<1> QED BY <1>4, <1>6, <1>7 DEF Hides

LEMMA LinkedStyle ==
  ASSUME ts \in Styles, fstack \in Seq(Frames), Bases # {}
  PROVE  Linked \in Styles /\ Linked.on = ts.on
<1>1. ts.val["color"] \in Values
  BY DEF Styles
<1>2. Given({"color", "fg"}, ts.val["color"]) \in Values
  BY <1>1, GivenValue
<1>3. "" \in Values
  BY DEF Values
<1>4. Given({"file", "name"}, "") \in Values
  BY <1>3, GivenValue
<1>5. Resolve(Given({"file", "name"}, "")) \in Names
  BY <1>4 DEF Resolve, Names
<1> HIDE DEF Values
<1> QED BY <1>2, <1>5 DEF Linked, Styles

-----------------------------------------------------------------------------
(* What may lie on what: a stack s below the state q with the flag c. *)

Above(s, q, i) == IF i < Len(s) THEN s[i + 1].st ELSE q

\* A key lies below its value and on its tag, a pair below a pair or the tag.
Chained(s, q, i) ==
  /\ s[i].st \in StateFmt \cup {"span", "image", "key", "keyval"}
  /\ s[i].st = "key" <=> Above(s, q, i) = "val"
  /\ Above(s, q, i) = "key" => s[i].st \in Tags
  /\ s[i].st = "keyval" => Above(s, q, i) \in Tags \cup {"keyval"}
  /\ s[i].st \in {"key", "keyval"} => s[i].cont = 1
  /\ s[i].cont = 1 => s[i].st \in Tags \cup {"key", "keyval"}
  /\ s[i].st = "key" => i >= 2

Chain(s, q, c) ==
  /\ s \in Seq(Frames) /\ q \in States /\ c \in {0, 1}
  /\ \A i \in 1 .. Len(s) : Chained(s, q, i)
  /\ q \in {"key", "val"} => c = 1 /\ Len(s) >= 1
  /\ c = 1 => q \in Tags \cup {"key", "val"}

\* In a tame document: an end tag uncovers a state of text, and every ">" and
\* every pair has a frame to begin at.
Tamed(A, s, q, i) ==
  /\ Above(s, q, i) \in Closable => s[i].st \in StateFmt
  /\ Above(s, q, i) = "spantxt" /\ "elink" \in Kinds(A) => s[i].st \in StateFmt
  /\ s[i].st = "link" \/ Above(s, q, i) = "key" =>
       \E b \in 1 .. i - 1 : s[b].cont = 0
  /\ s[i].st # "image" /\ ("span" \notin Kinds(A) => s[i].st # "span")
  /\ s[i].str # "size" /\ (s[i].st = "keyval" => s[i].key # "size")

TameStack(A, s, q) ==
  /\ \A i \in 1 .. Len(s) : Tamed(A, s, q, i)
  /\ Len(s) >= 1 => s[1].st \in {"init", "span"}
  /\ Len(s) = 0 => q = "init"
  /\ q \in Tags => \E b \in 1 .. Len(s) : s[b].cont = 0
  /\ q # "image" /\ ("span" \notin Kinds(A) => q # "span")

LEMMA Appended ==
  ASSUME NEW s \in Seq(Frames), NEW f \in Frames
  PROVE  /\ Append(s, f) \in Seq(Frames)
         /\ Len(s) \in Nat /\ Len(Append(s, f)) = Len(s) + 1
         /\ Append(s, f)[Len(s) + 1] = f
         /\ \A i \in 1 .. Len(s) : Append(s, f)[i] = s[i]
  BY AppendProperties, LenProperties

\* A start tag.
LEMMA OpenChain ==
  ASSUME NEW s, NEW q, NEW c, Chain(s, q, c), q \in StateFmt,
         NEW f \in Frames, f.st = q, f.cont = c,
         NEW to \in States \ {"key", "val"}
  PROVE  Chain(Append(s, f), to, 0)
<1> DEFINE s2 == Append(s, f)
<1>1. /\ s2 \in Seq(Frames) /\ Len(s) \in Nat /\ Len(s2) = Len(s) + 1
      /\ s2[Len(s) + 1] = f /\ \A i \in 1 .. Len(s) : s2[i] = s[i]
  BY Appended DEF Chain
<1> HIDE DEF s2
<1>2. Chained(s2, to, Len(s) + 1)
  BY <1>1, FmtStates DEF Chained, Chain, Above
<1>3. ASSUME NEW i \in 1 .. Len(s) PROVE Chained(s2, to, i)
  <2>1. Above(s2, to, i) = Above(s, q, i)
    BY <1>1, <1>3 DEF Above
  <2> QED BY <1>1, <1>3, <2>1 DEF Chained, Chain
<1>4. Chain(s2, to, 0)
  BY <1>1, <1>2, <1>3 DEF Chain
<1> QED BY <1>4 DEF s2

LEMMA OpenTame ==
  ASSUME NEW s, NEW q, NEW c, Chain(s, q, c), NEW A, TameStack(A, s, q),
         q \in StateFmt, NEW f \in Frames, f.st = q, f.cont = c, f.str # "size",
         NEW to \in States \ {"key", "val", "init", "spantxt", "image"},
         to = "span" => "span" \in Kinds(A)
  PROVE  TameStack(A, Append(s, f), to)
<1> DEFINE s2 == Append(s, f)
<1>1. /\ s2 \in Seq(Frames) /\ Len(s) \in Nat /\ Len(s2) = Len(s) + 1
      /\ s2[Len(s) + 1] = f /\ \A i \in 1 .. Len(s) : s2[i] = s[i]
  BY Appended DEF Chain
<1> HIDE DEF s2
<1>2. Tamed(A, s2, to, Len(s) + 1)
  BY <1>1, FmtStates DEF Tamed, TameStack, Above, Tags
<1>3. ASSUME NEW i \in 1 .. Len(s) PROVE Tamed(A, s2, to, i)
  <2>1. Above(s2, to, i) = Above(s, q, i)
    BY <1>1, <1>3 DEF Above
  <2>2. \A b \in 1 .. i - 1 : s2[b] = s[b]
    BY <1>1, <1>3
  <2> QED BY <1>1, <1>3, <2>1, <2>2 DEF Tamed, TameStack
<1>4. \E b \in 1 .. Len(s2) : s2[b].cont = 0
  <2>1. CASE c = 0
    BY <1>1, <2>1
  <2>2. CASE c = 1
    BY <1>1, <2>2, FmtStates DEF Chain, TameStack, Tags
  <2> QED BY <2>1, <2>2 DEF Chain
<1>5. TameStack(A, s2, to)
  BY <1>1, <1>2, <1>3, <1>4 DEF TameStack
<1> QED BY <1>5 DEF s2

\* What is left of a stack that is cut.
LEMMA CutStack ==
  ASSUME NEW s, NEW q, NEW c, Chain(s, q, c), NEW m \in Nat, m < Len(s)
  PROVE  /\ SubSeq(s, 1, m) \in Seq(Frames) /\ Len(SubSeq(s, 1, m)) = m
         /\ s[m + 1] \in Frames
         /\ \A i \in 1 .. m : /\ SubSeq(s, 1, m)[i] = s[i]
                              /\ Chained(SubSeq(s, 1, m), s[m + 1].st, i)
         /\ \A A : TameStack(A, s, q) =>
              \A i \in 1 .. m : Tamed(A, SubSeq(s, 1, m), s[m + 1].st, i)
<1> DEFINE p == SubSeq(s, 1, m)
<1>1. s \in Seq(Frames) /\ Len(s) \in Nat
  BY LenProperties DEF Chain
<1>2. p \in Seq(Frames) /\ Len(p) = m /\ \A i \in 1 .. m : p[i] = s[i]
  BY <1>1, SubSeqProperties
<1>3. s[m + 1] \in Frames
  BY <1>1, ElementOfSeq
<1> HIDE DEF p
<1>4. ASSUME NEW i \in 1 .. m PROVE Above(p, s[m + 1].st, i) = Above(s, q, i)
  BY <1>1, <1>2, <1>4 DEF Above
<1>5. ASSUME NEW i \in 1 .. m PROVE Chained(p, s[m + 1].st, i)
  BY <1>1, <1>2, <1>4, <1>5 DEF Chained, Chain
<1>6. ASSUME NEW A, TameStack(A, s, q), NEW i \in 1 .. m
      PROVE  Tamed(A, p, s[m + 1].st, i)
  <2>1. Tamed(A, s, q, i)
    BY <1>1, <1>6 DEF TameStack
  <2>2. \A b \in 1 .. i - 1 : p[b] = s[b]
    BY <1>2
  <2> QED BY <1>2, <1>4, <2>1, <2>2 DEF Tamed
<1> QED BY <1>2, <1>3, <1>5, <1>6 DEF p

\* An end tag.
LEMMA PopChain ==
  ASSUME NEW s, NEW q, NEW c, Chain(s, q, c), Len(s) >= 1,
         q \notin Tags \cup {"key", "val"}
  PROVE  Chain(SubSeq(s, 1, Len(s) - 1), s[Len(s)].st, s[Len(s)].cont)
<1> DEFINE m == Len(s) - 1
           p == SubSeq(s, 1, m)
<1>1. Len(s) \in Nat /\ m \in Nat /\ m < Len(s) /\ m + 1 = Len(s)
  BY LenProperties DEF Chain
<1>2. /\ p \in Seq(Frames) /\ Len(p) = m /\ s[Len(s)] \in Frames
      /\ \A i \in 1 .. m : Chained(p, s[Len(s)].st, i)
  BY <1>1, CutStack
<1>3. Chained(s, q, Len(s)) /\ Above(s, q, Len(s)) = q
  BY <1>1 DEF Chain, Above
<1>4. s[Len(s)].st \notin {"key", "keyval", "val"}
  <2>1. q # "keyval"
    BY FmtStates DEF Chain, States, StateTxt
  <2> QED BY <1>3, <2>1, FmtStates DEF Chained, Tags
<1>5. s[Len(s)].cont = 1 => s[Len(s)].st \in Tags
  BY <1>3, <1>4 DEF Chained
<1>6. Chain(p, s[Len(s)].st, s[Len(s)].cont)
  <2> HIDE DEF p, m
  <2> QED BY <1>2, <1>4, <1>5 DEF Chain, Frames
<1> QED BY <1>6

LEMMA PopTame ==
  ASSUME NEW s, NEW q, NEW c, Chain(s, q, c), NEW A, TameStack(A, s, q),
         q \in Closable \/ (q = "spantxt" /\ "elink" \in Kinds(A))
  PROVE  /\ Len(s) >= 1
         /\ TameStack(A, SubSeq(s, 1, Len(s) - 1), s[Len(s)].st)
<1> DEFINE m == Len(s) - 1
           p == SubSeq(s, 1, m)
<1>1. q # "init" /\ Len(s) \in Nat
  BY ClosedState, LenProperties DEF Chain
<1>2. Len(s) >= 1
  BY <1>1 DEF TameStack
<1>3. m \in Nat /\ m < Len(s) /\ m + 1 = Len(s)
  BY <1>1, <1>2
<1>4. /\ Len(p) = m
      /\ \A i \in 1 .. m : p[i] = s[i] /\ Tamed(A, p, s[Len(s)].st, i)
  BY <1>3, CutStack
<1>5. Tamed(A, s, q, Len(s)) /\ Above(s, q, Len(s)) = q
  BY <1>1, <1>2 DEF TameStack, Above
<1>6. s[Len(s)].st \in StateFmt
  BY <1>5 DEF Tamed
<1>7. s[Len(s)].st \notin {"span", "image"}
  BY <1>6, FmtStates
<1>8. s[Len(s)].st = "link" => \E b \in 1 .. m : p[b].cont = 0
  <2>1. s[Len(s)].st = "link" => \E b \in 1 .. m : s[b].cont = 0
    BY <1>5 DEF Tamed
  <2> QED BY <1>4, <2>1
<1>9. /\ m >= 1 => p[1].st \in {"init", "span"}
      /\ m = 0 => s[Len(s)].st = "init"
  <2>1. s[1].st \in {"init", "span"}
    BY <1>2 DEF TameStack
  <2>2. m >= 1 => p[1] = s[1]
    BY <1>3, <1>4
  <2> QED BY <1>3, <1>7, <2>1, <2>2
<1>10. TameStack(A, p, s[Len(s)].st)
  <2> HIDE DEF p, m
  <2> QED BY <1>4, <1>7, <1>8, <1>9 DEF TameStack, Tags
<1> QED BY <1>2, <1>10

\* A key of an attribute, or the "=" behind it.
LEMMA AttrChain ==
  ASSUME NEW s, NEW q, NEW c, Chain(s, q, c), NEW f \in Frames,
         f.st = q, f.cont = c, NEW to,
         (q \in Tags /\ to = "key") \/ (q = "key" /\ to = "val")
  PROVE  Chain(Append(s, f), to, 1)
<1> DEFINE s2 == Append(s, f)
<1>1. /\ s2 \in Seq(Frames) /\ Len(s) \in Nat /\ Len(s2) = Len(s) + 1
      /\ s2[Len(s) + 1] = f /\ \A i \in 1 .. Len(s) : s2[i] = s[i]
  BY Appended DEF Chain
<1> HIDE DEF s2
<1>2. "link" \in StateFmt /\ {"key", "val"} \subseteq States
  BY DEF StateFmt, States
<1>3. Chained(s2, to, Len(s) + 1)
  BY <1>1, <1>2 DEF Chained, Chain, Above, Tags
<1>4. ASSUME NEW i \in 1 .. Len(s) PROVE Chained(s2, to, i)
  <2>1. Above(s2, to, i) = Above(s, q, i)
    BY <1>1, <1>4 DEF Above
  <2> QED BY <1>1, <1>4, <2>1 DEF Chained, Chain
<1>5. Chain(s2, to, 1)
  BY <1>1, <1>2, <1>3, <1>4 DEF Chain
<1> QED BY <1>5 DEF s2

LEMMA AttrTame ==
  ASSUME NEW s, NEW q, NEW c, Chain(s, q, c), NEW A, TameStack(A, s, q),
         NEW f \in Frames, f.st = q, f.cont = c, f.str # "size", NEW to,
         (q \in Tags /\ to = "key") \/ (q = "key" /\ to = "val")
  PROVE  TameStack(A, Append(s, f), to)
<1> DEFINE s2 == Append(s, f)
<1>1. /\ s2 \in Seq(Frames) /\ Len(s) \in Nat /\ Len(s2) = Len(s) + 1
      /\ s2[Len(s) + 1] = f /\ \A i \in 1 .. Len(s) : s2[i] = s[i]
  BY Appended DEF Chain
<1> HIDE DEF s2
<1>2. to \notin Closable
  BY ClosedState
<1>3. Len(s) >= 1
  BY <1>1 DEF TameStack, Tags
<1>4. Tamed(A, s2, to, Len(s) + 1)
  <2>1. Above(s2, to, Len(s) + 1) = to
    BY <1>1 DEF Above
  <2>2. q \in Tags => \E b \in 1 .. Len(s) : s2[b].cont = 0
    BY <1>1 DEF TameStack
  <2> QED BY <1>1, <1>2, <2>1, <2>2 DEF Tamed, TameStack, Tags
<1>5. ASSUME NEW i \in 1 .. Len(s) PROVE Tamed(A, s2, to, i)
  <2>1. Above(s2, to, i) = Above(s, q, i)
    BY <1>1, <1>5 DEF Above
  <2>2. \A b \in 1 .. i - 1 : s2[b] = s[b]
    BY <1>1, <1>5
  <2> QED BY <1>1, <1>5, <2>1, <2>2 DEF Tamed, TameStack
<1>6. TameStack(A, s2, to)
  BY <1>1, <1>3, <1>4, <1>5 DEF TameStack, Tags
<1> QED BY <1>6 DEF s2

\* The value of an attribute: the pair takes the place of the key.
LEMMA PairChain ==
  ASSUME NEW s, NEW c, Chain(s, "val", c), NEW f \in Frames,
         f.st = "keyval", f.cont = 1
  PROVE  /\ Len(s) >= 2 /\ Len(s) \in Nat /\ c = 1
         /\ s[Len(s) - 1] \in Frames /\ s[Len(s) - 1].st \in Tags
         /\ Chain(Append(SubSeq(s, 1, Len(s) - 2), f), s[Len(s) - 1].st, c)
         /\ \A A : TameStack(A, s, "val") /\ f.key # "size" /\ f.str # "size" =>
              TameStack(A, Append(SubSeq(s, 1, Len(s) - 2), f), s[Len(s) - 1].st)
<1> DEFINE m == Len(s) - 2
           p == SubSeq(s, 1, m)
           s2 == Append(p, f)
           q == s[m + 1].st
<1>1. Len(s) \in Nat /\ Len(s) >= 1 /\ c = 1
  BY LenProperties DEF Chain
<1>2. s[Len(s)].st = "key" /\ Len(s) >= 2
  BY <1>1 DEF Chain, Chained, Above
<1>3. m \in Nat /\ m < Len(s) /\ m + 1 = Len(s) - 1 /\ Len(s) = m + 2
  BY <1>1, <1>2
<1>4. /\ p \in Seq(Frames) /\ Len(p) = m /\ s[m + 1] \in Frames
      /\ \A i \in 1 .. m : p[i] = s[i] /\ Chained(p, q, i)
      /\ \A A : TameStack(A, s, "val") => \A i \in 1 .. m : Tamed(A, p, q, i)
  BY <1>3, CutStack
<1>5. Above(s, "val", m + 1) = "key" /\ m + 1 \in 1 .. Len(s)
  BY <1>2, <1>3 DEF Above
<1>6. q \in Tags
  BY <1>5 DEF Chain, Chained
<1>7. /\ s2 \in Seq(Frames) /\ Len(s2) = m + 1 /\ s2[m + 1] = f
      /\ \A i \in 1 .. m : s2[i] = p[i]
  BY <1>4, Appended
<1> HIDE DEF p, s2
<1>8. Above(s2, q, m + 1) = q
  BY <1>7 DEF Above
<1>9. \A i \in 1 .. m : Above(s2, q, i) = IF i < m THEN Above(p, q, i) ELSE "keyval"
  <2> SUFFICES ASSUME NEW i \in 1 .. m
               PROVE  Above(s2, q, i) = IF i < m THEN Above(p, q, i) ELSE "keyval"
    OBVIOUS
  <2> HIDE DEF q, m
  <2>1. CASE i < m
    <3>1. i + 1 \in 1 .. m /\ i < Len(s2) /\ i < Len(p)
      BY <1>3, <1>4, <1>7, <2>1
    <3>2. s2[i + 1] = p[i + 1]
      BY <1>7, <3>1
    <3> QED BY <2>1, <3>1, <3>2 DEF Above
  <2>2. CASE i = m
    <3>1. i < Len(s2) /\ i + 1 = m + 1 /\ ~(i < m)
      BY <1>3, <1>7, <2>2
    <3> QED BY <1>7, <3>1 DEF Above
  <2> QED BY <1>3, <2>1, <2>2
<1>10. Above(p, q, m) = q
  BY <1>4 DEF Above
<1>11. Chained(s2, q, m + 1)
  BY <1>6, <1>7, <1>8 DEF Chained, Tags
<1>12. ASSUME NEW i \in 1 .. m PROVE Chained(s2, q, i)
  <2>1. Chained(p, q, i) /\ s2[i] = p[i]
    BY <1>4, <1>7
  <2>2. CASE i < m
    <3>1. Above(s2, q, i) = Above(p, q, i)
      BY <1>9, <2>2
    <3> QED BY <2>1, <3>1 DEF Chained
  <2>3. CASE i = m
    <3> HIDE DEF q, m
    <3>1. Above(s2, q, i) = "keyval" /\ Above(p, q, i) \in Tags
      BY <1>3, <1>6, <1>9, <1>10, <2>3
    <3>2. s2[i].st # "key"
      BY <2>1, <3>1 DEF Chained, Tags
    <3>3. /\ s2[i].st \in StateFmt \cup {"span", "image", "key", "keyval"}
          /\ s2[i].st \in {"key", "keyval"} => s2[i].cont = 1
          /\ s2[i].cont = 1 => s2[i].st \in Tags \cup {"key", "keyval"}
          /\ s2[i].st = "key" => i >= 2
      BY <2>1 DEF Chained
    <3>4. /\ s2[i].st = "key" <=> Above(s2, q, i) = "val"
          /\ Above(s2, q, i) # "key"
          /\ Above(s2, q, i) \in Tags \cup {"keyval"}
      BY <3>1, <3>2
    <3> QED BY <3>3, <3>4 DEF Chained
  <2> HIDE DEF q, m
  <2> QED BY <1>3, <2>2, <2>3
<1>13. q \in States \ {"key", "val"}
  <2>1. "link" \in StateFmt
    BY DEF StateFmt
  <2> QED BY <1>6, <2>1, FmtStates DEF Tags, States
<1>14. Chain(s2, q, c)
  <2> HIDE DEF q, m
  <2> QED BY <1>1, <1>3, <1>6, <1>7, <1>11, <1>12, <1>13 DEF Chain
<1>15. ASSUME NEW A, TameStack(A, s, "val"), f.key # "size", f.str # "size"
       PROVE  TameStack(A, s2, q)
  <2>1. Tamed(A, s, "val", m + 1)
    BY <1>3, <1>5, <1>15 DEF TameStack
  <2>2. \E b \in 1 .. m : s[b].cont = 0
    BY <1>5, <2>1 DEF Tamed
  <2>3. PICK b \in 1 .. m : s2[b].cont = 0
    BY <1>4, <1>7, <2>2
  <2>4. q # "image" /\ ("span" \notin Kinds(A) => q # "span")
    BY <2>1 DEF Tamed
  <2>5. \A i \in 1 .. m : Tamed(A, p, q, i)
    BY <1>4, <1>15
  <2>6. Tamed(A, s2, q, m + 1)
    BY <1>6, <1>7, <1>8, <1>15, ClosedState DEF Tamed, Tags
  <2>7. ASSUME NEW i \in 1 .. m PROVE Tamed(A, s2, q, i)
    <3>1. Tamed(A, p, q, i) /\ s2[i] = p[i] /\ \A d \in 1 .. i - 1 : s2[d] = p[d]
      BY <1>3, <1>7, <2>5
    <3>2. Above(s2, q, i) = Above(p, q, i) \/ Above(s2, q, i) = "keyval"
      BY <1>9
    <3>3. "keyval" \notin Closable
      BY ClosedState
    <3> QED BY <3>1, <3>2, <3>3 DEF Tamed
  <2>8. s2[1].st \in {"init", "span"}
    <3>1. 1 \in 1 .. m
      BY <1>3, <2>3
    <3>2. s2[1] = s[1]
      BY <1>4, <1>7, <3>1
    <3> QED BY <1>1, <1>15, <3>2 DEF TameStack
  <2>9. \E d \in 1 .. m + 1 : s2[d].cont = 0
    BY <1>3, <2>3
  <2> HIDE DEF q, m
  <2> QED BY <1>3, <1>7, <2>4, <2>6, <2>7, <2>8, <2>9 DEF TameStack
<1> QED BY <1>1, <1>2, <1>3, <1>4, <1>6, <1>14, <1>15 DEF p, s2

\* ">" in a span, a link or an image: the stack is cut to what lay below.
LEMMA GtChain ==
  ASSUME Chain(fstack, fsm, contflag), Bases # {}
  PROVE  /\ Len(Below) = Base - 1 /\ Base \in 1 .. Len(fstack) /\ Len(fstack) \in Nat
         /\ \A i \in 1 .. Len(Below) : Chained(Below, fstack[Base].st, i)
         /\ fstack[Base].st \in StateFmt \cup {"span", "image"}
         /\ fstack[Base].st \in States \ {"key", "val", "keyval"}
         /\ Chain(Below, fstack[Base].st, 0)
<1>1. /\ fstack \in Seq(Frames) /\ Len(fstack) \in Nat
      /\ Base \in 1 .. Len(fstack) /\ fstack[Base].cont = 0
  BY BaseWhat, LenProperties DEF Chain
<1>2. Base - 1 \in Nat /\ Base - 1 < Len(fstack) /\ (Base - 1) + 1 = Base
  BY <1>1
<1>3. /\ Below \in Seq(Frames) /\ Len(Below) = Base - 1
      /\ \A i \in 1 .. Base - 1 : Chained(Below, fstack[Base].st, i)
  <2>1. /\ SubSeq(fstack, 1, Base - 1) \in Seq(Frames)
        /\ Len(SubSeq(fstack, 1, Base - 1)) = Base - 1
        /\ \A i \in 1 .. Base - 1 :
             Chained(SubSeq(fstack, 1, Base - 1), fstack[(Base - 1) + 1].st, i)
    BY <1>2, CutStack
  <2> QED BY <1>2, <2>1 DEF Below
<1>4. Chained(fstack, fsm, Base)
  BY <1>1 DEF Chain
<1>5. fstack[Base].st \in StateFmt \cup {"span", "image"}
  BY <1>1, <1>4 DEF Chained
<1>6. fstack[Base].st \in States \ {"key", "val", "keyval"}
  BY <1>5, FmtStates DEF States
<1>7. Chain(Below, fstack[Base].st, 0)
  BY <1>3, <1>6 DEF Chain
<1> QED BY <1>1, <1>3, <1>5, <1>6, <1>7

LEMMA GtTextChain ==
  ASSUME Chain(fstack, fsm, contflag), Bases # {}, NEW f \in Frames,
         (f.st = fstack[Base].st /\ f.cont = 0) \/ f.st = "span"
  PROVE  Chain(Append(Below, f), "spantxt", 0)
<1> DEFINE b == fstack[Base].st
           s2 == Append(Below, f)
           m == Len(Below)
<1>1. /\ \A i \in 1 .. m : Chained(Below, b, i)
      /\ b \in StateFmt \cup {"span", "image"}
      /\ b \in States \ {"key", "val", "keyval"}
      /\ Below \in Seq(Frames)
  BY GtChain DEF Chain
<1>2. /\ s2 \in Seq(Frames) /\ m \in Nat /\ Len(s2) = m + 1
      /\ s2[m + 1] = f /\ \A i \in 1 .. m : s2[i] = Below[i]
  BY <1>1, Appended
<1>3. f.st = b \/ f.st = "span"
  OBVIOUS
<1>4. "spantxt" \in States \ {"key", "val"} /\ "spantxt" \notin Tags
  BY DEF States, StateTxt, StateFmt, Tags
<1> HIDE DEF b, s2, m
<1>5. Chained(s2, "spantxt", m + 1)
  <2>1. Above(s2, "spantxt", m + 1) = "spantxt"
    BY <1>2 DEF Above
  <2>2. f.st \notin {"key", "keyval"} /\ f.st \in StateFmt \cup {"span", "image"}
    BY <1>1, <1>3
  <2>3. f.cont = 1 => f.st \in Tags
    BY DEF Tags
  <2> QED BY <1>2, <2>1, <2>2, <2>3 DEF Chained
<1>6. ASSUME NEW i \in 1 .. m PROVE Chained(s2, "spantxt", i)
  <2>1. Chained(Below, b, i) /\ s2[i] = Below[i]
    BY <1>1, <1>2
  <2>2. CASE i < m
    <3>1. i + 1 \in 1 .. m /\ i < Len(s2)
      BY <1>2, <2>2
    <3>2. Above(s2, "spantxt", i) = Above(Below, b, i)
      BY <1>2, <2>2, <3>1 DEF Above, m
    <3> QED BY <2>1, <3>2 DEF Chained
  <2>3. CASE i = m
    <3>1. i < Len(s2) /\ i + 1 = m + 1 /\ ~(i < m)
      BY <1>2, <2>3
    <3>2. Above(s2, "spantxt", i) = f.st /\ Above(Below, b, i) = b
      BY <1>2, <3>1 DEF Above, m
    <3>3. s2[i].st # "key" /\ f.st \notin {"val", "key"}
      BY <1>1, <1>3, <2>1, <3>2 DEF Chained
    <3>4. s2[i].st = "keyval" => f.st \in Tags \cup {"keyval"}
      BY <1>3, <2>1, <3>2 DEF Chained, Tags
    <3>5. /\ s2[i].st \in StateFmt \cup {"span", "image", "key", "keyval"}
          /\ s2[i].st \in {"key", "keyval"} => s2[i].cont = 1
          /\ s2[i].cont = 1 => s2[i].st \in Tags \cup {"key", "keyval"}
      BY <2>1 DEF Chained
    <3> QED BY <3>2, <3>3, <3>4, <3>5 DEF Chained
  <2> QED BY <1>2, <2>2, <2>3
<1>7. Chain(s2, "spantxt", 0)
  BY <1>2, <1>4, <1>5, <1>6 DEF Chain
<1> QED BY <1>7 DEF s2

LEMMA GtTame ==
  ASSUME Chain(fstack, fsm, contflag), fsm \in Tags,
         NEW A, Tame(A), TameStack(A, fstack, fsm)
  PROVE  /\ Bases # {} /\ fsm # "image"
         /\ \A f \in Frames :
              /\ f.str # "size"
              /\ f.st = fstack[Base].st \/ (f.st = "span" /\ fsm = "span")
              => TameStack(A, Append(Below, f), "spantxt")
<1>1. Len(fstack) \in Nat /\ DOMAIN fstack = 1 .. Len(fstack)
  BY LenProperties DEF Chain
<1>2. Bases # {} /\ fsm # "image"
  BY <1>1 DEF TameStack, Bases
<1> SUFFICES ASSUME NEW f \in Frames, f.str # "size",
                    f.st = fstack[Base].st \/ (f.st = "span" /\ fsm = "span")
             PROVE  TameStack(A, Append(Below, f), "spantxt")
  BY <1>2
<1> DEFINE b == fstack[Base].st
           s2 == Append(Below, f)
           m == Len(Below)
<1>3. /\ b \in StateFmt \cup {"span", "image"} /\ Below \in Seq(Frames)
      /\ m = Base - 1 /\ Base \in 1 .. Len(fstack)
  BY <1>2, GtChain DEF Chain
<1>4. /\ s2 \in Seq(Frames) /\ m \in Nat /\ Len(s2) = m + 1
      /\ s2[m + 1] = f /\ \A i \in 1 .. m : s2[i] = Below[i]
  BY <1>3, Appended
<1>5. \A i \in 1 .. m : Tamed(A, Below, b, i) /\ Below[i] = fstack[i]
  <2>1. Base - 1 \in Nat /\ Base - 1 < Len(fstack) /\ (Base - 1) + 1 = Base
    BY <1>1, <1>3
  <2>2. \A i \in 1 .. Base - 1 :
          /\ Tamed(A, SubSeq(fstack, 1, Base - 1), fstack[(Base - 1) + 1].st, i)
          /\ SubSeq(fstack, 1, Base - 1)[i] = fstack[i]
    BY <2>1, CutStack
  <2> QED BY <1>3, <2>1, <2>2 DEF Below
<1>6. Tamed(A, fstack, fsm, Base)
  BY <1>3 DEF TameStack
<1>7. fstack[1].st \in {"init", "span"}
  BY <1>1, <1>3 DEF TameStack
<1> HIDE DEF s2, m
<1>8. /\ f.st # "image" /\ ("span" \notin Kinds(A) => f.st # "span")
      /\ "elink" \in Kinds(A) => f.st \in StateFmt
  <2>1. f.st # "image" /\ ("span" \notin Kinds(A) => f.st # "span")
    BY <1>6 DEF Tamed, TameStack
  <2>2. f.st \in StateFmt \cup {"span", "image"}
    BY <1>3
  <2>3. "elink" \in Kinds(A) => "span" \notin Kinds(A)
    BY DEF Tame
  <2> QED BY <2>1, <2>2, <2>3
<1>9. f.st = "link" => \E d \in 1 .. m : s2[d].cont = 0
  <2>1. f.st = "link" => \E d \in 1 .. Base - 1 : fstack[d].cont = 0
    BY <1>6 DEF Tamed
  <2> QED BY <1>3, <1>4, <1>5, <2>1
<1>10. f.st # "keyval"
  BY <1>3, FmtStates
<1>11. Tamed(A, s2, "spantxt", m + 1)
  <2>1. Above(s2, "spantxt", m + 1) = "spantxt"
    BY <1>4 DEF Above
  <2>2. "spantxt" \notin Closable
    BY ClosedState
  <2> QED BY <1>4, <1>8, <1>9, <1>10, <2>1, <2>2 DEF Tamed
<1>12. ASSUME NEW i \in 1 .. m PROVE Tamed(A, s2, "spantxt", i)
  <2>1. /\ Tamed(A, Below, b, i) /\ s2[i] = Below[i]
        /\ \A d \in 1 .. i - 1 : s2[d] = Below[d]
    BY <1>4, <1>5
  <2>2. Above(s2, "spantxt", i) = Above(Below, b, i) \/ Above(s2, "spantxt", i) = "span"
    <3> HIDE DEF b
    <3>1. f.st = b \/ f.st = "span"
      BY DEF b
    <3>2. CASE i < m
      <4>1. i + 1 \in 1 .. m /\ i < Len(s2)
        BY <1>4, <3>2
      <4> QED BY <1>4, <3>2, <4>1 DEF Above, m
    <3>3. CASE i = m
      <4>1. i < Len(s2) /\ i + 1 = m + 1 /\ ~(i < m)
        BY <1>4, <3>3
      <4> QED BY <1>4, <3>1, <4>1 DEF Above, m
    <3> QED BY <1>4, <3>2, <3>3
  <2>3. "span" \notin Closable
    BY ClosedState DEF Tags
  <2> QED BY <2>1, <2>2, <2>3 DEF Tamed
<1>13. s2[1].st \in {"init", "span"}
  <2>1. CASE m = 0
    <3>1. Base = 1 /\ s2[1] = f
      BY <1>3, <1>4, <2>1
    <3> QED BY <1>7, <3>1
  <2>2. CASE m # 0
    <3>1. 1 \in 1 .. m
      BY <1>4, <2>2
    <3>2. s2[1] = fstack[1]
      BY <1>4, <1>5, <3>1
    <3> QED BY <1>7, <3>2
  <2> QED BY <2>1, <2>2
<1>14. TameStack(A, s2, "spantxt")
  BY <1>4, <1>11, <1>12, <1>13 DEF TameStack, Tags
<1> QED BY <1>14 DEF s2

\* </span>: the top frame stays, and the state is that of the start.
LEMMA SpanEndChain ==
  ASSUME NEW s, NEW c, Chain(s, "spantxt", c), Len(s) >= 1,
         NEW k \in STRING, NEW x \in Texts
  PROVE  LET f == s[Len(s)]
             r == [s EXCEPT ![Len(s)] = [st |-> f.st, cont |-> f.cont, key |-> k, str |-> x]]
         IN  /\ Chain(r, "init", 0)
             /\ \A A : TameStack(A, s, "spantxt") /\ x # "size" => TameStack(A, r, "init")
<1> DEFINE f == s[Len(s)]
           g == [st |-> f.st, cont |-> f.cont, key |-> k, str |-> x]
           r == [s EXCEPT ![Len(s)] = g]
<1>1. Len(s) \in Nat /\ f \in Frames
  BY LenProperties, ElementOfSeq DEF Chain
<1>2. g \in Frames /\ g.st = f.st /\ g.cont = f.cont /\ g.str = x /\ g.key = k
  BY <1>1 DEF Frames
<1>3. /\ r \in Seq(Frames) /\ Len(r) = Len(s) /\ r[Len(s)] = g
      /\ \A i \in 1 .. Len(s) : i # Len(s) => r[i] = s[i]
  <2> HIDE DEF g
  <2> QED BY <1>1, <1>2, ExceptSeq DEF Chain
<1>4. \A i \in 1 .. Len(s) : r[i].st = s[i].st /\ r[i].cont = s[i].cont
  <2> HIDE DEF g, r
  <2> QED BY <1>2, <1>3
<1> HIDE DEF g, r
<1>5. ASSUME NEW i \in 1 .. Len(s)
      PROVE  /\ i < Len(s) => Above(r, "init", i) = Above(s, "spantxt", i)
             /\ i = Len(s) => Above(r, "init", i) = "init" /\ Above(s, "spantxt", i) = "spantxt"
  BY <1>1, <1>3, <1>4 DEF Above
<1>6. ASSUME NEW i \in 1 .. Len(s) PROVE Chained(r, "init", i)
  <2>1. Chained(s, "spantxt", i)
    BY DEF Chain
  <2>2. CASE i < Len(s)
    BY <1>4, <1>5, <2>1, <2>2 DEF Chained
  <2>3. CASE i = Len(s)
    <3>1. s[i].st \notin {"key", "keyval"}
      BY <1>5, <2>1, <2>3 DEF Chained, Tags
    <3> QED BY <1>4, <1>5, <2>1, <2>3, <3>1 DEF Chained
  <2> QED BY <1>1, <2>2, <2>3
<1>7. "init" \in States \ {"key", "val"}
  BY DEF States, StateTxt, StateFmt
<1>8. Chain(r, "init", 0)
  BY <1>1, <1>3, <1>6, <1>7 DEF Chain
<1>9. ASSUME NEW A, TameStack(A, s, "spantxt"), x # "size"
      PROVE  TameStack(A, r, "init")
  <2>1. ASSUME NEW i \in 1 .. Len(s) PROVE Tamed(A, r, "init", i)
    <3>1. Tamed(A, s, "spantxt", i)
      BY <1>9 DEF TameStack
    <3>2. \A b \in 1 .. i - 1 : b \in 1 .. Len(s)
      BY <1>1
    <3>3. r[i].str # "size" /\ (r[i].st = "keyval" => r[i].key # "size")
      <4>1. CASE i < Len(s)
        BY <1>1, <1>3, <3>1, <4>1 DEF Tamed
      <4>2. CASE i = Len(s)
        <5>1. Chained(s, "spantxt", i)
          BY DEF Chain
        <5>2. s[i].st # "keyval"
          BY <1>5, <4>2, <5>1 DEF Chained, Tags
        <5> QED BY <1>2, <1>3, <1>4, <1>9, <4>2, <5>2
      <4> QED BY <1>1, <4>1, <4>2
    <3>4. "init" \notin Closable
      BY ClosedState
    <3>5. Above(r, "init", i) = Above(s, "spantxt", i) \/ Above(r, "init", i) = "init"
      BY <1>1, <1>5
    <3>6. s[i].st = "link" => \E b \in 1 .. i - 1 : r[b].cont = 0
      BY <1>4, <3>1, <3>2 DEF Tamed
    <3>7. Above(s, "spantxt", i) = "key" => \E b \in 1 .. i - 1 : r[b].cont = 0
      BY <1>4, <3>1, <3>2 DEF Tamed
    <3> QED BY <1>4, <3>1, <3>3, <3>4, <3>5, <3>6, <3>7 DEF Tamed
  <2>2. s[1].st \in {"init", "span"}
    BY <1>9 DEF TameStack
  <2>3. r[1].st \in {"init", "span"}
    BY <1>1, <1>4, <2>2
  <2> QED BY <1>1, <1>3, <2>1, <2>3 DEF TameStack, Tags
<1> QED BY <1>8, <1>9 DEF g, r

-----------------------------------------------------------------------------
(* The inductive invariant. *)

\* The document in the text pane is the last of those shown; the contents pane
\* is in use before there is one.
ViewInv ==
  /\ args \in Args
  /\ phase \in {"contents", "document", "main", "gone"}
  /\ parse \in {"running", "done", "failed"} /\ flag \in Panes
  /\ alphabet \in Alphabets \cup {{}} /\ n \in Nat
  /\ lstack \in Seq(Readable) /\ doc \in Files \cup {None}
  /\ doc # None => lstack # <<>> /\ doc = lstack[Len(lstack)]
  /\ phase = "contents" => doc = None
  /\ flag = "contents" => doc = None /\ phase # "main"
  /\ parse = "running" => phase # "gone" /\ (phase \in Panes => flag = phase)

ParserInv ==
  /\ Chain(fstack, fsm, contflag)
  /\ parse = "running" /\ Tame(alphabet) => TameStack(alphabet, fstack, fsm)
  /\ NoTrap

\* Hidden text is read in the state of <hid> only, which takes no text.
StyleInv ==
  /\ ts \in Styles
  /\ parse = "running" /\ Hides(ts) => fsm = "hid"

CacheInv ==
  /\ accum \in Seq(Shown) /\ Len(accum) <= CacheMax
  /\ \/ oldstate = <<>> /\ accum = <<>>
     \/ \E s \in Styles : ~Hides(s) /\ oldstate = <<s>>
  /\ lastsp \in {"sp", "other"}
  /\ parse = "done" => accum = <<>>

Seen ==
  {r \in [x : Shown \cup Others, look : Styles] : ~Hides(r.look)}
PageInv == page \in [Panes -> Seq(Seen)]

IInv == ViewInv /\ ParserInv /\ StyleInv /\ CacheInv /\ PageInv

LEMMA TokenIs ==
  ASSUME ViewInv, NEW t \in alphabet
  PROVE  /\ alphabet \in Alphabets
         /\ t \in [k : STRING, x : Texts] /\ t.k \in Kinds(alphabet)
         /\ Tame(alphabet) => /\ t.x # "size" /\ t.k # "image"
                              /\ Len(Parts[t.x]) = 1 /\ Parts[t.x][1].k = "run"
<1>1. alphabet \in Alphabets
  BY DEF ViewInv
<1>2. t \in [k : STRING, x : STRING] /\ t.x \in Texts
  BY <1>1, ViewerAssumption DEF Texts
<1>3. t.k \in Kinds(alphabet)
  BY DEF Kinds
<1> QED BY <1>1, <1>2, <1>3 DEF Tame

LEMMA TextStrings == Texts \subseteq STRING
<1> SUFFICES ASSUME NEW x \in Texts PROVE x \in STRING
  OBVIOUS
<1>1. PICK t \in UNION Alphabets : x = t.x
  BY DEF Texts
<1>2. t \in [k : STRING, x : STRING]
  BY <1>1, ViewerAssumption
<1> QED BY <1>1, <1>2

LEMMA EmptyStack ==
  /\ Chain(<<>>, "init", 0)
  /\ \A A : TameStack(A, <<>>, "init")
<1>1. <<>> \in Seq(Frames) /\ Len(<<>>) = 0
  BY EmptySeq
<1>2. "init" \in States \ {"key", "val"}
  BY DEF States, StateTxt, StateFmt
<1> QED BY <1>1, <1>2 DEF Chain, TameStack, Tags

LEMMA FrameIs ==
  ASSUME ViewInv, ParserInv, NEW t \in alphabet
  PROVE  /\ Frame(t) \in Frames /\ Frame(t).st = fsm /\ Frame(t).cont = contflag
         /\ Frame(t).str = t.x /\ Frame(t).key = t.k
  BY TokenIs DEF Frame, Frames, ParserInv, Chain

\* Every token that is not the last of a failing document.
LEMMA ReadKeeps ==
  ASSUME IInv, NEW t \in alphabet, Read(t), parse' = parse
  PROVE  ViewInv' /\ alphabet' = alphabet /\ flag' = flag /\ parse = "running"
  BY DEF IInv, ViewInv, Read, Comes, viewer

LEMMA PendingSeen ==
  ASSUME StyleInv, CacheInv
  PROVE  Pending \in Seq(Seen)
<1>1. CASE accum = <<>>
  <2>1. Pending = <<>>
    BY <1>1 DEF Pending, Tagged
  <2> QED BY <2>1
<1>2. CASE accum # <<>>
  <2>1. PICK s \in Styles : ~Hides(s) /\ oldstate = <<s>>
    BY <1>2 DEF CacheInv
  <2>2. CacheLook = s
    BY <2>1 DEF CacheLook
  <2>3. NoTab(s) \in Styles /\ ~Hides(NoTab(s))
    BY <2>1, NoTabStyle DEF Hides
  <2>4. Len(accum) \in Nat /\ DOMAIN accum = 1 .. Len(accum)
    BY LenProperties DEF CacheInv
  <2>5. \A i \in 1 .. Len(accum) : [x |-> accum[i], look |-> NoTab(s)] \in Seen
    <3> SUFFICES ASSUME NEW i \in 1 .. Len(accum)
                 PROVE  [x |-> accum[i], look |-> NoTab(s)] \in Seen
      OBVIOUS
    <3>1. accum[i] \in Shown
      BY ElementOfSeq DEF CacheInv
    <3> QED BY <2>3, <3>1 DEF Seen
  <2>6. Pending = [i \in 1 .. Len(accum) |-> [x |-> accum[i], look |-> NoTab(s)]]
    BY <2>2, <2>4 DEF Pending, Tagged
  <2> QED BY <2>4, <2>5, <2>6, IsASeq
<1> QED BY <1>1, <1>2

LEMMA TrapKept ==
  ASSUME NoTrap, UNCHANGED <<parse, alphabet, held, accum>>
  PROVE  NoTrap'
  BY DEF NoTrap, Poisoned, Encodes

LEMMA InitInv == Init => IInv
<1> SUFFICES ASSUME Init PROVE IInv
  OBVIOUS
<1>1. ViewInv
  <2>1. <<>> \in Seq(Readable)
    BY EmptySeq
  <2>2. phase \in Panes /\ flag = "document"
    BY DEF Init, Panes
  <2> QED BY <2>1, <2>2 DEF Init, ViewInv, Panes
<1>2. ParserInv
  BY EmptyStack DEF Init, ParserInv, NoTrap
<1>3. StyleInv
  BY PlainStyle DEF Init, StyleInv
<1>4. CacheInv
  <2>1. <<>> \in Seq(Shown) /\ Len(<<>>) = 0
    BY EmptySeq
  <2>2. 0 <= CacheMax
    <3>1. CacheMax \in Nat
      BY ViewerAssumption
    <3> QED BY <3>1
  <2>3. accum = <<>> /\ oldstate = <<>> /\ lastsp = "other"
    BY DEF Init
  <2>4. accum \in Seq(Shown) /\ Len(accum) <= CacheMax
    BY <2>1, <2>2, <2>3
  <2> QED BY <2>3, <2>4 DEF CacheInv
<1>5. PageInv
  <2>1. <<>> \in Seq(Seen)
    BY EmptySeq
  <2> HIDE DEF Seen
  <2> QED BY <2>1 DEF Init, PageInv
<1> QED BY <1>1, <1>2, <1>3, <1>4, <1>5 DEF IInv

-----------------------------------------------------------------------------
(* The steps of the viewer. *)

\* showfile(), of the last document, of a link, or of an argument.
LEMMA ShowfileInv ==
  ASSUME IInv, NEW name, NEW left \in Seq(Readable), Showfile(name, left),
         parse # "running", flag' \in Panes,
         \/ phase \in Panes /\ flag' = phase /\ left = lstack
         \/ phase = "main" /\ flag' = flag /\ (name \in Readable \/ left = lstack)
  PROVE  IInv'
<1>1. phase = "main" => flag' = "document"
  BY DEF IInv, ViewInv, Panes
<1>2. CASE name \in Readable /\ lstack' = Append(left, name)
           /\ doc' = (IF flag' = "contents" THEN doc ELSE name)
           /\ page' = [page EXCEPT ![flag'] = <<>>]
           /\ ts' = Plain
           /\ alphabet' \in Written[name] /\ n' = 0 /\ last' = ""
           /\ fsm' = "init" /\ contflag' = 0 /\ fstack' = <<>>
           /\ parse' = "running"
           /\ UNCHANGED <<args, phase, cache>>
  <2>1. lstack' \in Seq(Readable) /\ lstack' # <<>> /\ lstack'[Len(lstack')] = name
    <3>1. /\ lstack' \in Seq(Readable) /\ Len(lstack') = Len(left) + 1
          /\ lstack'[Len(left) + 1] = name /\ Len(left) \in Nat
      BY <1>2, AppendProperties, LenProperties
    <3>2. Len(<<>>) = 0
      BY EmptySeq
    <3> QED BY <3>1, <3>2
  <2>2. alphabet' \in Alphabets
    BY <1>2, ViewerAssumption
  <2>3. phase \in Panes => flag' = phase
    BY DEF Panes
  <2>4. name \in Files
    BY <1>2, ViewerAssumption
  <2>5. flag' = "contents" => doc = None /\ phase # "main"
    BY <1>1, <2>3 DEF IInv, ViewInv, Panes
  <2>6. phase = "contents" => flag' = "contents"
    BY <2>3 DEF Panes
  <2>7. ViewInv'
    <3>1. phase' = phase /\ phase # "gone" /\ args' = args /\ parse' = "running"
      BY <1>2 DEF Panes
    <3>2. doc' \in Files \cup {None} /\ (doc' # None => doc' = lstack'[Len(lstack')])
      BY <1>2, <2>1, <2>4, <2>5
    <3>3. phase = "contents" => doc' = None
      BY <1>2, <2>5, <2>6
    <3>4. flag' = "contents" => doc' = None /\ phase # "main"
      BY <1>2, <2>5
    <3>5. n' \in Nat
      BY <1>2
    <3> QED BY <2>1, <2>2, <2>3, <3>1, <3>2, <3>3, <3>4, <3>5 DEF IInv, ViewInv
  <2>8. ParserInv'
    BY <1>2, EmptyStack DEF ParserInv, NoTrap
  <2>9. StyleInv'
    BY <1>2, PlainStyle DEF StyleInv
  <2>10. CacheInv'
    BY <1>2 DEF IInv, CacheInv, cache
  <2>11. PageInv'
    <3>1. <<>> \in Seq(Seen)
      BY EmptySeq
    <3> HIDE DEF Seen
    <3> QED BY <1>2, <3>1 DEF IInv, PageInv, Seen
  <2> QED BY <2>7, <2>8, <2>9, <2>10, <2>11 DEF IInv
<1>3. CASE /\ name \notin Readable
           /\ lstack' = left
           /\ page' = [page EXCEPT !["document"] =
                         Append(@, [x |-> "unreadable", look |-> Plain])]
           /\ phase' = After(phase)
           /\ UNCHANGED <<args, doc, parse, text, parser, ts, cache, held>>
  <2>1. left = lstack
    BY <1>3
  <2>2. phase' \in {"document", "main"} /\ (phase' = "document" => phase = "contents")
    BY <1>3 DEF After, Panes
  <2>3. flag' = "contents" => doc = None /\ phase' # "main"
    BY <1>1, <1>3, <2>2 DEF IInv, ViewInv, After, Panes
  <2>4. ViewInv'
    BY <1>3, <2>1, <2>2, <2>3 DEF IInv, ViewInv, text, Panes
  <2>5. ParserInv'
    BY <1>3, TrapKept DEF IInv, ParserInv, parser, text, cache
  <2>6. StyleInv'
    BY <1>3 DEF IInv, StyleInv, parser
  <2>7. CacheInv'
    BY <1>3 DEF IInv, CacheInv, cache
  <2>8. PageInv'
    <3>1. [x |-> "unreadable", look |-> Plain] \in Seen
      BY PlainStyle DEF Seen, Others
    <3>2. page["document"] \in Seq(Seen)
      BY DEF IInv, PageInv, Panes
    <3>3. Append(page["document"], [x |-> "unreadable", look |-> Plain]) \in Seq(Seen)
      BY <3>1, <3>2, AppendProperties
    <3> HIDE DEF Seen
    <3> QED BY <1>3, <3>3 DEF IInv, PageInv
  <2> QED BY <2>4, <2>5, <2>6, <2>7, <2>8 DEF IInv
<1> QED BY <1>2, <1>3 DEF Showfile

LEMMA ViewerSteps ==
  ASSUME IInv, Mainfunc \/ Follow \/ bslink \/ Quit
  PROVE  IInv'
<1>1. CASE Mainfunc
  <2>1. lstack \in Seq(Readable)
    BY DEF IInv, ViewInv
  <2> QED BY <1>1, <2>1, ShowfileInv DEF Mainfunc
<1>2. CASE Follow
  <2>1. PICK name : Showfile(name, lstack)
    BY <1>2 DEF Follow
  <2>2. lstack \in Seq(Readable) /\ flag \in Panes
    BY DEF IInv, ViewInv
  <2> QED BY <1>2, <2>1, <2>2, ShowfileInv DEF Follow, Idle
<1>3. CASE bslink
  <2> DEFINE left == SubSeq(lstack, 1, Len(lstack) - 1)
  <2>1. lstack \in Seq(Readable) /\ flag \in Panes
    BY DEF IInv, ViewInv
  <2>2. Len(lstack) \in Nat /\ Len(lstack) > 1
    BY <1>3, <2>1, LenProperties DEF bslink
  <2>3. left \in Seq(Readable) /\ Len(left) = Len(lstack) - 1
    BY <2>1, <2>2, SubSeqProperties
  <2>4. left[Len(left)] \in Readable
    BY <2>2, <2>3, ElementOfSeq
  <2>5. Showfile(left[Len(left)], left)
    BY <1>3 DEF bslink
  <2> HIDE DEF left
  <2> QED BY <1>3, <2>1, <2>3, <2>4, <2>5, ShowfileInv DEF bslink, Idle
<1>4. CASE Quit
  <2>1. ViewInv'
    BY <1>4 DEF Quit, Idle, IInv, ViewInv, text, Panes
  <2>2. ParserInv'
    BY <1>4, TrapKept DEF Quit, IInv, ParserInv, parser, text, cache
  <2>3. StyleInv' /\ CacheInv' /\ PageInv'
    BY <1>4 DEF Quit, IInv, StyleInv, CacheInv, PageInv, parser, cache
  <2> QED BY <2>1, <2>2, <2>3 DEF IInv
<1> QED BY <1>1, <1>2, <1>3, <1>4

\* The end of the text.
LEMMA FlushInv == ASSUME IInv, Flush PROVE IInv'
<1>1. ViewInv'
  <2>1. phase' = After(phase) /\ phase # "gone" /\ (phase \in Panes => flag = phase)
    BY DEF Flush, IInv, ViewInv
  <2>2. phase' \in {"document", "main"} /\ (phase' = "main" => flag # "contents")
    BY <2>1 DEF After, IInv, ViewInv, Panes
  <2> QED BY <2>1, <2>2 DEF Flush, IInv, ViewInv, After
<1>2. ParserInv'
  BY EmptyStack DEF Flush, ParserInv, NoTrap
<1>3. StyleInv'
  BY DEF Flush, IInv, StyleInv
<1>4. CacheInv'
  <2>1. <<>> \in Seq(Shown) /\ Len(<<>>) = 0
    BY EmptySeq
  <2>2. 0 <= CacheMax
    <3>1. CacheMax \in Nat
      BY ViewerAssumption
    <3> QED BY <3>1
  <2>3. accum' = <<>> /\ oldstate' = oldstate /\ lastsp' = lastsp
    BY DEF Flush
  <2>4. accum' \in Seq(Shown) /\ Len(accum') <= CacheMax
    BY <2>1, <2>2, <2>3
  <2> QED BY <2>3, <2>4 DEF IInv, CacheInv
<1>5. PageInv'
  <2>1. Pending \in Seq(Seen) /\ page[flag] \in Seq(Seen)
    BY PendingSeen DEF IInv, PageInv, ViewInv
  <2>2. page[flag] \o Pending \in Seq(Seen)
    BY <2>1, ConcatProperties
  <2> QED BY <2>2 DEF Flush, IInv, PageInv
<1> QED BY <1>1, <1>2, <1>3, <1>4, <1>5 DEF IInv

-----------------------------------------------------------------------------
(* The callbacks. *)

\* A callback that changes the style and the parser's stack only.
LEMMA QuietInv ==
  ASSUME IInv, NEW t \in alphabet, Read(t), UNCHANGED <<parse, cache, page>>,
         ts' \in Styles, Hides(ts') => fsm' = "hid",
         Chain(fstack', fsm', contflag'),
         Tame(alphabet) => TameStack(alphabet, fstack', fsm')
  PROVE  IInv'
<1>1. parse' = parse
  OBVIOUS
<1>2. ViewInv' /\ alphabet' = alphabet /\ flag' = flag /\ parse = "running"
  BY <1>1, ReadKeeps
<1>3. ParserInv'
  BY <1>2 DEF ParserInv, NoTrap
<1>4. StyleInv'
  BY DEF StyleInv, Hides
<1>5. CacheInv' /\ PageInv'
  BY DEF IInv, CacheInv, PageInv, cache
<1> QED BY <1>2, <1>3, <1>4, <1>5 DEF IInv

\* What holds where a callback begins.
LEMMA Given0 ==
  ASSUME IInv, NEW t \in alphabet, Read(t)
  PROVE  /\ Chain(fstack, fsm, contflag) /\ ts \in Styles
         /\ Tame(alphabet) => TameStack(alphabet, fstack, fsm)
         /\ Hides(ts) => fsm = "hid"
         /\ t \in [k : STRING, x : Texts] /\ t.k \in Kinds(alphabet)
         /\ Tame(alphabet) => t.x # "size" /\ t.k # "image"
         /\ Frame(t) \in Frames /\ Frame(t).st = fsm /\ Frame(t).cont = contflag
         /\ Frame(t).str = t.x /\ Frame(t).key = t.k
  BY TokenIs, FrameIs DEF IInv, ParserInv, StyleInv, Read, Comes

LEMMA OpenInv == ASSUME IInv, NEW t \in alphabet, Open(t) PROVE IInv'
<1>1. /\ Read(t) /\ fsm \in StateFmt /\ t.k \in Openers /\ ts' = Opened(ts, t)
      /\ fstack' = Append(fstack, Frame(t)) /\ fsm' = Enters(t.k) /\ contflag' = 0
      /\ UNCHANGED <<parse, cache, page>>
  BY DEF Open, Push
<1>2. fsm' \in States \ {"key", "val", "init", "spantxt"}
  BY <1>1, OpenedIn, OpenedState
<1>3. ts' \in Styles /\ (Hides(ts') => fsm' = "hid")
  <2>1. ts' \in Styles /\ (Hides(ts') => Hides(ts) \/ t.k = "hid")
    BY <1>1, Given0, OpenedStyle
  <2>2. ~Hides(ts)
    BY <1>1, Given0, FmtStates
  <2>3. t.k = "hid" => Enters(t.k) = "hid"
    BY EntersWhat DEF Crossed
  <2> QED BY <1>1, <2>1, <2>2, <2>3
<1>4. Chain(fstack', fsm', contflag')
  BY <1>1, <1>2, Given0, OpenChain
<1>5. ASSUME Tame(alphabet) PROVE TameStack(alphabet, fstack', fsm')
  <2>1. fsm' # "image" /\ (fsm' = "span" => t.k = "span")
    <3>1. (fsm' = "image" => t.k = "image") /\ (fsm' = "span" => t.k = "span")
      BY <1>1, OpenedState DEF Tags
    <3> QED BY <1>1, <1>5, <3>1, Given0
  <2>2. fsm' = "span" => "span" \in Kinds(alphabet)
    BY <1>1, <2>1, Given0
  <2>3. /\ Chain(fstack, fsm, contflag) /\ TameStack(alphabet, fstack, fsm)
        /\ Frame(t) \in Frames /\ Frame(t).st = fsm /\ Frame(t).cont = contflag
        /\ Frame(t).str # "size"
    BY <1>1, <1>5, Given0
  <2>4. fsm' \in States \ {"key", "val", "init", "spantxt", "image"}
    BY <1>2, <2>1
  <2> QED BY <1>1, <2>2, <2>3, <2>4, OpenTame
<1> QED BY <1>1, <1>3, <1>4, <1>5, QuietInv

LEMMA CloseInv == ASSUME IInv, NEW t \in alphabet, Close(t) PROVE IInv'
<1>1. /\ Read(t) /\ t.k \in DOMAIN Closes /\ fsm = Enters(Closes[t.k])
      /\ ts' = Ended(ts, Closes[t.k]) /\ fstack # <<>>
      /\ fsm' = fstack[Len(fstack)].st /\ contflag' = fstack[Len(fstack)].cont
      /\ fstack' = SubSeq(fstack, 1, Len(fstack) - 1)
      /\ UNCHANGED <<parse, cache, page>>
  BY DEF Close, Pop
<1>2. fsm \in Closable
  BY <1>1 DEF Closable
<1>3. fsm \notin Tags \cup {"key", "val"}
  BY <1>2, ClosedState
<1>4. ts' \in Styles /\ ~Hides(ts')
  <2>1. ts' \in Styles /\ (Hides(ts') => Hides(ts) /\ Closes[t.k] # "hid")
    BY <1>1, Given0, EndedStyle
  <2>2. fsm = "hid" => Closes[t.k] = "hid"
    BY <1>1, ClosesHid
  <2> QED BY <1>1, <2>1, <2>2, Given0
<1>5. Chain(fstack', fsm', contflag')
  <2>1. Chain(fstack, fsm, contflag)
    BY <1>1, Given0
  <2>2. Len(fstack) >= 1
    BY <1>1, <2>1, EmptySeq DEF Chain
  <2> QED BY <1>1, <1>3, <2>1, <2>2, PopChain
<1>6. ASSUME Tame(alphabet) PROVE TameStack(alphabet, fstack', fsm')
  <2>1. Chain(fstack, fsm, contflag) /\ TameStack(alphabet, fstack, fsm)
    BY <1>1, <1>6, Given0
  <2> QED BY <1>1, <1>2, <2>1, PopTame
<1> QED BY <1>1, <1>4, <1>5, <1>6, QuietInv

LEMMA TabInv == ASSUME IInv, NEW t \in alphabet, Tab(t) \/ Skip(t) PROVE IInv'
<1>1. Read(t) /\ UNCHANGED <<parse, parser, cache, page>>
  BY DEF Tab, Skip
<1>2. ts' \in Styles /\ (Hides(ts') => Hides(ts))
  <2>1. CASE Tab(t)
    <3>1. ts' = [ts EXCEPT !.num["tab"] = @ + 1]
      BY <2>1 DEF Tab
    <3>2. ts \in Styles
      BY <1>1, Given0
    <3>3. ts' \in Styles
      BY <3>1, <3>2 DEF Styles
    <3>4. ts'.on = ts.on
      BY <3>1, <3>2 DEF Styles
    <3> QED BY <3>3, <3>4 DEF Hides
  <2>2. CASE Skip(t)
    BY <1>1, <2>2, Given0 DEF Skip
  <2> QED BY <2>1, <2>2
<1>3. fstack' = fstack /\ fsm' = fsm /\ contflag' = contflag
  BY <1>1 DEF parser
<1>4. /\ Hides(ts') => fsm' = "hid"
      /\ Chain(fstack', fsm', contflag')
      /\ Tame(alphabet) => TameStack(alphabet, fstack', fsm')
  BY <1>1, <1>2, <1>3, Given0
<1> QED BY <1>1, <1>2, <1>4, QuietInv

\* Within a tag there is no hidden text.
LEMMA InTag ==
  ASSUME IInv, NEW t \in alphabet, Read(t), ts' = ts, fsm # "hid"
  PROVE  ts' \in Styles /\ ~Hides(ts')
  BY Given0 DEF Hides

LEMMA AttrInv == ASSUME IInv, NEW t \in alphabet, Key(t) \/ Eq(t) PROVE IInv'
<1>1. PICK to : /\ Read(t)
                /\ (fsm \in Tags /\ to = "key") \/ (fsm = "key" /\ to = "val")
                /\ fstack' = Append(fstack, Frame(t)) /\ fsm' = to /\ contflag' = 1
                /\ UNCHANGED <<parse, ts, cache, page>>
  BY DEF Key, Eq, Push, Tags
<1>2. ts' \in Styles /\ ~Hides(ts')
  BY <1>1, InTag DEF Tags
<1>3. Chain(fstack', fsm', contflag')
  BY <1>1, Given0, AttrChain
<1>4. ASSUME Tame(alphabet) PROVE TameStack(alphabet, fstack', fsm')
  <2>1. /\ Chain(fstack, fsm, contflag) /\ TameStack(alphabet, fstack, fsm)
        /\ Frame(t) \in Frames /\ Frame(t).st = fsm /\ Frame(t).cont = contflag
        /\ Frame(t).str # "size"
    BY <1>1, <1>4, Given0
  <2> QED BY <1>1, <2>1, AttrTame
<1> QED BY <1>1, <1>2, <1>3, <1>4, QuietInv

LEMMA KeyvalInv == ASSUME IInv, NEW t \in alphabet, Keyval(t) PROVE IInv'
<1> DEFINE k == fstack[Len(fstack) - 1]
           f == [st |-> "keyval", cont |-> 1, key |-> k.str, str |-> t.x]
<1>1. /\ Read(t) /\ fsm = "val"
      /\ fstack' = Append(SubSeq(fstack, 1, Len(fstack) - 2), f)
      /\ fsm' = k.st /\ contflag' = contflag
      /\ UNCHANGED <<parse, ts, cache, page>>
  BY DEF Keyval
<1>2. ts' \in Styles /\ ~Hides(ts')
  BY <1>1, InTag
<1>3. Chain(fstack, "val", contflag)
  BY <1>1, Given0
<1>4. k \in Frames /\ Len(fstack) >= 2 /\ Len(fstack) \in Nat
  <2>1. \E f2 \in Frames : f2.st = "keyval" /\ f2.cont = 1
    <3>1. [Frame(t) EXCEPT !.st = "keyval", !.cont = 1] \in Frames
      BY <1>1, Given0 DEF Frames
    <3>2. /\ [Frame(t) EXCEPT !.st = "keyval", !.cont = 1].st = "keyval"
          /\ [Frame(t) EXCEPT !.st = "keyval", !.cont = 1].cont = 1
      BY <1>1, Given0 DEF Frames
    <3> QED BY <3>1, <3>2
  <2> QED BY <1>3, <2>1, PairChain
<1>5. f \in Frames /\ f.st = "keyval" /\ f.cont = 1 /\ f.key = k.str /\ f.str = t.x
  <2>1. k.str \in STRING
    BY <1>4, TextStrings DEF Frames
  <2>2. t.x \in Texts
    BY <1>1, Given0
  <2> HIDE DEF k
  <2> QED BY <2>1, <2>2 DEF Frames
<1> HIDE DEF f
<1>6. Chain(fstack', fsm', contflag')
  BY <1>1, <1>3, <1>5, PairChain
<1>7. ASSUME Tame(alphabet) PROVE TameStack(alphabet, fstack', fsm')
  <2>1. TameStack(alphabet, fstack, "val") /\ t.x # "size"
    BY <1>1, <1>7, Given0
  <2>2. k.str # "size"
    <3>1. Len(fstack) - 1 \in 1 .. Len(fstack)
      BY <1>4
    <3> QED BY <2>1, <3>1 DEF TameStack, Tamed
  <2> QED BY <1>1, <1>3, <1>5, <2>1, <2>2, PairChain
<1> QED BY <1>1, <1>2, <1>6, <1>7, QuietInv

LEMMA GtInv == ASSUME IInv, NEW t \in alphabet, Span2(t) \/ Link2(t) PROVE IInv'
<1> DEFINE g == [st |-> fstack[Base].st, cont |-> 0, key |-> t.k, str |-> t.x]
<1>1. PICK f : /\ Read(t) /\ fsm \in Tags /\ fsm # "image" /\ Bases # {}
               /\ (f = Frame(t) /\ fsm = "span" /\ ts' = Spanned)
                    \/ (f = g /\ fsm = "link" /\ ts' = Linked)
               /\ fstack' = Append(Below, f) /\ fsm' = "spantxt" /\ contflag' = 0
               /\ UNCHANGED <<parse, cache, page>>
  <2>1. CASE Span2(t)
    BY <2>1 DEF Span2, Traps, Tags
  <2>2. CASE Link2(t)
    BY <2>2 DEF Link2, Traps, Tags
  <2> QED BY <2>1, <2>2
<1>2. Chain(fstack, fsm, contflag) /\ fstack \in Seq(Frames)
  BY <1>1, Given0 DEF Chain
<1>3. /\ g \in Frames /\ g.st = fstack[Base].st /\ g.cont = 0 /\ g.str = t.x
  <2>1. fstack[Base].st \in States
    BY <1>1, <1>2, GtChain
  <2>2. t.k \in STRING /\ t.x \in Texts
    BY <1>1, Given0
  <2> QED BY <2>1, <2>2 DEF Frames
<1> HIDE DEF g
<1>4. /\ f \in Frames /\ f.str = t.x
      /\ (f.st = fstack[Base].st /\ f.cont = 0) \/ (f.st = "span" /\ fsm = "span")
  BY <1>1, <1>3, Given0
<1>5. ts' \in Styles /\ ~Hides(ts')
  <2>1. ts \in Styles /\ ~Hides(ts)
    BY <1>1, Given0 DEF Tags
  <2>2. Spanned \in Styles /\ (Hides(Spanned) => Hides(ts))
    BY <1>1, <1>2, <2>1, SpannedStyle
  <2>3. Linked \in Styles /\ (Hides(Linked) => Hides(ts))
    BY <1>1, <1>2, <2>1, LinkedStyle DEF Hides
  <2> QED BY <1>1, <2>1, <2>2, <2>3
<1>6. Chain(fstack', fsm', contflag')
  BY <1>1, <1>2, <1>4, GtTextChain
<1>7. ASSUME Tame(alphabet) PROVE TameStack(alphabet, fstack', fsm')
  <2>1. TameStack(alphabet, fstack, fsm) /\ f.str # "size"
    BY <1>1, <1>4, <1>7, Given0
  <2>2. f.st = fstack[Base].st \/ (f.st = "span" /\ fsm = "span")
    BY <1>4
  <2> QED BY <1>1, <1>2, <1>4, <1>7, <2>1, <2>2, GtTame
<1> QED BY <1>1, <1>5, <1>6, <1>7, QuietInv

LEMMA eSpanInv == ASSUME IInv, NEW t \in alphabet, eSpan(t) PROVE IInv'
<1> DEFINE f == fstack[Len(fstack)]
           r == [fstack EXCEPT ![Len(fstack)] =
                   [st |-> f.st, cont |-> f.cont, key |-> t.k, str |-> t.x]]
<1>1. /\ Read(t) /\ fsm = "spantxt" /\ ts' = SpanEnded(ts) /\ fstack # <<>>
      /\ fstack' = r /\ fsm' = "init" /\ contflag' = 0
      /\ UNCHANGED <<parse, cache, page>>
  BY DEF eSpan, Traps
<1>2. Chain(fstack, "spantxt", contflag) /\ t.k \in STRING /\ t.x \in Texts
  BY <1>1, Given0
<1>3. Len(fstack) >= 1
  BY <1>1, <1>2, EmptySeq DEF Chain
<1>4. /\ Chain(r, "init", 0)
      /\ \A A : TameStack(A, fstack, "spantxt") /\ t.x # "size" => TameStack(A, r, "init")
  BY <1>2, <1>3, SpanEndChain
<1> HIDE DEF r
<1>5. ts' \in Styles /\ ~Hides(ts')
  BY <1>1, Given0, SpanEndedStyle
<1>6. Tame(alphabet) => TameStack(alphabet, fstack', fsm')
  BY <1>1, <1>4, Given0
<1> QED BY <1>1, <1>4, <1>5, <1>6, QuietInv

LEMMA eLinkInv == ASSUME IInv, NEW t \in alphabet, eLink(t) PROVE IInv'
<1>1. /\ Read(t) /\ fsm = "spantxt" /\ t.k = "elink" /\ fstack # <<>>
      /\ ts' = [ts EXCEPT !.link = NoName, !.val["color"] = ""]
      /\ fsm' = fstack[Len(fstack)].st /\ contflag' = fstack[Len(fstack)].cont
      /\ fstack' = SubSeq(fstack, 1, Len(fstack) - 1)
      /\ UNCHANGED <<parse, cache, page>>
  BY DEF eLink, Pop
<1>2. Chain(fstack, fsm, contflag)
  BY <1>1, Given0
<1>3. ts' \in Styles /\ ~Hides(ts')
  <2>1. ts \in Styles /\ ~Hides(ts)
    BY <1>1, Given0
  <2>2. "" \in Values
    BY DEF Values
  <2>3. ts' \in Styles
    <3> HIDE DEF Values
    <3> QED BY <1>1, <2>1, <2>2 DEF Styles
  <2>4. ts'.on = ts.on
    BY <1>1, <2>1 DEF Styles
  <2> QED BY <2>1, <2>3, <2>4 DEF Hides
<1>4. Len(fstack) >= 1
  BY <1>1, <1>2, EmptySeq DEF Chain
<1>5. Chain(fstack', fsm', contflag')
  BY <1>1, <1>2, <1>4, PopChain DEF Tags
<1>6. ASSUME Tame(alphabet) PROVE TameStack(alphabet, fstack', fsm')
  <2>1. TameStack(alphabet, fstack, fsm) /\ "elink" \in Kinds(alphabet)
    BY <1>1, <1>6, Given0
  <2> QED BY <1>1, <1>2, <2>1, PopTame
<1> QED BY <1>1, <1>3, <1>5, <1>6, QuietInv

\* A picture; tame documents have none.
LEMMA ImageInv == ASSUME IInv, NEW t \in alphabet, Image2(t) PROVE IInv'
<1>1. /\ Read(t) /\ fsm = "image" /\ Bases # {}
      /\ page' = [page EXCEPT ![flag] =
                    Append(@, [x |-> "picture", look |-> Plain])]
      /\ fsm' = fstack[Base].st /\ contflag' = 0 /\ fstack' = Below
      /\ UNCHANGED <<parse, ts, cache>>
  BY DEF Image2, Traps
<1>2. ViewInv' /\ alphabet' = alphabet /\ flag' = flag /\ parse = "running"
  BY <1>1, ReadKeeps
<1>3. ParserInv'
  <2>1. Chain(fstack', fsm', contflag')
    BY <1>1, Given0, GtChain
  <2>2. ~Tame(alphabet)
    BY <1>1, Given0 DEF TameStack
  <2> QED BY <1>1, <1>2, <2>1, <2>2 DEF ParserInv, NoTrap
<1>4. StyleInv'
  BY <1>1, Given0 DEF StyleInv, Hides
<1>5. CacheInv'
  BY <1>1 DEF IInv, CacheInv, cache
<1>6. PageInv'
  <2>1. [x |-> "picture", look |-> Plain] \in Seen
    BY PlainStyle DEF Seen, Others
  <2>2. flag \in Panes /\ page[flag] \in Seq(Seen)
    BY DEF IInv, ViewInv, PageInv
  <2>3. Append(page[flag], [x |-> "picture", look |-> Plain]) \in Seq(Seen)
    BY <2>1, <2>2, AppendProperties
  <2> HIDE DEF Seen
  <2> QED BY <1>1, <2>3 DEF IInv, PageInv
<1> QED BY <1>2, <1>3, <1>4, <1>5, <1>6 DEF IInv

\* The three things that may become of a text.
\* Nothing is folded over no parts.
LEMMA NoParts == ASSUME NEW u PROVE FoldLeft(Inner, u, <<>>) = u
<1> DEFINE G == [s \in SUBSET {} |-> u]
<1>1. SUBSET {} = {{}}
  OBVIOUS
<1>2. DOMAIN <<>> = {}
  OBVIOUS
<1> QED BY <1>1, <1>2 DEF FoldLeft, MapThenFoldSet

\* Text without an escape raises where it must end one that is none, and then
\* leaves it as it is.
LEMMA RunRaises ==
  ASSUME NEW t, Len(Parts[t.x]) = 1, Parts[t.x][1].k = "run", ~Unescaped(t).ok
  PROVE  Stuck(Kept(Unescaped(t)))
<1> DEFINE p == Parts[t.x]
           u == [out |-> <<>>, tab |-> held.tab, len |-> held.len, ok |-> TRUE]
<1>1. Front(p) = <<>> /\ Last(p) = p[1]
  BY DEF Front, Last
<1>2. Unescaped(t) = Run(u, p[1].n)
  BY <1>1, NoParts DEF Unescaped, unescape, Ending
<1>3. Stuck(u) /\ Unescaped(t) = Fails(u)
  BY <1>2 DEF Run
<1> QED BY <1>3 DEF Fails, Kept, Stuck, Complete

LEMMA TextWhat ==
  ASSUME IInv, NEW t \in alphabet, Text(t)
  PROVE  /\ Read(t) /\ UNCHANGED <<parse, parser>> /\ lastsp' \in {"sp", "other"}
         /\ fsm # "hid" /\ ts \in Styles /\ ~Hides(ts)
         /\ \E x \in Shown :
              \/ Dropped(t) /\ lastsp' = lastsp /\ UNCHANGED <<ts, accum, oldstate, page>>
              \/ /\ oldstate = <<ts>> /\ Len(accum) < CacheMax
                 /\ accum' = Append(accum, x) /\ UNCHANGED <<ts, oldstate, page>>
              \/ /\ page' = [page EXCEPT ![flag] = @ \o Pending]
                 /\ ts' \in {ts, NoTab(ts)} /\ accum' = <<x>> /\ oldstate' = <<ts'>>
<1>1. Read(t) /\ UNCHANGED <<parse, parser>> /\ fsm \in StateTxt
  BY DEF Text, IsText
<1>2. fsm # "hid" /\ ts \in Styles /\ ~Hides(ts)
  BY <1>1, TextStates, Given0
<1>3. lastsp' \in {"sp", "other"} /\ (Dropped(t) => lastsp' = lastsp)
  BY DEF Text, IInv, CacheInv, Spacing, Dropped
<1>4. "hidden" \notin ts.on
  BY <1>2 DEF Hides
<1>5. \A s : Reads(t, s) \in Shown
  <2>1. t.x \in Texts
    BY TokenIs DEF IInv
  <2> QED BY <2>1 DEF Reads, Shown
<1>6. "" \in Shown
  BY DEF Shown
<1>7. CASE Dropped(t)
  BY <1>1, <1>2, <1>3, <1>6, <1>7 DEF Text
<1>8. CASE ~Dropped(t) /\ Cached
  <2>1. /\ oldstate = <<ts>> /\ Len(accum) < CacheMax
        /\ accum' = Append(accum, Reads(t, accum)) /\ UNCHANGED <<ts, oldstate, page>>
    BY <1>8 DEF Text, Cached
  <2> QED BY <1>1, <1>2, <1>3, <1>5, <2>1
<1>9. CASE ~Dropped(t) /\ ~Cached
  <2>1. /\ page' = [page EXCEPT ![flag] = @ \o Pending]
        /\ ts' \in {ts, NoTab(ts)} /\ accum' = <<Reads(t, <<>>)>> /\ oldstate' = <<ts'>>
    BY <1>4, <1>9 DEF Text, Materialises
  <2> QED BY <1>1, <1>2, <1>3, <1>5, <2>1
<1> QED BY <1>7, <1>8, <1>9

LEMMA TextInv == ASSUME IInv, NEW t \in alphabet, Text(t) PROVE IInv'
<1>1. /\ Read(t) /\ UNCHANGED <<parse, parser>> /\ lastsp' \in {"sp", "other"}
      /\ fsm # "hid" /\ ts \in Styles /\ ~Hides(ts)
  BY TextWhat
<1>2. ViewInv' /\ alphabet' = alphabet /\ flag' = flag /\ parse = "running"
  BY <1>1, ReadKeeps
<1>3. ParserInv'
  <2>1. fstack' = fstack /\ fsm' = fsm /\ contflag' = contflag
    BY <1>1 DEF parser
  <2> QED BY <1>1, <1>2, <2>1 DEF IInv, ParserInv, NoTrap
<1>4. PICK x \in Shown :
        \/ UNCHANGED <<ts, accum, oldstate, page>>
        \/ /\ oldstate = <<ts>> /\ Len(accum) < CacheMax
           /\ accum' = Append(accum, x) /\ UNCHANGED <<ts, oldstate, page>>
        \/ /\ page' = [page EXCEPT ![flag] = @ \o Pending]
           /\ ts' \in {ts, NoTab(ts)} /\ accum' = <<x>> /\ oldstate' = <<ts'>>
  BY TextWhat
<1>5. NoTab(ts) \in Styles /\ ~Hides(NoTab(ts))
  BY <1>1, NoTabStyle DEF Hides
<1>6. CASE UNCHANGED <<ts, accum, oldstate, page>>
  <2>1. StyleInv' /\ CacheInv' /\ PageInv'
    BY <1>1, <1>6 DEF IInv, StyleInv, CacheInv, PageInv, Hides, parser
  <2> QED BY <1>2, <1>3, <2>1 DEF IInv
<1>7. CASE /\ oldstate = <<ts>> /\ Len(accum) < CacheMax
           /\ accum' = Append(accum, x) /\ UNCHANGED <<ts, oldstate, page>>
  <2>1. StyleInv' /\ PageInv'
    BY <1>1, <1>7 DEF IInv, StyleInv, PageInv, Hides, parser
  <2>2. accum' \in Seq(Shown) /\ Len(accum') = Len(accum) + 1 /\ Len(accum) \in Nat
    BY <1>4, <1>7, AppendProperties, LenProperties DEF IInv, CacheInv
  <2>3. CacheMax \in Nat
    BY ViewerAssumption
  <2>4. Len(accum') <= CacheMax
    BY <1>7, <2>2, <2>3
  <2>5. \E s \in Styles : ~Hides(s) /\ oldstate' = <<s>>
    BY <1>1, <1>7
  <2>6. CacheInv'
    BY <1>1, <1>2, <2>2, <2>4, <2>5 DEF CacheInv, Hides
  <2> QED BY <1>2, <1>3, <2>1, <2>6 DEF IInv
<1>8. CASE /\ page' = [page EXCEPT ![flag] = @ \o Pending]
           /\ ts' \in {ts, NoTab(ts)} /\ accum' = <<x>> /\ oldstate' = <<ts'>>
  <2>1. ts' \in Styles /\ ~Hides(ts')
    BY <1>1, <1>5, <1>8
  <2>2. StyleInv'
    BY <2>1 DEF StyleInv, Hides
  <2>3. CacheMax \in Nat \ {0}
    BY ViewerAssumption
  <2>4. accum' \in Seq(Shown) /\ Len(accum') = 1
    BY <1>4, <1>8
  <2>5. Len(accum') <= CacheMax
    BY <2>3, <2>4
  <2>6. \E s \in Styles : ~Hides(s) /\ oldstate' = <<s>>
    BY <1>8, <2>1
  <2>7. CacheInv'
    BY <1>1, <1>2, <2>4, <2>5, <2>6 DEF CacheInv, Hides
  <2>8. PageInv'
    <3>1. Pending \in Seq(Seen) /\ page[flag] \in Seq(Seen)
      BY PendingSeen DEF IInv, PageInv, ViewInv
    <3>2. page[flag] \o Pending \in Seq(Seen)
      BY <3>1, ConcatProperties
    <3> HIDE DEF Seen
    <3> QED BY <1>8, <3>2 DEF IInv, PageInv
  <2> QED BY <1>2, <1>3, <2>2, <2>7, <2>8 DEF IInv
<1> QED BY <1>4, <1>6, <1>7, <1>8

\* An exception leaves the viewer as it is.
LEMMA FailView == ASSUME IInv, Fail PROVE ViewInv'
<1>1. phase' \in {"main", "gone"} /\ (phase' = "main" => phase = "main")
  BY DEF Fail
<1> QED BY <1>1 DEF Fail, IInv, ViewInv, text

\* A tame document raises nothing: that is what TameStack is for.
LEMMA RaiseInv == ASSUME IInv, NEW t \in alphabet, Raise(t) PROVE IInv'
<1>1. /\ Fail /\ parse = "running" /\ Traps(t)
      /\ UNCHANGED <<text, parser, ts, cache>>
  BY DEF Raise, Comes, Fail
<1>2. ViewInv'
  BY <1>1, FailView
<1>3. ~Tame(alphabet)
  <2> SUFFICES ASSUME Tame(alphabet) PROVE FALSE
    OBVIOUS
  <2>1. /\ Chain(fstack, fsm, contflag) /\ TameStack(alphabet, fstack, fsm)
    BY <1>1 DEF IInv, ParserInv
  <2>2. t.k \in Kinds(alphabet)
    BY TokenIs DEF IInv
  <2>3. Len(fstack) \in Nat /\ (fstack = <<>> => Len(fstack) = 0)
    BY <2>1, LenProperties, EmptySeq DEF Chain
  <2>4. fsm \in Tags => Bases # {} /\ fsm # "image"
    BY <2>1, GtTame
  <2>5. CASE t.k = "gt" /\ fsm \in {"span", "link", "image"} /\ Bases = {}
    BY <2>4, <2>5 DEF Tags
  <2>6. CASE t.k = "gt" /\ fsm = "span" /\ Bases # {} /\ NoNumber({"size"})
    <3>1. PICK i \in Attrs({"size"}) : TRUE
      BY <2>6 DEF NoNumber
    <3>2. Base \in 1 .. Len(fstack)
      BY <2>1, <2>6, GtChain
    <3>3. i \in 1 .. Len(fstack) /\ fstack[i].st = "keyval" /\ fstack[i].key = "size"
      BY <2>3, <3>1, <3>2 DEF Attrs
    <3> QED BY <2>1, <3>3 DEF TameStack, Tamed
  <2>7. CASE fsm = "image"
    BY <2>4, <2>7 DEF Tags
  <2>8. CASE t.k \in {"espan", "elink"} /\ fsm = "spantxt" /\ fstack = <<>>
    BY <2>1, <2>3, <2>8 DEF TameStack
  <2>9. CASE t.k \in DOMAIN Closes /\ fsm = Enters(Closes[t.k]) /\ fstack = <<>>
    <3>1. fsm \in Closable
      BY <2>9 DEF Closable
    <3> QED BY <2>1, <2>3, <2>9, <3>1, ClosedState DEF TameStack
  <2> QED BY <1>1, <2>5, <2>6, <2>7, <2>8, <2>9 DEF Traps
<1>4. ParserInv'
  BY <1>1, <1>3 DEF IInv, ParserInv, NoTrap, parser, text, Fail
<1>5. StyleInv' /\ CacheInv'
  BY <1>1 DEF IInv, StyleInv, CacheInv, cache, Fail
<1>6. PageInv'
  <2>1. page[flag] \in Seq(Seen)
    BY DEF IInv, PageInv, ViewInv
  <2>2. [x |-> "blank", look |-> Plain] \in Seen
    BY PlainStyle DEF Seen, Others
  <2>3. Append(page[flag], [x |-> "blank", look |-> Plain]) \in Seq(Seen)
    BY <2>1, <2>2, AppendProperties
  <2> HIDE DEF Seen
  <2> QED BY <2>3 DEF Raise, IInv, PageInv
<1> QED BY <1>2, <1>4, <1>5, <1>6 DEF IInv

\* Text of a tame document raises where an earlier document left it to.
LEMMA TextRaisesInv ==
  ASSUME IInv, NEW t \in alphabet, TextRaises(t) PROVE IInv'
<1>1. Fail /\ parse = "running" /\ UNCHANGED <<parser, accum, page>>
  BY DEF TextRaises, Comes
<1>2. ViewInv'
  BY <1>1, FailView
<1>3. NoTrap'
  <2>1. SUFFICES ASSUME Tame(alphabet) PROVE Poisoned'
    BY <1>1 DEF NoTrap, Fail, text
  <2>2. Len(Parts[t.x]) = 1 /\ Parts[t.x][1].k = "run"
    BY <2>1, TokenIs DEF IInv
  <2>3. CASE ~Unescaped(t).ok
    <3>1. Stuck(held')
      BY <2>2, <2>3, RunRaises DEF TextRaises
    <3> QED BY <3>1 DEF Poisoned
  <2>4. CASE ~Encodes
    BY <1>1, <2>4 DEF Poisoned, Encodes
  <2> QED BY <2>3, <2>4 DEF TextRaises
<1>4. ParserInv'
  BY <1>1, <1>3 DEF IInv, ParserInv, parser, Fail
<1>5. ts \in Styles /\ NoTab(ts) \in Styles /\ (Hides(NoTab(ts)) <=> Hides(ts))
  BY NoTabStyle DEF IInv, StyleInv, Hides
<1>6. StyleInv'
  BY <1>1, <1>5 DEF TextRaises, StyleInv, Fail
<1>7. CacheInv'
  <2>1. oldstate' = oldstate \/ oldstate' = [i \in DOMAIN oldstate |-> NoTab(oldstate[i])]
    BY DEF TextRaises
  <2>2. lastsp' \in {"sp", "other"}
    BY DEF TextRaises, Spacing, IInv, CacheInv
  <2>3. CASE oldstate = <<>> /\ accum = <<>>
    <3>1. oldstate' = <<>>
      BY <2>1, <2>3
    <3> QED BY <1>1, <2>2, <2>3, <3>1 DEF IInv, CacheInv, Fail
  <2>4. ASSUME NEW s \in Styles, ~Hides(s), oldstate = <<s>> PROVE CacheInv'
    <3>1. oldstate' \in {<<s>>, <<NoTab(s)>>}
      BY <2>1, <2>4
    <3>2. NoTab(s) \in Styles /\ ~Hides(NoTab(s))
      BY <2>4, NoTabStyle DEF Hides
    <3> QED BY <1>1, <2>2, <2>4, <3>1, <3>2 DEF IInv, CacheInv, Fail, Hides
  <2> QED BY <2>3, <2>4 DEF IInv, CacheInv
<1>8. PageInv'
  BY <1>1 DEF IInv, PageInv
<1> QED BY <1>2, <1>4, <1>6, <1>7, <1>8 DEF IInv

LEMMA FlushRaisesInv == ASSUME IInv, FlushRaises PROVE IInv'
<1>1. /\ Fail /\ parse = "running" /\ ~Encodes
      /\ UNCHANGED <<parser, ts, cache, held, page>>
  BY DEF FlushRaises
<1>2. ViewInv'
  BY <1>1, FailView
<1>3. NoTrap'
  BY <1>1 DEF NoTrap, Poisoned, Encodes, cache
<1>4. ParserInv'
  BY <1>1, <1>3 DEF IInv, ParserInv, parser, Fail
<1>5. StyleInv' /\ CacheInv' /\ PageInv'
  BY <1>1 DEF IInv, StyleInv, CacheInv, PageInv, cache, Fail
<1> QED BY <1>2, <1>4, <1>5 DEF IInv

LEMMA NextInv == IInv /\ [Next]_vars => IInv'
<1> SUFFICES ASSUME IInv, [Next]_vars PROVE IInv'
  OBVIOUS
<1>1. CASE Mainfunc \/ Follow \/ bslink \/ Quit
  BY <1>1, ViewerSteps
<1>2. CASE Flush \/ FlushRaises
  BY <1>2, FlushInv, FlushRaisesInv
<1>3. ASSUME NEW t \in alphabet,
             \/ Open(t) \/ Close(t) \/ Text(t) \/ Tab(t) \/ Key(t) \/ Eq(t)
             \/ Keyval(t) \/ Span2(t) \/ eSpan(t) \/ Link2(t) \/ eLink(t)
             \/ Image2(t) \/ Skip(t) \/ Raise(t) \/ TextRaises(t)
      PROVE  IInv'
  BY <1>3, OpenInv, CloseInv, TextInv, TabInv, AttrInv, KeyvalInv, GtInv,
     eSpanInv, eLinkInv, ImageInv, RaiseInv, TextRaisesInv
<1>4. CASE UNCHANGED vars
  <2>1. ViewInv' /\ ParserInv'
    BY <1>4, TrapKept DEF IInv, ViewInv, ParserInv, vars, viewer, text, parser, cache
  <2>2. StyleInv' /\ CacheInv' /\ PageInv'
    BY <1>4 DEF IInv, StyleInv, CacheInv, PageInv, vars, parser, cache
  <2> QED BY <2>1, <2>2 DEF IInv
<1> QED BY <1>1, <1>2, <1>3, <1>4 DEF Next

LEMMA Invariant == Spec => []IInv
  BY InitInv, NextInv, PTL DEF Spec

-----------------------------------------------------------------------------
(* Theorems. *)

\* The variables keep their types, and the cache its bound (pangdisp.py).
THEOREM TypeCorrect == Spec => []TypeOK
<1>1. IInv => TypeOK
  <2> SUFFICES ASSUME IInv PROVE TypeOK
    OBVIOUS
  <2>1. lstack \in Seq(Files)
    <3>1. lstack \in Seq(Readable) /\ Readable \subseteq Files
      BY ViewerAssumption DEF IInv, ViewInv
    <3> QED BY <3>1
  <2>2. fsm \in States /\ contflag \in {0, 1} /\ fstack \in Seq(Frames)
    BY DEF IInv, ParserInv, Chain
  <2>3. \A i \in DOMAIN fstack :
          fstack[i].st \in States \cup {"keyval"} /\ fstack[i].cont \in {0, 1}
    <3> SUFFICES ASSUME NEW i \in DOMAIN fstack
                 PROVE  fstack[i].st \in States \cup {"keyval"} /\ fstack[i].cont \in {0, 1}
      OBVIOUS
    <3>1. fstack[i] \in Frames
      <4> HIDE DEF Frames
      <4> QED BY <2>2, ElementOfSeq, LenProperties
    <3> QED BY <3>1 DEF Frames
  <2>4. \A i \in DOMAIN accum : accum[i] \in Shown
    BY ElementOfSeq, LenProperties DEF IInv, CacheInv
  <2>5. oldstate \in {<<>>} \cup {<<s>> : s \in {CacheLook} \cap Styles}
    <3>1. CASE oldstate = <<>>
      BY <3>1
    <3>2. ASSUME NEW s \in Styles, oldstate = <<s>>
          PROVE  oldstate \in {<<r>> : r \in {CacheLook} \cap Styles}
      <4>1. CacheLook = s
        BY <3>2 DEF CacheLook
      <4> QED BY <3>2, <4>1
    <3> QED BY <3>1, <3>2 DEF IInv, CacheInv
  <2>6. \A p \in Panes : \A i \in DOMAIN page[p] :
          page[p][i].x \in Shown \cup Others
    <3> SUFFICES ASSUME NEW p \in Panes, NEW i \in DOMAIN page[p]
                 PROVE  page[p][i].x \in Shown \cup Others
      OBVIOUS
    <3>1. page[p] \in Seq(Seen)
      BY DEF IInv, PageInv
    <3>2. page[p][i] \in Seen
      <4> HIDE DEF Seen
      <4> QED BY <3>1, ElementOfSeq, LenProperties
    <3> QED BY <3>2 DEF Seen
  <2>7. ts \in Styles /\ lastsp \in {"sp", "other"} /\ Len(accum) <= CacheMax
    BY DEF IInv, StyleInv, CacheInv
  <2> QED BY <2>1, <2>2, <2>3, <2>4, <2>5, <2>6, <2>7 DEF TypeOK, IInv, ViewInv
<1> QED BY <1>1, Invariant, PTL

\* No document without pictures, sizes and links across spans makes a callback
\* raise, however its tags are nested or crossed (parser.py, pangfunc.py).
THEOREM TameNeverTraps == Spec => []NoTrap
<1>1. IInv => NoTrap
  BY DEF IInv, ParserInv
<1> QED BY <1>1, Invariant, PTL

\* Hidden text is neither shown nor cached, whatever tags are around it.
THEOREM HiddenIsHidden == Spec => []NeverHidden
<1>1. IInv => NeverHidden
  <2> SUFFICES ASSUME IInv PROVE NeverHidden
    OBVIOUS
  <2>1. ASSUME NEW s \in Seq(Seen), NEW i \in DOMAIN s
        PROVE  "hidden" \notin s[i].look.on
    <3>1. s[i] \in Seen
      <4> HIDE DEF Seen
      <4> QED BY <2>1, ElementOfSeq, LenProperties
    <3> QED BY <3>1 DEF Seen, Hides
  <2>2. Pending \in Seq(Seen) /\ \A p \in Panes : page[p] \in Seq(Seen)
    BY PendingSeen DEF IInv, PageInv
  <2> HIDE DEF Seen
  <2> QED BY <2>1, <2>2 DEF NeverHidden
<1> QED BY <1>1, Invariant, PTL

\* While the viewer waits, the last entry of lstack is the document shown, so
\* that Backspace leaves that one (pangview.py, bslink).
THEOREM TopIsShown == Spec => []ShownIsLast
<1>1. IInv => ShownIsLast
  BY DEF IInv, ViewInv, ShownIsLast
<1> QED BY <1>1, Invariant, PTL

-----------------------------------------------------------------------------
(* The style is that of the tags that are not closed. *)

\* The states that say something of the style.
Marks == States \ (Tags \cup {"key", "val"})

\* How often a state was entered and is not left: on the stack, or in force.
Where(s, x) == {i \in 1 .. Len(s) : s[i].st = x}
Depth(s, q, x) == Cardinality(Where(s, x)) + (IF q = x THEN 1 ELSE 0)

LEMMA WhereFinite ==
  ASSUME NEW s \in Seq(Frames), NEW x
  PROVE  IsFiniteSet(Where(s, x)) /\ Cardinality(Where(s, x)) \in Nat
<1>1. Len(s) \in Nat
  BY LenProperties
<1>2. IsFiniteSet(1 .. Len(s))
  BY <1>1, FS_Interval
<1>3. Where(s, x) \subseteq 1 .. Len(s)
  BY DEF Where
<1> QED BY <1>2, <1>3, FS_Subset, FS_CardinalityType

\* One frame more, at the end.
LEMMA WhereMore ==
  ASSUME NEW s \in Seq(Frames), NEW r \in Seq(Frames), NEW m \in Nat, NEW x,
         Len(s) = m, Len(r) = m + 1, \A i \in 1 .. m : r[i].st = s[i].st
  PROVE  Cardinality(Where(r, x)) =
           Cardinality(Where(s, x)) + (IF r[m + 1].st = x THEN 1 ELSE 0)
<1>1. IsFiniteSet(Where(s, x)) /\ Cardinality(Where(s, x)) \in Nat
  BY WhereFinite
<1>2. CASE r[m + 1].st = x
  <2>1. Where(r, x) = Where(s, x) \cup {m + 1} /\ m + 1 \notin Where(s, x)
    BY <1>2 DEF Where
  <2>2. Cardinality(Where(s, x) \cup {m + 1}) = Cardinality(Where(s, x)) + 1
    BY <1>1, <2>1, FS_AddElement
  <2> QED BY <1>2, <2>1, <2>2
<1>3. CASE r[m + 1].st # x
  <2>1. Where(r, x) = Where(s, x)
    BY <1>3 DEF Where
  <2> QED BY <1>1, <1>3, <2>1
<1> QED BY <1>2, <1>3

\* A state is entered.
LEMMA DepthPush ==
  ASSUME NEW s \in Seq(Frames), NEW f \in Frames, NEW to, NEW x
  PROVE  Depth(Append(s, f), to, x) = Depth(s, f.st, x) + (IF to = x THEN 1 ELSE 0)
<1> DEFINE r == Append(s, f)
<1>1. /\ r \in Seq(Frames) /\ Len(s) \in Nat /\ Len(r) = Len(s) + 1
      /\ r[Len(s) + 1] = f /\ \A i \in 1 .. Len(s) : r[i] = s[i]
  BY Appended
<1> HIDE DEF r
<1>2. Cardinality(Where(r, x)) =
        Cardinality(Where(s, x)) + (IF f.st = x THEN 1 ELSE 0)
  BY <1>1, WhereMore
<1>3. Cardinality(Where(s, x)) \in Nat
  BY WhereFinite
<1>4. Depth(r, to, x) = Depth(s, f.st, x) + (IF to = x THEN 1 ELSE 0)
  BY <1>2, <1>3 DEF Depth
<1> QED BY <1>4 DEF r

\* The state is left for the one that was in force before.
LEMMA DepthPop ==
  ASSUME NEW s \in Seq(Frames), Len(s) >= 1, NEW q, NEW x
  PROVE  Depth(s, q, x) = Depth(SubSeq(s, 1, Len(s) - 1), s[Len(s)].st, x)
                            + (IF q = x THEN 1 ELSE 0)
<1> DEFINE m == Len(s) - 1
           p == SubSeq(s, 1, m)
<1>1. m \in Nat /\ Len(s) = m + 1
  BY LenProperties
<1>2. p \in Seq(Frames) /\ Len(p) = m /\ \A i \in 1 .. m : p[i] = s[i]
  BY <1>1, SubSeqProperties
<1> HIDE DEF p, m
<1>3. Cardinality(Where(s, x)) =
        Cardinality(Where(p, x)) + (IF s[m + 1].st = x THEN 1 ELSE 0)
  BY <1>1, <1>2, WhereMore
<1>4. Cardinality(Where(p, x)) \in Nat
  BY <1>2, WhereFinite
<1>5. Depth(s, q, x) = Depth(p, s[m + 1].st, x) + (IF q = x THEN 1 ELSE 0)
  BY <1>3, <1>4 DEF Depth
<1> QED BY <1>1, <1>5 DEF p, m

\* What ">" ends says nothing of the style.
LEMMA DepthGt ==
  ASSUME Chain(fstack, fsm, contflag), Bases # {}, fsm \in Tags, NEW x \in Marks
  PROVE  Depth(Below, fstack[Base].st, x) = Depth(fstack, fsm, x)
<1>1. /\ Len(Below) = Base - 1 /\ Base \in 1 .. Len(fstack) /\ Len(fstack) \in Nat
      /\ fstack \in Seq(Frames) /\ Below \in Seq(Frames)
  BY GtChain DEF Chain
<1>2. \A i \in 1 .. Base - 1 : Below[i] = fstack[i]
  BY BaseWhat DEF Chain
<1>3. ASSUME NEW i \in 1 .. Len(fstack), i > Base PROVE fstack[i].st # x
  <2>1. \A b \in Bases : b <= Base
    <3>1. Bases \subseteq 1 .. Len(fstack)
      BY LenProperties DEF Bases, Chain
    <3> QED BY <1>1, <3>1, HasMax DEF Base
  <2>2. i \notin Bases
    BY <1>1, <1>3, <2>1
  <2>3. fstack[i] \in Frames
    BY <1>1, ElementOfSeq
  <2>4. fstack[i].cont = 1
    BY <1>1, <1>3, <2>2, <2>3, LenProperties DEF Bases, Frames
  <2>5. Chained(fstack, fsm, i)
    BY DEF Chain
  <2>6. fstack[i].st \in Tags \cup {"key", "keyval"}
    BY <2>4, <2>5 DEF Chained
  <2>7. x # "keyval"
    BY FmtStates DEF Marks, States, StateTxt
  <2> QED BY <2>6, <2>7 DEF Marks
<1> DEFINE m == Base - 1
           top == SubSeq(fstack, 1, Base)
<1>4. m \in Nat /\ Base = m + 1
  BY <1>1
<1>5. /\ top \in Seq(Frames) /\ Len(top) = Base
      /\ \A i \in 1 .. Base : top[i] = fstack[i]
  BY <1>1, SubSeqProperties
<1>6. Where(fstack, x) = Where(top, x)
  <2> HIDE DEF top
  <2> QED BY <1>1, <1>3, <1>5 DEF Where
<1>7. Cardinality(Where(top, x)) =
        Cardinality(Where(Below, x)) + (IF top[m + 1].st = x THEN 1 ELSE 0)
  <2>1. ASSUME NEW i \in 1 .. m PROVE top[i].st = Below[i].st
    <3>1. Base \in Nat /\ Base = m + 1
      BY <1>1
    <3> HIDE DEF top, m
    <3>2. i \in 1 .. Base - 1 /\ i \in 1 .. Base
      BY <1>4, <3>1
    <3>3. Below[i] = fstack[i]
      BY <1>2, <3>2
    <3>4. top[i] = fstack[i]
      BY <1>5, <3>2
    <3> QED BY <3>3, <3>4
  <2> HIDE DEF top, m
  <2>2. Len(Below) = m /\ Len(top) = m + 1
    BY <1>1, <1>4, <1>5 DEF m
  <2>3. m \in Nat /\ Below \in Seq(Frames) /\ top \in Seq(Frames)
    BY <1>1, <1>4, <1>5
  <2> QED BY <2>1, <2>2, <2>3, WhereMore
<1>8. top[m + 1] = fstack[Base]
  BY <1>1, <1>4, <1>5
<1>9. fsm # x
  BY DEF Marks
<1> HIDE DEF top, m
<1>10. Cardinality(Where(Below, x)) \in Nat
  BY <1>1, WhereFinite
<1> QED BY <1>6, <1>7, <1>8, <1>9, <1>10 DEF Depth

\* Nor does the pair that takes the place of its key.
LEMMA DepthPair ==
  ASSUME NEW s, NEW c, Chain(s, "val", c), NEW f \in Frames, f.st = "keyval",
         NEW x \in Marks
  PROVE  Depth(Append(SubSeq(s, 1, Len(s) - 2), f), s[Len(s) - 1].st, x)
           = Depth(s, "val", x)
<1> DEFINE m == Len(s) - 2
           p == SubSeq(s, 1, m)
           r == Append(p, f)
<1>1. /\ Len(s) >= 2 /\ Len(s) \in Nat
      /\ s[Len(s) - 1] \in Frames /\ s[Len(s) - 1].st \in Tags
  <2>1. \E g \in Frames : g.st = "keyval" /\ g.cont = 1
    <3>1. [f EXCEPT !.cont = 1] \in Frames /\ [f EXCEPT !.cont = 1].st = "keyval"
          /\ [f EXCEPT !.cont = 1].cont = 1
      BY DEF Frames
    <3> QED BY <3>1
  <2> QED BY <2>1, PairChain
<1>2. s \in Seq(Frames)
  BY DEF Chain
<1>3. s[Len(s)].st = "key"
  BY <1>1 DEF Chain, Chained, Above
<1>4. m \in Nat /\ Len(s) = m + 2
  BY <1>1
<1>5. p \in Seq(Frames) /\ Len(p) = m /\ \A i \in 1 .. m : p[i] = s[i]
  BY <1>2, <1>4, SubSeqProperties
<1>6. /\ r \in Seq(Frames) /\ Len(r) = m + 1 /\ r[m + 1] = f
      /\ \A i \in 1 .. m : r[i] = s[i]
  BY <1>5, Appended
<1>7. x \notin Tags \cup {"key", "val", "keyval"}
  BY FmtStates DEF Marks, States, StateTxt
<1>8. s[m + 1].st \in Tags /\ s[m + 2].st = "key"
  BY <1>1, <1>3, <1>4
<1> HIDE DEF r, p, m
<1>9. Where(r, x) = Where(s, x)
  <2>1. \A i \in 1 .. m + 2 : i \in 1 .. m \/ i = m + 1 \/ i = m + 2
    BY <1>4
  <2> QED BY <1>4, <1>6, <1>7, <1>8, <2>1 DEF Where
<1> QED BY <1>1, <1>7, <1>9 DEF Depth, r, p, m

\* What the style may be in a document A where the states were entered as often
\* as d says: each count is that of its tag, and what is set is set by a tag
\* that is not closed.
Matches(A, d, s) ==
  /\ \A c \in Counts : s.num[c] = d[c]
  /\ \A f \in s.on :
       \E k \in SetTags \cap Kinds(A) : Sets[k] = f /\ d[Enters(k)] > 0
  /\ s.val["color"] # "" => d["ncol"] > 0 \/ d["spantxt"] > 0
  /\ s.val["bgcolor"] # "" => d["nbgcol"] > 0
  /\ s.val["size"] = "" /\ s.val["font"] = ""
  /\ s.link # NoName => d["spantxt"] > 0

LEMMA MarksAre ==
  /\ \A k \in Openers \ Tags : Enters(k) \in Marks \ {"init", "spantxt"}
  /\ Counts \cup {"ncol", "nbgcol", "spantxt", "init"} \subseteq Marks
  /\ \A k \in SetTags : Enters(k) \notin Counts \cup {"ncol", "nbgcol"}
<1>1. ASSUME NEW k \in Openers \ Tags PROVE Enters(k) \in Marks \ {"init", "spantxt"}
  BY <1>1, OpenedIn, OpenedState DEF Marks
<1>2. \A k \in Counts \cup {"ncol", "nbgcol"} : k \in Openers \ Tags /\ Enters(k) = k
  BY OpenersAre, EntersWhat DEF Counts, Tags, Crossed
<1>3. {"spantxt", "init"} \subseteq Marks
  BY DEF Marks, States, StateTxt, StateFmt, Tags
<1>4. ASSUME NEW k \in SetTags PROVE Enters(k) \notin Counts \cup {"ncol", "nbgcol"}
  <2>1. CASE k \in Crossed
    BY <1>4, <2>1, EntersWhat DEF Crossed, Counts, SetTags
  <2>2. CASE k \notin Crossed
    BY <1>4, <2>2, EntersWhat DEF Counts, SetTags
  <2> QED BY <2>1, <2>2
<1> QED BY <1>1, <1>2, <1>3, <1>4

\* A start tag that is not that of a span.
LEMMA OpenMatches ==
  ASSUME NEW A, NEW s \in Styles, NEW d \in [Marks -> Nat], Matches(A, d, s),
         NEW t \in [k : STRING, x : Texts], t.k \in Openers \cap Kinds(A),
         NEW e \in [Marks -> Nat],
         \A x \in Marks : e[x] = d[x] + (IF Enters(t.k) = x THEN 1 ELSE 0)
  PROVE  Matches(A, e, Opened(s, t))
<1>1. \A x \in Marks : d[x] \in Nat /\ e[x] \in Nat /\ (d[x] > 0 => e[x] > 0)
  OBVIOUS
<1>2. \A k \in SetTags : Enters(k) \in Marks
  BY MarksAre, OpenersAre DEF SetTags, Tags
<1>3. {"ncol", "nbgcol", "spantxt"} \cup Counts \subseteq Marks
  BY MarksAre
<1>4. ASSUME NEW k \in SetTags \cap Kinds(A), d[Enters(k)] > 0
      PROVE  e[Enters(k)] > 0
  BY <1>1, <1>2, <1>4
<1>5. CASE t.k \in SetTags
  <2>1. Opened(s, t) = [s EXCEPT !.on = @ \cup {Sets[t.k]}]
    BY <1>5, SetsWhat DEF Opened
  <2>2. /\ Opened(s, t).on = s.on \cup {Sets[t.k]} /\ Opened(s, t).num = s.num
        /\ Opened(s, t).val = s.val /\ Opened(s, t).link = s.link
    BY <2>1 DEF Styles
  <2>3. e[Enters(t.k)] > 0
    BY <1>1, <1>2, <1>5
  <2>4. \A c \in Counts : e[c] = d[c]
    BY <1>1, <1>3, <1>5, MarksAre
  <2>5. \A f \in s.on \cup {Sets[t.k]} :
          \E k \in SetTags \cap Kinds(A) : Sets[k] = f /\ e[Enters(k)] > 0
    <3>1. \A f \in s.on : \E k \in SetTags \cap Kinds(A) :
            Sets[k] = f /\ e[Enters(k)] > 0
      BY <1>4 DEF Matches
    <3> QED BY <1>5, <2>3, <3>1
  <2> QED BY <1>1, <1>3, <2>2, <2>4, <2>5 DEF Matches
<1>6. CASE t.k \in Counts
  <2>1. t.k \notin SetTags /\ Enters(t.k) = t.k
    BY <1>6, EntersWhat DEF Counts, SetTags, Crossed
  <2>2. Opened(s, t) = [s EXCEPT !.num[t.k] = @ + 1]
    BY <1>6, <2>1, SetsWhat DEF Opened
  <2>3. /\ Opened(s, t).on = s.on /\ Opened(s, t).link = s.link
        /\ Opened(s, t).val = s.val
        /\ \A c \in Counts :
             Opened(s, t).num[c] = IF c = t.k THEN s.num[c] + 1 ELSE s.num[c]
    BY <2>2 DEF Styles
  <2>4. ASSUME NEW c \in Counts PROVE Opened(s, t).num[c] = e[c]
    <3>1. c \in Marks /\ s.num[c] = d[c]
      BY <1>3 DEF Matches
    <3>2. e[c] = d[c] + (IF t.k = c THEN 1 ELSE 0) /\ d[c] \in Nat
      BY <1>1, <2>1, <3>1
    <3> QED BY <2>3, <3>1, <3>2
  <2> QED BY <1>1, <1>3, <1>4, <2>3, <2>4 DEF Matches
<1>7. CASE t.k \in DOMAIN Colors
  <2>1. t.k \in {"ncol", "ncol2", "nbgcol"}
    BY <1>7 DEF Colors
  <2>2. t.k \notin SetTags \cup Counts
    BY <2>1 DEF Counts, SetTags
  <2>3. /\ t.k \in {"ncol", "ncol2"} => Colors[t.k] = "color" /\ Enters(t.k) = "ncol"
        /\ t.k = "nbgcol" => Colors[t.k] = "bgcolor" /\ Enters(t.k) = "nbgcol"
    BY <2>1, EntersWhat DEF Colors, Crossed
  <2>4. Opened(s, t) = [s EXCEPT !.val[Colors[t.k]] = t.x]
    BY <1>7, <2>2, SetsWhat DEF Opened
  <2>5. /\ Opened(s, t).on = s.on /\ Opened(s, t).link = s.link
        /\ Opened(s, t).num = s.num
        /\ \A v \in {"color", "bgcolor", "size", "font"} \ {Colors[t.k]} :
             Opened(s, t).val[v] = s.val[v]
    BY <2>4 DEF Styles
  <2>6. e[Enters(t.k)] > 0
    BY <1>1, <1>3, <2>1, <2>3
  <2>7. \A c \in Counts : e[c] = d[c]
    BY <1>1, <1>3, <2>1, <2>3 DEF Counts
  <2>8. CASE t.k \in {"ncol", "ncol2"}
    BY <1>1, <1>3, <1>4, <2>3, <2>5, <2>6, <2>7, <2>8 DEF Matches
  <2>9. CASE t.k = "nbgcol"
    BY <1>1, <1>3, <1>4, <2>3, <2>5, <2>6, <2>7, <2>9 DEF Matches
  <2> QED BY <2>1, <2>8, <2>9
<1>8. CASE t.k \in Tags
  <2>1. t.k \notin SetTags \cup Counts \cup DOMAIN Colors
    BY <1>8 DEF Counts, Colors, SetTags, Tags
  <2>2. Opened(s, t) = s
    BY <2>1, SetsWhat DEF Opened
  <2>3. Enters(t.k) = t.k
    BY <1>8, EntersWhat DEF Tags, Crossed
  <2>4. \A x \in Marks : e[x] = d[x]
    BY <1>8, <2>3 DEF Marks
  <2>5. \A k \in SetTags : e[Enters(k)] = d[Enters(k)]
    BY <1>2, <2>4
  <2> QED BY <1>3, <2>2, <2>4, <2>5 DEF Matches
<1>9. t.k \in SetTags \cup Counts \cup DOMAIN Colors \cup Tags
  BY OpenersAre DEF Counts, Colors
<1> QED BY <1>5, <1>6, <1>7, <1>8, <1>9

\* Two tags that set something enter one state only if they are the two sizes;
\* an end tag ends what it names.
LEMMA OneTag ==
  /\ \A j, k \in SetTags : Enters(j) = Enters(k) /\ j # k =>
       {j, k} = {"xlarge", "xxlarge"}
  /\ \A k \in DOMAIN Closes :
       /\ Closes[k] = "xlarge" => k = "exlarge"
       /\ Closes[k] = "xxlarge" => k = "exxlarge"
<1>1. ASSUME NEW j \in SetTags, NEW k \in SetTags, Enters(j) = Enters(k), j # k
      PROVE  {j, k} = {"xlarge", "xxlarge"}
  <2>1. CASE j \notin Crossed /\ k \notin Crossed
    BY <1>1, <2>1, EntersWhat
  <2>2. CASE j \in Crossed /\ k \in Crossed
    BY <1>1, <2>2, EntersWhat DEF Crossed, SetTags
  <2>3. CASE j \in Crossed /\ k \notin Crossed
    BY <1>1, <2>3, EntersWhat DEF Crossed, SetTags
  <2>4. CASE j \notin Crossed /\ k \in Crossed
    BY <1>1, <2>4, EntersWhat DEF Crossed, SetTags
  <2> QED BY <2>1, <2>2, <2>3, <2>4
<1>2. ASSUME NEW k \in DOMAIN Closes
      PROVE  /\ Closes[k] = "xlarge" => k = "exlarge"
             /\ Closes[k] = "xxlarge" => k = "exxlarge"
  BY DEF Closes
<1> QED BY <1>1, <1>2

\* An end tag.
LEMMA EndMatches ==
  ASSUME NEW A, Paired(A), NEW s \in Styles, NEW d \in [Marks -> Nat],
         Matches(A, d, s), NEW z \in DOMAIN Closes, z \in Kinds(A),
         NEW e \in [Marks -> Nat],
         \A x \in Marks : d[x] = e[x] + (IF Enters(Closes[z]) = x THEN 1 ELSE 0)
  PROVE  Matches(A, e, Ended(s, Closes[z]))
<1> DEFINE k == Closes[z]
<1>1. k \in SetTags \cup Counts \cup {"ncol", "nbgcol"}
  BY ClosesWhat DEF Counts
<1>2. \A x \in Marks : e[x] \in Nat /\ (Enters(k) # x => d[x] = e[x])
  OBVIOUS
<1>3. \A j \in SetTags : Enters(j) \in Marks
  BY MarksAre, OpenersAre DEF SetTags, Tags
<1>4. {"ncol", "nbgcol", "spantxt"} \cup Counts \subseteq Marks
  BY MarksAre
<1>5. Enters(k) # "spantxt"
  <2>1. k \in Openers
    BY <1>1, OpenersAre DEF Counts
  <2> QED BY <2>1, OpenedState
<1>6. \A j \in SetTags : Sets[j] \in s.on /\ Enters(j) # Enters(k) =>
        d[Enters(j)] = e[Enters(j)]
  BY <1>2, <1>3
<1>7. CASE k \in SetTags
  <2>1. Ended(s, k) = [s EXCEPT !.on = @ \ {Sets[k]}]
    BY <1>7, SetsWhat DEF Ended
  <2>2. /\ Ended(s, k).on = s.on \ {Sets[k]} /\ Ended(s, k).num = s.num
        /\ Ended(s, k).val = s.val /\ Ended(s, k).link = s.link
    BY <2>1 DEF Styles
  <2>3. Enters(k) \notin Counts \cup {"ncol", "nbgcol", "spantxt"}
    BY <1>5, <1>7, MarksAre
  <2>4. \A x \in Counts \cup {"ncol", "nbgcol", "spantxt"} : d[x] = e[x]
    BY <1>2, <1>4, <2>3
  <2>5. ASSUME NEW f \in s.on \ {Sets[k]}
        PROVE  \E j \in SetTags \cap Kinds(A) : Sets[j] = f /\ e[Enters(j)] > 0
    <3>1. PICK j \in SetTags \cap Kinds(A) : Sets[j] = f /\ d[Enters(j)] > 0
      BY DEF Matches
    <3>2. j # k
      BY <3>1
    <3>3. Enters(j) # Enters(k)
      <4>1. SUFFICES ASSUME Enters(j) = Enters(k) PROVE FALSE
        OBVIOUS
      <4>2. {j, k} = {"xlarge", "xxlarge"}
        BY <1>7, <3>2, <4>1, OneTag
      <4>3. CASE j = "xlarge" /\ k = "xxlarge"
        <5>1. z = "exxlarge"
          BY <4>3, OneTag
        <5> QED BY <4>3, <5>1 DEF Paired
      <4>4. CASE j = "xxlarge" /\ k = "xlarge"
        <5>1. z = "exlarge"
          BY <4>4, OneTag
        <5> QED BY <4>4, <5>1 DEF Paired
      <4> HIDE DEF k
      <4> QED BY <4>2, <4>3, <4>4, <3>2
    <3> QED BY <1>6, <3>1, <3>3
  <2> HIDE DEF k
  <2>6. Matches(A, e, Ended(s, k))
    BY <2>2, <2>4, <2>5 DEF Matches
  <2> QED BY <2>6 DEF k
<1>8. CASE k \in Counts
  <2>1. k \notin SetTags /\ Enters(k) = k
    BY <1>8, EntersWhat DEF Counts, SetTags, Crossed
  <2>2. Ended(s, k) = [s EXCEPT !.num[k] = IF @ > 0 THEN @ - 1 ELSE @]
    BY <1>8, <2>1, SetsWhat DEF Ended
  <2> HIDE DEF k
  <2>3. /\ Ended(s, k).on = s.on /\ Ended(s, k).link = s.link
        /\ Ended(s, k).val = s.val
        /\ \A c \in Counts : Ended(s, k).num[c] =
             IF c = k /\ s.num[c] > 0 THEN s.num[c] - 1 ELSE s.num[c]
    BY <1>8, <2>2 DEF Styles
  <2>4. d[k] = e[k] + 1 /\ e[k] \in Nat
    <3>1. k \in Marks
      BY <1>4, <1>8
    <3> QED BY <2>1, <3>1 DEF k
  <2>5. ASSUME NEW c \in Counts PROVE Ended(s, k).num[c] = e[c]
    <3>1. c \in Marks /\ s.num[c] = d[c]
      BY <1>4 DEF Matches
    <3>2. CASE c = k
      BY <2>3, <2>4, <3>1, <3>2
    <3>3. CASE c # k
      <4>1. d[c] = e[c]
        BY <1>2, <2>1, <3>1, <3>3
      <4> QED BY <2>3, <3>1, <3>3, <4>1
    <3> QED BY <3>2, <3>3
  <2>6. \A x \in {"ncol", "nbgcol", "spantxt"} : d[x] = e[x]
    BY <1>2, <1>4, <1>8, <2>1 DEF Counts
  <2>7. \A f \in s.on : \E j \in SetTags \cap Kinds(A) :
          Sets[j] = f /\ e[Enters(j)] > 0
    <3>1. \A j \in SetTags : Enters(j) # k
      BY <1>8, MarksAre
    <3> SUFFICES ASSUME NEW f \in s.on
                 PROVE  \E j \in SetTags \cap Kinds(A) : Sets[j] = f /\ e[Enters(j)] > 0
      OBVIOUS
    <3>2. PICK j \in SetTags \cap Kinds(A) : Sets[j] = f /\ d[Enters(j)] > 0
      BY DEF Matches
    <3>3. d[Enters(j)] = e[Enters(j)]
      BY <1>6, <2>1, <3>1, <3>2
    <3> QED BY <3>2, <3>3
  <2>8. Matches(A, e, Ended(s, k))
    BY <2>3, <2>5, <2>6, <2>7 DEF Matches
  <2> QED BY <2>8 DEF k
<1>9. CASE k \in {"ncol", "nbgcol"}
  <2>1. k \notin SetTags \cup Counts /\ Enters(k) = k
    BY <1>9, EntersWhat DEF Counts, SetTags, Crossed
  <2>2. k \in DOMAIN Colors /\ (k = "ncol" => Colors[k] = "color")
        /\ (k = "nbgcol" => Colors[k] = "bgcolor")
    BY <1>9 DEF Colors
  <2>3. Ended(s, k) = [s EXCEPT !.val[Colors[k]] = ""]
    BY <2>1, <2>2, SetsWhat DEF Ended
  <2> HIDE DEF k
  <2>4. /\ Ended(s, k).on = s.on /\ Ended(s, k).link = s.link
        /\ Ended(s, k).num = s.num
        /\ \A v \in {"color", "bgcolor", "size", "font"} :
             Ended(s, k).val[v] = IF v = Colors[k] THEN "" ELSE s.val[v]
    BY <2>3 DEF Styles
  <2>5. \A x \in (Counts \cup {"ncol", "nbgcol", "spantxt"}) \ {k} : d[x] = e[x]
    BY <1>2, <1>4, <2>1
  <2>6. \A f \in s.on : \E j \in SetTags \cap Kinds(A) :
          Sets[j] = f /\ e[Enters(j)] > 0
    <3>1. \A j \in SetTags : Enters(j) # k
      BY <1>9, MarksAre
    <3> SUFFICES ASSUME NEW f \in s.on
                 PROVE  \E j \in SetTags \cap Kinds(A) : Sets[j] = f /\ e[Enters(j)] > 0
      OBVIOUS
    <3>2. PICK j \in SetTags \cap Kinds(A) : Sets[j] = f /\ d[Enters(j)] > 0
      BY DEF Matches
    <3>3. d[Enters(j)] = e[Enters(j)]
      BY <1>6, <2>1, <3>1, <3>2
    <3> QED BY <3>2, <3>3
  <2>7. Matches(A, e, Ended(s, k))
    BY <1>9, <2>1, <2>2, <2>4, <2>5, <2>6 DEF Matches
  <2> QED BY <2>7 DEF k
<1> QED BY <1>1, <1>7, <1>8, <1>9

\* Where every tag is closed.
LEMMA ClosedPlain ==
  ASSUME NEW A, NEW s \in Styles, NEW d, Matches(A, d, s),
         \A x \in Marks \ {"init"} : d[x] = 0
  PROVE  NoTab(s) = Plain
<1>1. \A k \in SetTags : Enters(k) \in Marks \ {"init"}
  BY MarksAre, OpenersAre DEF SetTags, Tags
<1>2. {"ncol", "nbgcol", "spantxt"} \cup Counts \subseteq Marks \ {"init"}
  BY MarksAre DEF Counts
<1>3. s.on = {}
  <2> SUFFICES ASSUME NEW f \in s.on PROVE FALSE
    OBVIOUS
  <2>1. PICK k \in SetTags \cap Kinds(A) : Sets[k] = f /\ d[Enters(k)] > 0
    BY DEF Matches
  <2>2. d[Enters(k)] = 0
    BY <1>1, <2>1
  <2> QED BY <2>1, <2>2
<1>4. \A c \in Counts : s.num[c] = 0
  BY <1>2 DEF Matches
<1>5. s.link = NoName /\ \A v \in {"color", "bgcolor", "size", "font"} : s.val[v] = ""
  <2>1. d["ncol"] = 0 /\ d["nbgcol"] = 0 /\ d["spantxt"] = 0
    BY <1>2
  <2>2. ~(d["ncol"] > 0) /\ ~(d["nbgcol"] > 0) /\ ~(d["spantxt"] > 0)
    BY <2>1
  <2> QED BY <2>2 DEF Matches
<1>6. [s.num EXCEPT !["tab"] = 0] = [c \in Counts \cup {"tab"} |-> 0]
  BY <1>4 DEF Styles, Counts
<1>7. s.val = [v \in {"color", "bgcolor", "size", "font"} |-> ""]
  BY <1>5 DEF Styles
<1>8. NoTab(s) = [s EXCEPT !.num = [s.num EXCEPT !["tab"] = 0]]
  BY DEF NoTab
<1> QED BY <1>3, <1>5, <1>6, <1>7, <1>8 DEF Styles, Plain

\* ">" of a link, and the end of one; a tab, and its end.
LEMMA LinkMatches ==
  ASSUME NEW A, ts \in Styles, NEW d \in [Marks -> Nat], Matches(A, d, ts),
         NEW e \in [Marks -> Nat],
         \A x \in Marks : e[x] = d[x] + (IF "spantxt" = x THEN 1 ELSE 0)
  PROVE  Matches(A, e, Linked)
<1>1. /\ Linked.on = ts.on /\ Linked.num = ts.num
      /\ \A v \in {"bgcolor", "size", "font"} : Linked.val[v] = ts.val[v]
  BY DEF Linked, Styles
<1>2. {"ncol", "nbgcol", "spantxt"} \cup Counts \subseteq Marks
  BY MarksAre
<1>3. \A x \in Marks : x # "spantxt" => e[x] = d[x]
  OBVIOUS
<1>4. e["spantxt"] > 0
  BY <1>2
<1>5. \A k \in SetTags : e[Enters(k)] = d[Enters(k)]
  BY <1>3, MarksAre, OpenersAre DEF SetTags, Tags
<1>6. e["nbgcol"] = d["nbgcol"] /\ \A c \in Counts : e[c] = d[c]
  BY <1>2, <1>3 DEF Counts
<1> QED BY <1>1, <1>4, <1>5, <1>6 DEF Matches

LEMMA LinkEndMatches ==
  ASSUME NEW A, NEW s \in Styles, NEW d \in [Marks -> Nat], Matches(A, d, s),
         NEW e \in [Marks -> Nat],
         \A x \in Marks : d[x] = e[x] + (IF "spantxt" = x THEN 1 ELSE 0)
  PROVE  Matches(A, e, [s EXCEPT !.link = NoName, !.val["color"] = ""])
<1> DEFINE r == [s EXCEPT !.link = NoName, !.val["color"] = ""]
<1>1. /\ r.on = s.on /\ r.num = s.num /\ r.link = NoName /\ r.val["color"] = ""
      /\ \A v \in {"bgcolor", "size", "font"} : r.val[v] = s.val[v]
  BY DEF Styles
<1> HIDE DEF r
<1>2. {"nbgcol", "spantxt"} \cup Counts \subseteq Marks
  BY MarksAre
<1>3. \A x \in Marks : x # "spantxt" => e[x] = d[x]
  OBVIOUS
<1>4. \A k \in SetTags : e[Enters(k)] = d[Enters(k)]
  BY <1>3, MarksAre, OpenersAre DEF SetTags, Tags
<1>5. e["nbgcol"] = d["nbgcol"] /\ \A c \in Counts : e[c] = d[c]
  BY <1>2, <1>3 DEF Counts
<1>6. Matches(A, e, r)
  BY <1>1, <1>4, <1>5 DEF Matches
<1> QED BY <1>6 DEF r

LEMMA TabMatches ==
  ASSUME NEW A, NEW s \in Styles, NEW d, Matches(A, d, s), NEW m
  PROVE  Matches(A, d, [s EXCEPT !.num["tab"] = m])
<1> DEFINE r == [s EXCEPT !.num["tab"] = m]
<1>1. /\ r.on = s.on /\ r.link = s.link /\ r.val = s.val
      /\ \A c \in Counts : r.num[c] = s.num[c]
  BY DEF Styles, Counts
<1> HIDE DEF r
<1>2. Matches(A, d, r)
  BY <1>1 DEF Matches
<1> QED BY <1>2 DEF r

LEMMA PlainMatches ==
  ASSUME NEW A, NEW d, \A c \in Counts : d[c] = 0
  PROVE  Matches(A, d, Plain)
  BY DEF Plain, Matches, Counts

\* The start is at the bottom of the stack and nowhere else; there is no span.
NoSpan(s, q) ==
  /\ q = "init" => Len(s) = 0
  /\ \A i \in 1 .. Len(s) : s[i].st # "span" /\ (s[i].st = "init" => i = 1)
  /\ q # "span"

LEMMA NoSpanPush ==
  ASSUME NEW s \in Seq(Frames), NEW q, NoSpan(s, q), NEW f \in Frames,
         f.st = "init" => Len(s) = 0, f.st # "span", NEW to, to \notin {"init", "span"}
  PROVE  NoSpan(Append(s, f), to)
<1> DEFINE r == Append(s, f)
<1>1. /\ Len(s) \in Nat /\ Len(r) = Len(s) + 1
      /\ r[Len(s) + 1] = f /\ \A i \in 1 .. Len(s) : r[i] = s[i]
  BY Appended
<1> HIDE DEF r
<1>2. NoSpan(r, to)
  BY <1>1 DEF NoSpan
<1> QED BY <1>2 DEF r

LEMMA NoSpanCut ==
  ASSUME NEW s \in Seq(Frames), NEW q, NoSpan(s, q), NEW m \in Nat, m < Len(s)
  PROVE  NoSpan(SubSeq(s, 1, m), s[m + 1].st)
<1>1. Len(s) \in Nat
  BY LenProperties
<1>2. /\ Len(SubSeq(s, 1, m)) = m
      /\ \A i \in 1 .. m : SubSeq(s, 1, m)[i] = s[i]
  BY <1>1, SubSeqProperties
<1>3. s[m + 1].st = "init" => m = 0
  BY <1>1 DEF NoSpan
<1> QED BY <1>1, <1>2, <1>3 DEF NoSpan

Depths(s, q) == [x \in Marks |-> Depth(s, q, x)]

LEMMA DepthsType ==
  ASSUME NEW s \in Seq(Frames), NEW q
  PROVE  Depths(s, q) \in [Marks -> Nat]
  BY WhereFinite DEF Depths, Depth

Closing(A, s, q, look) == NoSpan(s, q) /\ Matches(A, Depths(s, q), look)

ClosingInv ==
  parse = "running" /\ Paired(alphabet) => Closing(alphabet, fstack, fsm, ts)

LEMMA EmptyCloses == \A A : Closing(A, <<>>, "init", Plain)
<1>1. <<>> \in Seq(Frames) /\ Len(<<>>) = 0
  BY EmptySeq
<1>2. NoSpan(<<>>, "init")
  BY <1>1 DEF NoSpan
<1>3. ASSUME NEW c \in Counts PROVE Depths(<<>>, "init")[c] = 0
  <2>1. c \in Marks /\ c # "init"
    BY MarksAre DEF Counts
  <2>2. Where(<<>>, c) = {}
    BY <1>1 DEF Where
  <2>3. Cardinality({}) = 0
    BY FS_EmptySet
  <2> QED BY <2>1, <2>2, <2>3 DEF Depths, Depth
<1> QED BY <1>2, <1>3, PlainMatches DEF Closing

\* What holds where a callback begins in a paired document, and what it has
\* to show.
LEMMA ClosingGiven ==
  ASSUME IInv, ClosingInv, Paired(alphabet), NEW t \in alphabet, Read(t)
  PROVE  /\ Chain(fstack, fsm, contflag) /\ fstack \in Seq(Frames)
         /\ Len(fstack) \in Nat /\ ts \in Styles
         /\ NoSpan(fstack, fsm) /\ Matches(alphabet, Depths(fstack, fsm), ts)
         /\ Depths(fstack, fsm) \in [Marks -> Nat]
         /\ t \in [k : STRING, x : Texts] /\ t.k \in Kinds(alphabet)
         /\ t.k \notin {"span", "espan"}
         /\ Frame(t) \in Frames /\ Frame(t).st = fsm
<1>1. /\ Chain(fstack, fsm, contflag) /\ ts \in Styles
      /\ t \in [k : STRING, x : Texts] /\ t.k \in Kinds(alphabet)
      /\ Frame(t) \in Frames /\ Frame(t).st = fsm
  BY Given0
<1>2. fstack \in Seq(Frames) /\ Len(fstack) \in Nat
  BY <1>1, LenProperties DEF Chain
<1>3. parse = "running"
  BY DEF Read, Comes
<1>4. t.k \notin {"span", "espan"}
  BY <1>1 DEF Paired
<1> QED BY <1>1, <1>2, <1>3, <1>4, DepthsType DEF ClosingInv, Closing

LEMMA ClosingShown ==
  ASSUME IInv, NEW t \in alphabet, Read(t), parse' = parse,
         Paired(alphabet) => Closing(alphabet, fstack', fsm', ts')
  PROVE  ClosingInv'
  BY ReadKeeps DEF ClosingInv

LEMMA OpenCloses ==
  ASSUME IInv, ClosingInv, NEW t \in alphabet, Open(t) PROVE ClosingInv'
<1>1. /\ Read(t) /\ fsm \in StateFmt /\ t.k \in Openers /\ ts' = Opened(ts, t)
      /\ fstack' = Append(fstack, Frame(t)) /\ fsm' = Enters(t.k)
      /\ parse' = parse
  BY DEF Open, Push
<1>2. ASSUME Paired(alphabet) PROVE Closing(alphabet, fstack', fsm', ts')
  <2>1. fsm' \notin {"init", "span"}
    BY <1>1, <1>2, ClosingGiven, OpenedState DEF Tags
  <2>2. NoSpan(fstack', fsm')
    <3>1. fsm = "init" => Len(fstack) = 0
      BY <1>1, <1>2, ClosingGiven DEF NoSpan
    <3>2. fsm # "span"
      BY <1>1, <1>2, ClosingGiven DEF NoSpan
    <3> QED BY <1>1, <1>2, <2>1, <3>1, <3>2, ClosingGiven, NoSpanPush
  <2>3. fstack' \in Seq(Frames)
    BY <1>1, <1>2, ClosingGiven, Appended
  <2>4. Depths(fstack', fsm') \in [Marks -> Nat]
    BY <2>3, DepthsType
  <2>5. \A x \in Marks : Depths(fstack', fsm')[x] =
          Depths(fstack, fsm)[x] + (IF Enters(t.k) = x THEN 1 ELSE 0)
    <3>1. ASSUME NEW x \in Marks
          PROVE  Depth(fstack', fsm', x) =
                   Depth(fstack, fsm, x) + (IF Enters(t.k) = x THEN 1 ELSE 0)
      BY <1>1, <1>2, ClosingGiven, DepthPush
    <3> QED BY <3>1 DEF Depths
  <2>6. Matches(alphabet, Depths(fstack', fsm'), ts')
    BY <1>1, <1>2, <2>4, <2>5, ClosingGiven, OpenMatches
  <2> QED BY <2>2, <2>6 DEF Closing
<1> QED BY <1>1, <1>2, ClosingShown

\* The top of the stack is taken off.
LEMMA PopDepths ==
  ASSUME NEW s \in Seq(Frames), s # <<>>, NEW q, NoSpan(s, q)
  PROVE  LET p == SubSeq(s, 1, Len(s) - 1)
             b == s[Len(s)].st
         IN  /\ NoSpan(p, b) /\ Depths(p, b) \in [Marks -> Nat]
             /\ \A x \in Marks :
                  Depths(s, q)[x] = Depths(p, b)[x] + (IF q = x THEN 1 ELSE 0)
<1> DEFINE m == Len(s) - 1
<1>1. Len(s) \in Nat /\ Len(s) >= 1
  BY LenProperties, EmptySeq
<1>2. m \in Nat /\ m < Len(s) /\ m + 1 = Len(s)
  BY <1>1
<1>3. NoSpan(SubSeq(s, 1, m), s[Len(s)].st)
  BY <1>2, NoSpanCut
<1>4. SubSeq(s, 1, m) \in Seq(Frames)
  BY <1>2, SubSeqProperties
<1>5. Depths(SubSeq(s, 1, m), s[Len(s)].st) \in [Marks -> Nat]
  BY <1>4, DepthsType
<1>6. \A x \in Marks : Depth(s, q, x) =
        Depth(SubSeq(s, 1, m), s[Len(s)].st, x) + (IF q = x THEN 1 ELSE 0)
  BY <1>1, DepthPop
<1> QED BY <1>3, <1>5, <1>6 DEF Depths

LEMMA EndCloses ==
  ASSUME IInv, ClosingInv, NEW t \in alphabet, Close(t) \/ eLink(t)
  PROVE  ClosingInv'
<1> DEFINE p == SubSeq(fstack, 1, Len(fstack) - 1)
           b == fstack[Len(fstack)].st
<1>1. /\ Read(t) /\ fstack # <<>> /\ fsm' = b /\ fstack' = p /\ parse' = parse
      /\ \/ /\ t.k \in DOMAIN Closes /\ fsm = Enters(Closes[t.k])
            /\ ts' = Ended(ts, Closes[t.k])
         \/ /\ fsm = "spantxt"
            /\ ts' = [ts EXCEPT !.link = NoName, !.val["color"] = ""]
  BY DEF Close, eLink, Pop
<1>2. ASSUME Paired(alphabet) PROVE Closing(alphabet, fstack', fsm', ts')
  <2>1. /\ NoSpan(p, b) /\ Depths(p, b) \in [Marks -> Nat]
        /\ \A x \in Marks : Depths(fstack, fsm)[x] =
             Depths(p, b)[x] + (IF fsm = x THEN 1 ELSE 0)
    BY <1>1, <1>2, ClosingGiven, PopDepths
  <2> HIDE DEF p, b
  <2> DEFINE d == Depths(fstack, fsm)
             e == Depths(p, b)
  <2>2. /\ Matches(alphabet, d, ts) /\ ts \in Styles /\ d \in [Marks -> Nat]
        /\ e \in [Marks -> Nat] /\ t.k \in Kinds(alphabet)
        /\ \A x \in Marks : d[x] = e[x] + (IF fsm = x THEN 1 ELSE 0)
    BY <1>1, <1>2, <2>1, ClosingGiven
  <2>3. Matches(alphabet, e, ts')
    <3> HIDE DEF d, e
    <3>1. CASE fsm = "spantxt" /\ ts' = [ts EXCEPT !.link = NoName, !.val["color"] = ""]
      <4>1. \A x \in Marks : d[x] = e[x] + (IF "spantxt" = x THEN 1 ELSE 0)
        BY <2>2, <3>1
      <4>2. Matches(alphabet, e, [ts EXCEPT !.link = NoName, !.val["color"] = ""])
        BY <2>2, <4>1, LinkEndMatches
      <4> QED BY <3>1, <4>2
    <3>2. CASE /\ t.k \in DOMAIN Closes /\ fsm = Enters(Closes[t.k])
               /\ ts' = Ended(ts, Closes[t.k])
      <4>1. \A x \in Marks : d[x] = e[x] + (IF Enters(Closes[t.k]) = x THEN 1 ELSE 0)
        BY <2>2, <3>2
      <4>2. Matches(alphabet, e, Ended(ts, Closes[t.k]))
        BY <1>2, <2>2, <3>2, <4>1, EndMatches
      <4> QED BY <3>2, <4>2
    <3> QED BY <1>1, <3>1, <3>2
  <2> QED BY <1>1, <2>1, <2>3 DEF Closing
<1> QED BY <1>1, <1>2, ClosingShown

\* The callbacks that leave the stack alone.
LEMMA StillCloses ==
  ASSUME IInv, ClosingInv, NEW t \in alphabet, Text(t) \/ Tab(t) \/ Skip(t)
  PROVE  ClosingInv'
<1>1. /\ Read(t) /\ UNCHANGED <<parse, parser>>
      /\ \E m : ts' = ts \/ ts' = [ts EXCEPT !.num["tab"] = m]
  <2>1. CASE Text(t)
    BY <2>1, TextWhat DEF NoTab
  <2>2. CASE Tab(t)
    BY <2>2 DEF Tab
  <2>3. CASE Skip(t)
    BY <2>3 DEF Skip
  <2> QED BY <2>1, <2>2, <2>3
<1>2. fstack' = fstack /\ fsm' = fsm /\ parse' = parse
  BY <1>1 DEF parser
<1>3. ASSUME Paired(alphabet) PROVE Closing(alphabet, fstack', fsm', ts')
  <2>1. /\ NoSpan(fstack, fsm) /\ ts \in Styles
        /\ Matches(alphabet, Depths(fstack, fsm), ts)
    BY <1>1, <1>3, ClosingGiven
  <2>2. Matches(alphabet, Depths(fstack, fsm), ts')
    <3>1. CASE ts' = ts
      BY <2>1, <3>1
    <3>2. ASSUME NEW m, ts' = [ts EXCEPT !.num["tab"] = m]
          PROVE  Matches(alphabet, Depths(fstack, fsm), ts')
      BY <2>1, <3>2, TabMatches
    <3> QED BY <1>1, <3>1, <3>2
  <2> QED BY <1>2, <2>1, <2>2 DEF Closing
<1> QED BY <1>1, <1>2, <1>3, ClosingShown

\* The attributes of a tag.
LEMMA AttrCloses ==
  ASSUME IInv, ClosingInv, NEW t \in alphabet, Key(t) \/ Eq(t)
  PROVE  ClosingInv'
<1>1. PICK to \in {"key", "val"} :
        /\ Read(t) /\ fsm \in Tags \cup {"key"} /\ ts' = ts
        /\ fstack' = Append(fstack, Frame(t)) /\ fsm' = to /\ parse' = parse
  BY DEF Key, Eq, Push, Tags
<1>2. ASSUME Paired(alphabet) PROVE Closing(alphabet, fstack', fsm', ts')
  <2>1. fsm \notin {"init", "span"}
    BY <1>1, <1>2, ClosingGiven DEF NoSpan, Tags
  <2>2. NoSpan(fstack', fsm')
    BY <1>1, <1>2, <2>1, ClosingGiven, NoSpanPush
  <2>3. \A x \in Marks : Depth(fstack', fsm', x) = Depth(fstack, fsm, x)
    <3>1. ASSUME NEW x \in Marks
          PROVE  Depth(fstack', fsm', x) = Depth(fstack, fsm, x)
      <4>1. Depth(fstack', fsm', x) = Depth(fstack, fsm, x) + (IF to = x THEN 1 ELSE 0)
        BY <1>1, <1>2, ClosingGiven, DepthPush
      <4>2. to # x
        BY DEF Marks
      <4>3. Depth(fstack, fsm, x) \in Nat
        BY <1>1, <1>2, ClosingGiven, WhereFinite DEF Depth
      <4> QED BY <4>1, <4>2, <4>3
    <3> QED BY <3>1
  <2>4. Depths(fstack', fsm') = Depths(fstack, fsm)
    BY <2>3 DEF Depths
  <2> QED BY <1>1, <1>2, <2>2, <2>4, ClosingGiven DEF Closing
<1> QED BY <1>1, <1>2, ClosingShown

LEMMA PairCloses ==
  ASSUME IInv, ClosingInv, NEW t \in alphabet, Keyval(t) PROVE ClosingInv'
<1> DEFINE k == fstack[Len(fstack) - 1]
           f == [st |-> "keyval", cont |-> 1, key |-> k.str, str |-> t.x]
           p == SubSeq(fstack, 1, Len(fstack) - 2)
<1>1. /\ Read(t) /\ fsm = "val" /\ fstack' = Append(p, f)
      /\ fsm' = k.st /\ ts' = ts /\ parse' = parse
  BY DEF Keyval
<1>2. ASSUME Paired(alphabet) PROVE Closing(alphabet, fstack', fsm', ts')
  <2>1. Chain(fstack, "val", contflag)
    BY <1>1, <1>2, ClosingGiven
  <2>2. /\ Len(fstack) >= 2 /\ Len(fstack) \in Nat /\ k \in Frames /\ k.st \in Tags
    <3>1. /\ [Frame(t) EXCEPT !.st = "keyval", !.cont = 1] \in Frames
          /\ [Frame(t) EXCEPT !.st = "keyval", !.cont = 1].st = "keyval"
          /\ [Frame(t) EXCEPT !.st = "keyval", !.cont = 1].cont = 1
      BY <1>1, Given0 DEF Frames
    <3> QED BY <2>1, <3>1, PairChain
  <2>3. f \in Frames /\ f.st = "keyval"
    <3>1. k.str \in STRING /\ t.x \in Texts
      BY <1>1, <2>2, Given0, TextStrings DEF Frames
    <3> HIDE DEF k
    <3> QED BY <3>1 DEF Frames
  <2> DEFINE m == Len(fstack) - 2
  <2>4. m \in Nat /\ m < Len(fstack) /\ m + 1 = Len(fstack) - 1
    BY <2>2
  <2>5. NoSpan(p, k.st) /\ p \in Seq(Frames)
    <3>1. NoSpan(SubSeq(fstack, 1, m), fstack[m + 1].st)
      BY <1>1, <1>2, <2>4, ClosingGiven, NoSpanCut
    <3>2. SubSeq(fstack, 1, m) \in Seq(Frames)
      BY <1>1, <1>2, <2>4, ClosingGiven, SubSeqProperties
    <3> QED BY <2>4, <3>1, <3>2
  <2>6. \A x \in Marks : Depth(Append(p, f), k.st, x) = Depth(fstack, "val", x)
    <3> HIDE DEF f
    <3> QED BY <2>1, <2>3, DepthPair
  <2> HIDE DEF f, p, k, m
  <2>7. k.st \notin {"init", "span"}
    BY <2>2, <2>5 DEF NoSpan, Tags
  <2>8. NoSpan(fstack', fsm')
    BY <1>1, <2>3, <2>5, <2>7, NoSpanPush
  <2>9. Depths(fstack', fsm') = Depths(fstack, fsm)
    BY <1>1, <2>6 DEF Depths
  <2> QED BY <1>1, <1>2, <2>8, <2>9, ClosingGiven DEF Closing
<1> QED BY <1>1, <1>2, ClosingShown

\* ">": in a paired document that of a link or of an image.
LEMMA GtCloses ==
  ASSUME IInv, ClosingInv, NEW t \in alphabet, Span2(t) \/ Link2(t) \/ Image2(t)
  PROVE  ClosingInv'
<1> DEFINE b == fstack[Base].st
           f == [st |-> b, cont |-> 0, key |-> t.k, str |-> t.x]
<1>1. /\ Read(t) /\ fsm \in Tags /\ Bases # {} /\ parse' = parse
      /\ \/ fsm = "span"
         \/ /\ fstack' = Append(Below, f) /\ fsm' = "spantxt" /\ ts' = Linked
         \/ /\ fstack' = Below /\ fsm' = b /\ ts' = ts
  BY DEF Span2, Link2, Image2, Traps, Tags
<1>2. ASSUME Paired(alphabet) PROVE Closing(alphabet, fstack', fsm', ts')
  <2>1. fsm # "span"
    BY <1>1, <1>2, ClosingGiven DEF NoSpan
  <2>2. /\ Base \in 1 .. Len(fstack) /\ Len(fstack) \in Nat /\ Below \in Seq(Frames)
        /\ b \in States
    BY <1>1, <1>2, ClosingGiven, GtChain DEF Chain
  <2>3. Base - 1 \in Nat /\ Base - 1 < Len(fstack) /\ (Base - 1) + 1 = Base
    BY <2>2
  <2>4. NoSpan(Below, b)
    <3>1. NoSpan(SubSeq(fstack, 1, Base - 1), fstack[(Base - 1) + 1].st)
      BY <1>1, <1>2, <2>3, ClosingGiven, NoSpanCut
    <3> QED BY <2>3, <3>1 DEF Below
  <2>5. \A x \in Marks : Depth(Below, b, x) = Depth(fstack, fsm, x)
    BY <1>1, <1>2, ClosingGiven, DepthGt
  <2>6. Depths(Below, b) = Depths(fstack, fsm)
    BY <2>5 DEF Depths
  <2>7. f \in Frames /\ f.st = b
    <3>1. t.k \in STRING /\ t.x \in Texts
      BY <1>1, Given0
    <3> HIDE DEF b
    <3> QED BY <2>2, <3>1 DEF Frames
  <2> HIDE DEF b, f
  <2>8. CASE fstack' = Below /\ fsm' = b /\ ts' = ts
    BY <1>1, <1>2, <2>4, <2>6, <2>8, ClosingGiven DEF Closing
  <2>9. CASE fstack' = Append(Below, f) /\ fsm' = "spantxt" /\ ts' = Linked
    <3>1. NoSpan(fstack', fsm')
      <4>1. f.st # "span" /\ (f.st = "init" => Len(Below) = 0)
        BY <2>4, <2>7 DEF NoSpan
      <4> QED BY <2>2, <2>4, <2>7, <2>9, <4>1, NoSpanPush
    <3>2. fstack' \in Seq(Frames)
      BY <2>2, <2>7, <2>9, Appended
    <3>3. Depths(fstack', fsm') \in [Marks -> Nat]
      BY <3>2, DepthsType
    <3>4. \A x \in Marks : Depths(fstack', fsm')[x] =
            Depths(Below, b)[x] + (IF "spantxt" = x THEN 1 ELSE 0)
      BY <2>2, <2>7, <2>9, DepthPush DEF Depths
    <3>5. Matches(alphabet, Depths(fstack', fsm'), ts')
      BY <1>1, <1>2, <2>6, <2>9, <3>3, <3>4, ClosingGiven, LinkMatches
    <3> QED BY <3>1, <3>5 DEF Closing
  <2> QED BY <1>1, <2>1, <2>8, <2>9
<1> QED BY <1>1, <1>2, ClosingShown

LEMMA ViewerCloses ==
  ASSUME IInv, ClosingInv,
         Mainfunc \/ Flush \/ FlushRaises \/ Follow \/ bslink \/ Quit
  PROVE  ClosingInv'
<1>1. CASE Flush \/ FlushRaises \/ Quit
  BY <1>1 DEF Flush, FlushRaises, Fail, Quit, Idle, ClosingInv
<1>2. ASSUME NEW name, NEW left, Showfile(name, left), parse # "running"
      PROVE  ClosingInv'
  BY <1>2, EmptyCloses DEF Showfile, ClosingInv
<1>3. CASE Mainfunc \/ Follow \/ bslink
  BY <1>2, <1>3 DEF Mainfunc, Follow, bslink, Idle
<1> QED BY <1>1, <1>3

LEMMA ClosingNext == IInv /\ ClosingInv /\ [Next]_vars => ClosingInv'
<1> SUFFICES ASSUME IInv, ClosingInv, [Next]_vars PROVE ClosingInv'
  OBVIOUS
<1>1. CASE Mainfunc \/ Flush \/ FlushRaises \/ Follow \/ bslink \/ Quit
  BY <1>1, ViewerCloses
<1>2. ASSUME NEW t \in alphabet,
             \/ Open(t) \/ Close(t) \/ Text(t) \/ Tab(t) \/ Key(t) \/ Eq(t)
             \/ Keyval(t) \/ Span2(t) \/ Link2(t) \/ eLink(t) \/ Image2(t) \/ Skip(t)
      PROVE  ClosingInv'
  BY <1>2, OpenCloses, EndCloses, StillCloses, AttrCloses, PairCloses, GtCloses
<1>3. ASSUME NEW t \in alphabet, eSpan(t) PROVE ClosingInv'
  <2>1. Read(t) /\ t.k = "espan" /\ parse' = parse
    BY <1>3 DEF eSpan
  <2>2. ~Paired(alphabet)
    BY <2>1, Given0 DEF Paired
  <2> QED BY <2>1, <2>2, ClosingShown
<1>4. ASSUME NEW t \in alphabet, Raise(t) \/ TextRaises(t) PROVE ClosingInv'
  BY <1>4 DEF Raise, TextRaises, Fail, ClosingInv
<1>5. CASE UNCHANGED vars
  BY <1>5 DEF vars, text, parser, ClosingInv
<1> QED BY <1>1, <1>2, <1>3, <1>4, <1>5 DEF Next

\* In a document without spans, and without the one of the sizes XLARGE and
\* XXLARGE next to the end tag of the other, every attribute, count, colour and
\* link goes with the tag that set it, however often and however crossed tags
\* are opened and closed (pangfunc.py, TextState; parser.py, popstate).
THEOREM ClosedIsPlain == Spec => []AllClosed
<1>1. Init => ClosingInv
  BY DEF Init, ClosingInv
<1>2. IInv /\ ClosingInv => AllClosed
  <2> SUFFICES ASSUME IInv, ClosingInv, parse = "running", fsm = "init",
                      Paired(alphabet)
               PROVE  NoTab(ts) = Plain
    BY DEF AllClosed
  <2>1. Len(fstack) = 0 /\ Matches(alphabet, Depths(fstack, fsm), ts)
    BY DEF ClosingInv, Closing, NoSpan
  <2>2. ts \in Styles
    BY DEF IInv, StyleInv
  <2>3. ASSUME NEW x \in Marks \ {"init"} PROVE Depths(fstack, fsm)[x] = 0
    <3>1. Where(fstack, x) = {}
      BY <2>1 DEF Where
    <3>2. Cardinality({}) = 0
      BY FS_EmptySet
    <3> QED BY <3>1, <3>2 DEF Depths, Depth
  <2> QED BY <2>1, <2>2, <2>3, ClosedPlain
<1> QED BY <1>1, <1>2, Invariant, ClosingNext, PTL DEF Spec

-----------------------------------------------------------------------------
(* The pages are typeset: the refinement. *)

\* A pane with what is still cached for it.
Set(p) == IF p = flag THEN page[p] \o Pending ELSE page[p]
SetPage == [p \in Panes |-> Set(p)]

LEMMA NothingPending ==
  /\ accum = <<>> => Pending = <<>>
  /\ accum' = <<>> => Pending' = <<>>
  BY DEF Pending, Tagged

LEMMA SetIs ==
  ASSUME IInv, accum = <<>>
  PROVE  SetPage = page
<1>1. ASSUME NEW p \in Panes PROVE Set(p) = page[p]
  <2>1. page[p] \in Seq(Seen) /\ Pending = <<>>
    BY NothingPending DEF IInv, PageInv
  <2> HIDE DEF Seen
  <2>2. page[p] \o <<>> = page[p]
    BY <2>1, ConcatEmptySeq
  <2> QED BY <2>1, <2>2 DEF Set
<1> QED BY <1>1 DEF SetPage, IInv, PageInv

\* The mapped page does not change with what does not touch cache and panes.
LEMMA SetKept ==
  ASSUME IInv, UNCHANGED <<cache, page, flag>>
  PROVE  SetPage' = SetPage
<1>1. Pending' = Pending
  <2>1. CASE accum = <<>>
    <3>1. accum' = <<>>
      BY <2>1 DEF cache
    <3> QED BY <2>1, <3>1, NothingPending
  <2>2. CASE accum # <<>>
    <3>1. \E s : oldstate = <<s>>
      BY <2>2, Zenon DEF IInv, CacheInv
    <3>2. CacheLook' = CacheLook /\ accum' = accum
      BY <3>1 DEF CacheLook, cache
    <3> QED BY <3>2 DEF Pending, Tagged, NoTab
  <2> QED BY <2>1, <2>2
<1> QED BY <1>1 DEF SetPage, Set

LEMMA AppendBehind ==
  ASSUME NEW u \in Seq(Seen), NEW v \in Seq(Seen), NEW e \in Seen
  PROVE  u \o Append(v, e) = Append(u \o v, e)
<1>1. <<e>> \in Seq(Seen) /\ Append(v, e) = v \o <<e>>
  BY AppendIsConcat
<1>2. u \o v \in Seq(Seen)
  BY ConcatProperties
<1>3. Append(u \o v, e) = (u \o v) \o <<e>>
  BY <1>2, AppendIsConcat
<1>4. (u \o v) \o <<e>> = u \o (v \o <<e>>)
  BY <1>1, ConcatAssociative
<1> QED BY <1>1, <1>3, <1>4

\* A text goes behind all that is set, in the style in force.
LEMMA TextSets ==
  ASSUME IInv, NEW t \in alphabet, Text(t)
  PROVE  /\ NoTab(ts') = NoTab(ts) /\ flag' = flag
         /\ \/ SetPage' = SetPage /\ Dropped(t) /\ lastsp' = lastsp
            \/ \E x \in Shown :
                 SetPage' = [SetPage EXCEPT ![flag] =
                               Append(@, [x |-> x, look |-> NoTab(ts)])]
<1>0. PICK x \in Shown :
        \/ Dropped(t) /\ lastsp' = lastsp /\ UNCHANGED <<ts, accum, oldstate, page>>
        \/ /\ oldstate = <<ts>> /\ Len(accum) < CacheMax
           /\ accum' = Append(accum, x) /\ UNCHANGED <<ts, oldstate, page>>
        \/ /\ page' = [page EXCEPT ![flag] = @ \o Pending]
           /\ ts' \in {ts, NoTab(ts)} /\ accum' = <<x>> /\ oldstate' = <<ts'>>
  BY TextWhat
<1> DEFINE e == [x |-> x, look |-> NoTab(ts)]
<1>1. Read(t) /\ ts \in Styles /\ ~Hides(ts)
  BY TextWhat
<1>2. flag' = flag /\ flag \in Panes
  BY <1>1, Given0 DEF Read, viewer, IInv, ViewInv
<1>3. NoTab(ts) \in Styles /\ ~Hides(NoTab(ts)) /\ NoTab(NoTab(ts)) = NoTab(ts)
  BY <1>1, NoTabStyle DEF Hides
<1>4. e \in Seen
  BY <1>2, <1>3 DEF Seen
<1>5. Pending \in Seq(Seen) /\ page \in [Panes -> Seq(Seen)]
  BY PendingSeen DEF IInv, PageInv
<1>6. page[flag] \in Seq(Seen) /\ page[flag] \o Pending \in Seq(Seen)
  BY <1>2, <1>5, ConcatProperties
<1> HIDE DEF e, Seen
<1>7. CASE Dropped(t) /\ lastsp' = lastsp /\ UNCHANGED <<ts, accum, oldstate, page>>
  <2>1. Pending' = Pending /\ NoTab(ts') = NoTab(ts)
    BY <1>7 DEF Pending, Tagged, CacheLook, NoTab
  <2>2. SetPage' = SetPage
    BY <1>2, <1>7, <2>1 DEF SetPage, Set
  <2> QED BY <1>2, <1>7, <2>1, <2>2
<1>8. CASE /\ oldstate = <<ts>> /\ Len(accum) < CacheMax
           /\ accum' = Append(accum, x) /\ UNCHANGED <<ts, oldstate, page>>
  <2>1. CacheLook = ts /\ CacheLook' = ts /\ NoTab(ts') = NoTab(ts)
    BY <1>8 DEF CacheLook, NoTab
  <2>2. Pending' = Append(Pending, e)
    <3>1. accum \in Seq(Shown) /\ accum' = Append(accum, x)
      BY <1>8 DEF IInv, CacheInv
    <3>2. /\ Len(accum) \in Nat /\ DOMAIN accum = 1 .. Len(accum)
          /\ Len(accum') = Len(accum) + 1 /\ DOMAIN accum' = 1 .. Len(accum) + 1
          /\ accum'[Len(accum) + 1] = x
          /\ \A i \in 1 .. Len(accum) : accum'[i] = accum[i]
      BY <1>2, <3>1, AppendProperties, LenProperties
    <3> DEFINE g(i) == [x |-> accum[i], look |-> NoTab(ts)]
               h(i) == [x |-> accum'[i], look |-> NoTab(ts)]
    <3>3. Pending = [i \in 1 .. Len(accum) |-> g(i)]
      BY <2>1, <3>2 DEF Pending, Tagged
    <3>4. Pending' = [i \in 1 .. Len(accum) + 1 |-> h(i)]
      BY <2>1, <3>2 DEF Pending, Tagged, NoTab
    <3>5. h(Len(accum) + 1) = e
      BY <3>2 DEF e
    <3>6. \A i \in 1 .. Len(accum) : h(i) = g(i)
      BY <3>2
    <3>7. Len(Pending) = Len(accum) /\ \A i \in 1 .. Len(accum) : Pending[i] = g(i)
      BY <1>5, <3>2, <3>3, LenProperties
    <3> HIDE DEF g, h
    <3>8. Append(Pending, e) \in Seq(Seen) /\ Len(Append(Pending, e)) = Len(accum) + 1
      BY <1>4, <1>5, <3>7, AppendProperties
    <3>9. \A i \in 1 .. Len(accum) + 1 : Append(Pending, e)[i] = h(i)
      BY <1>4, <1>5, <3>2, <3>5, <3>6, <3>7, AppendProperties
    <3>10. Append(Pending, e) = [i \in 1 .. Len(accum) + 1 |-> h(i)]
      BY <3>8, <3>9, LenProperties
    <3> QED BY <3>4, <3>10
  <2>3. page[flag] \o Append(Pending, e) = Append(page[flag] \o Pending, e)
    <3>1. Pending \in Seq(Seen) /\ page[flag] \in Seq(Seen) /\ e \in Seen
      BY <1>4, <1>5, <1>6
    <3> QED BY <3>1, AppendBehind
  <2>4. SetPage' = [SetPage EXCEPT ![flag] = Append(@, e)]
    BY <1>2, <1>8, <2>2, <2>3 DEF SetPage, Set
  <2> QED BY <1>2, <2>1, <2>4 DEF e
<1>9. CASE /\ page' = [page EXCEPT ![flag] = @ \o Pending]
           /\ ts' \in {ts, NoTab(ts)} /\ accum' = <<x>> /\ oldstate' = <<ts'>>
  <2>1. NoTab(ts') = NoTab(ts)
    BY <1>3, <1>9
  <2>2. CacheLook' = ts'
    BY <1>9 DEF CacheLook
  <2>3. Pending' = <<e>>
    <3>1. DOMAIN <<x>> = 1 .. 1
      OBVIOUS
    <3>2. Pending' = [i \in 1 .. 1 |-> [x |-> <<x>>[i], look |-> NoTab(ts)]]
      BY <1>9, <2>1, <2>2, <3>1 DEF Pending, Tagged, NoTab
    <3>3. <<x>>[1] = x
      OBVIOUS
    <3>4. Pending' = [i \in 1 .. 1 |-> e]
      BY <3>2, <3>3 DEF e
    <3> QED BY <3>4
  <2>4. (page[flag] \o Pending) \o <<e>> = Append(page[flag] \o Pending, e)
    BY <1>4, <1>6
  <2>5. page'[flag] = page[flag] \o Pending /\ \A p \in Panes : p # flag => page'[p] = page[p]
    BY <1>2, <1>5, <1>9
  <2>6. SetPage' = [SetPage EXCEPT ![flag] = Append(@, e)]
    BY <1>2, <2>3, <2>4, <2>5 DEF SetPage, Set
  <2> QED BY <1>2, <2>1, <2>6 DEF e
<1> QED BY <1>0, <1>7, <1>8, <1>9

\* The actions of Typeset in terms of the mapped page.
LEMMA Restyles == SetPage' = SetPage => T!Next
  BY DEF SetPage, Set, T!Next, T!Restyle

LEMMA Puts ==
  ASSUME NEW p \in Panes, NEW x \in Shown, NoTab(ts') = NoTab(ts),
         SetPage' = [SetPage EXCEPT ![p] = Append(@, [x |-> x, look |-> NoTab(ts)])]
  PROVE  T!Next
<1>1. T!Put(p)
  BY DEF SetPage, Set, T!Put
<1> QED BY <1>1 DEF T!Next

LEMMA Begins ==
  ASSUME NEW p \in Panes, NoTab(ts') = Plain,
         SetPage' = [SetPage EXCEPT ![p] = <<>>]
  PROVE  T!Next
<1>1. T!Begin(p)
  BY DEF SetPage, Set, T!Begin
<1> QED BY <1>1 DEF T!Next

\* What lies in front of and behind a place.
LEMMA Halves ==
  ASSUME NEW u \in Seq(Seen), NEW v \in Seq(Seen)
  PROVE  /\ Len(u) \in 0 .. Len(u \o v)
         /\ SubSeq(u \o v, 1, Len(u)) = u
         /\ SubSeq(u \o v, Len(u) + 1, Len(u \o v)) = v
<1> HIDE DEF Seen
<1> DEFINE w == u \o v
           a == Len(u)
           b == Len(v)
<1>1. a \in Nat /\ b \in Nat /\ DOMAIN u = 1 .. a /\ DOMAIN v = 1 .. b
  BY LenProperties
<1>2. w \in Seq(Seen) /\ Len(w) = a + b
      /\ \A i \in 1 .. a + b : w[i] = IF i <= a THEN u[i] ELSE v[i - a]
  BY ConcatProperties
<1> HIDE DEF w, a, b
<1>3. SubSeq(w, 1, a) = u
  <2>1. /\ SubSeq(w, 1, a) \in Seq(Seen) /\ Len(SubSeq(w, 1, a)) = a
        /\ \A i \in 1 .. a : SubSeq(w, 1, a)[i] = w[i]
    BY <1>1, <1>2, SubSeqProperties
  <2>2. \A i \in 1 .. a : SubSeq(w, 1, a)[i] = u[i]
    BY <1>1, <1>2, <2>1
  <2> QED BY <1>1, <2>1, <2>2, SeqEqual DEF a
<1>4. SubSeq(w, a + 1, a + b) = v
  <2>1. /\ SubSeq(w, a + 1, a + b) \in Seq(Seen)
        /\ Len(SubSeq(w, a + 1, a + b)) = b
        /\ \A i \in 1 .. b : SubSeq(w, a + 1, a + b)[i] = w[a + i]
    BY <1>1, <1>2, SubSeqProperties
  <2>2. \A i \in 1 .. b : SubSeq(w, a + 1, a + b)[i] = v[i]
    BY <1>1, <1>2, <2>1
  <2> QED BY <1>1, <2>1, <2>2, SeqEqual DEF b
<1>5. a \in 0 .. Len(w)
  BY <1>1, <1>2
<1> QED BY <1>2, <1>3, <1>4, <1>5 DEF a, w

\* A picture or a message between two parts of a pane.
LEMMA PutsBetween ==
  ASSUME NEW p \in Panes, NEW x \in Others,
         NoTab(ts') = NoTab(ts), NEW u \in Seq(Seen), NEW v \in Seq(Seen),
         Set(p) = u \o v,
         SetPage' = [SetPage EXCEPT ![p] = u \o <<[x |-> x, look |-> Plain]>> \o v]
  PROVE  T!Next
<1> DEFINE m == Len(u)
<1>1. SetPage[p] = u \o v
  BY DEF SetPage
<1>2. /\ m \in 0 .. Len(SetPage[p]) /\ SubSeq(SetPage[p], 1, m) = u
      /\ SubSeq(SetPage[p], m + 1, Len(SetPage[p])) = v
  BY <1>1, Halves
<1> HIDE DEF m
<1>3. \E i \in 0 .. Len(SetPage[p]), y \in Others :
        SetPage' = [SetPage EXCEPT ![p] =
          SubSeq(@, 1, i) \o <<[x |-> y, look |-> Plain]>> \o SubSeq(@, i + 1, Len(@))]
  <2> HIDE DEF SetPage
  <2> QED BY <1>2
<1>4. T!Insert(p)
  BY <1>3, Zenon DEF SetPage, Set, T!Insert
<1> QED BY <1>4 DEF T!Next

LEMMA Inserts ==
  ASSUME NEW p \in Panes, NEW x \in Others,
         NoTab(ts') = NoTab(ts), SetPage \in [Panes -> Seq(Seen)],
         SetPage' = [SetPage EXCEPT ![p] = Append(@, [x |-> x, look |-> Plain])]
  PROVE  T!Next
<1> DEFINE e == [x |-> x, look |-> Plain]
<1>1. e \in Seen
  BY PlainStyle DEF Seen, Others
<1> HIDE DEF e, Seen
<1>2. Set(p) = SetPage[p] /\ SetPage[p] \in Seq(Seen)
  BY DEF SetPage
<1>3. SetPage[p] = SetPage[p] \o <<>> /\ <<>> \in Seq(Seen)
  BY <1>2, EmptySeq, ConcatEmptySeq
<1>4. Append(SetPage[p], e) = SetPage[p] \o <<e>>
  BY <1>1, <1>2, AppendIsConcat
<1>5. SetPage[p] \o <<e>> \o <<>> = SetPage[p] \o <<e>>
  <2>1. SetPage[p] \o <<e>> \in Seq(Seen)
    BY <1>1, <1>2, <1>4, AppendProperties
  <2> QED BY <2>1, ConcatEmptySeq
<1>6. SetPage' = [SetPage EXCEPT ![p] = SetPage[p] \o <<e>> \o <<>>]
  BY <1>4, <1>5 DEF e
<1> QED BY <1>2, <1>3, <1>6, PutsBetween DEF e

LEMMA ShowfileMaps ==
  ASSUME IInv, NEW name, NEW left, Showfile(name, left), parse = "done",
         flag' \in Panes
  PROVE  T!Next
<1>1. accum = <<>> /\ accum' = <<>>
  <2>1. accum = <<>>
    BY DEF IInv, CacheInv
  <2> QED BY <2>1 DEF Showfile, cache
<1>2. SetPage = page /\ page \in [Panes -> Seq(Seen)]
  BY <1>1, SetIs DEF IInv, PageInv
<1>3. ASSUME page' \in [Panes -> Seq(Seen)] PROVE SetPage' = page'
  <2>1. ASSUME NEW p \in Panes PROVE page'[p] \o <<>> = page'[p]
    <3>1. page'[p] \in Seq(Seen)
      BY <1>3
    <3> HIDE DEF Seen
    <3> QED BY <3>1, ConcatEmptySeq
  <2>2. Pending' = <<>>
    BY <1>1, NothingPending
  <2> QED BY <1>3, <2>1, <2>2 DEF SetPage, Set
<1>4. CASE page' = [page EXCEPT ![flag'] = <<>>] /\ ts' = Plain
  <2>1. page' \in [Panes -> Seq(Seen)]
    <3>1. <<>> \in Seq(Seen)
      BY EmptySeq
    <3> HIDE DEF Seen
    <3> QED BY <1>2, <1>4, <3>1
  <2>2. NoTab(ts') = Plain
    BY <1>4, PlainStyle
  <2> QED BY <1>2, <1>3, <1>4, <2>1, <2>2, Begins
<1>5. CASE /\ page' = [page EXCEPT !["document"] =
                         Append(@, [x |-> "unreadable", look |-> Plain])]
           /\ ts' = ts
  <2>1. page' \in [Panes -> Seq(Seen)]
    <3>1. [x |-> "unreadable", look |-> Plain] \in Seen
      BY PlainStyle DEF Seen, Others
    <3>2. page["document"] \in Seq(Seen)
      BY <1>2 DEF Panes
    <3>3. Append(page["document"], [x |-> "unreadable", look |-> Plain]) \in Seq(Seen)
      BY <3>1, <3>2, AppendProperties
    <3> HIDE DEF Seen
    <3> QED BY <1>2, <1>5, <3>3
  <2>2. NoTab(ts') = NoTab(ts)
    BY <1>5
  <2> QED BY <1>2, <1>3, <1>5, <2>1, <2>2, Inserts DEF Panes, Others
<1> QED BY <1>4, <1>5 DEF Showfile

LEMMA FlushMaps == ASSUME IInv, Flush PROVE SetPage' = SetPage
<1>1. flag' = flag /\ flag \in Panes /\ page' = [page EXCEPT ![flag] = @ \o Pending]
  BY DEF Flush, IInv, ViewInv
<1>2. Pending' = <<>>
  BY NothingPending DEF Flush
<1>3. page \in [Panes -> Seq(Seen)] /\ page[flag] \o Pending \in Seq(Seen)
  BY <1>1, PendingSeen, ConcatProperties DEF IInv, PageInv
<1>4. (page[flag] \o Pending) \o <<>> = page[flag] \o Pending
  BY <1>3, ConcatEmptySeq
<1> HIDE DEF Seen
<1> QED BY <1>1, <1>2, <1>3, <1>4 DEF SetPage, Set

\* A picture goes behind what was set and before what is cached.
LEMMA PictureMaps ==
  ASSUME IInv, NEW x \in Others, UNCHANGED <<flag, ts, cache>>,
         page' = [page EXCEPT ![flag] = Append(@, [x |-> x, look |-> Plain])]
  PROVE  T!Next
<1> DEFINE e == [x |-> x, look |-> Plain]
<1>1. /\ flag' = flag /\ UNCHANGED <<ts, cache>>
      /\ page' = [page EXCEPT ![flag] = Append(@, e)]
  OBVIOUS
<1>2. /\ flag \in Panes /\ page \in [Panes -> Seq(Seen)] /\ page[flag] \in Seq(Seen)
      /\ Pending \in Seq(Seen)
  BY PendingSeen DEF IInv, ViewInv, PageInv
<1>3. e \in Seen
  BY PlainStyle DEF Seen
<1>4. NoTab(ts') = NoTab(ts)
  BY <1>1
<1>5. Pending' = Pending
  <2>1. CASE accum = <<>>
    <3>1. accum' = <<>>
      BY <1>1, <2>1 DEF cache
    <3> QED BY <2>1, <3>1, NothingPending
  <2>2. CASE accum # <<>>
    <3>1. CacheLook' = CacheLook /\ accum' = accum
      BY <1>1 DEF CacheLook, cache
    <3> QED BY <3>1 DEF Pending, Tagged, NoTab
  <2> QED BY <2>1, <2>2
<1>6. Append(page[flag], e) = page[flag] \o <<e>>
  <2> HIDE DEF Seen, e
  <2> QED BY <1>2, <1>3, AppendIsConcat
<1>7. Set(flag) = page[flag] \o Pending
  BY DEF Set
<1>8. SetPage' = [SetPage EXCEPT ![flag] = page[flag] \o <<e>> \o Pending]
  <2>1. page'[flag] = page[flag] \o <<e>> /\ \A p \in Panes : p # flag => page'[p] = page[p]
    BY <1>1, <1>2, <1>6
  <2> HIDE DEF e, Seen
  <2> QED BY <1>1, <1>2, <1>5, <2>1 DEF SetPage, Set
<1> HIDE DEF Seen
<1> QED BY <1>2, <1>4, <1>7, <1>8, PutsBetween

\* Text that raises leaves the cache to be shown in the same style.
LEMMA TextRaisesMaps ==
  ASSUME IInv, NEW t \in alphabet, TextRaises(t)
  PROVE  SetPage' = SetPage
<1>1. UNCHANGED <<flag, accum, page>>
  BY DEF TextRaises, Fail
<1>2. Pending' = Pending
  <2>1. CASE accum = <<>>
    BY <1>1, <2>1, NothingPending
  <2>2. ASSUME NEW s \in Styles, oldstate = <<s>> PROVE Pending' = Pending
    <3>1. oldstate' = <<s>> \/ oldstate' = <<NoTab(s)>>
      <4>1. \/ oldstate' = oldstate
            \/ oldstate' = [i \in DOMAIN oldstate |-> NoTab(oldstate[i])]
        BY DEF TextRaises
      <4> QED BY <2>2, <4>1
    <3>2. CacheLook = s /\ CacheLook' \in {s, NoTab(s)}
      BY <2>2, <3>1 DEF CacheLook
    <3>3. NoTab(CacheLook') = NoTab(CacheLook)
      BY <3>2, NoTabStyle
    <3> QED BY <1>1, <3>3 DEF Pending, Tagged, NoTab
  <2> QED BY <2>1, <2>2 DEF IInv, CacheInv
<1> QED BY <1>1, <1>2 DEF SetPage, Set

\* A callback that raises before the viewer waits ends the program.
FailedInv == parse = "failed" => phase \in {"main", "gone"}

LEMMA FailedNext == FailedInv /\ [Next]_vars => FailedInv'
<1> SUFFICES ASSUME FailedInv, [Next]_vars PROVE FailedInv'
  OBVIOUS
<1>1. ASSUME NEW name, NEW left, Showfile(name, left), parse # "running",
             phase \in Panes \cup {"main"}
      PROVE  FailedInv'
  BY <1>1 DEF Showfile, FailedInv, After, Panes
<1>2. CASE Mainfunc \/ Follow \/ bslink
  BY <1>1, <1>2 DEF Mainfunc, Follow, bslink, Idle
<1>3. CASE Flush \/ FlushRaises \/ Quit
  BY <1>3 DEF Flush, FlushRaises, Fail, Quit, FailedInv
<1>4. ASSUME NEW t \in alphabet,
             \/ Open(t) \/ Close(t) \/ Text(t) \/ Tab(t) \/ Key(t) \/ Eq(t)
             \/ Keyval(t) \/ Span2(t) \/ eSpan(t) \/ Link2(t) \/ eLink(t)
             \/ Image2(t) \/ Skip(t)
      PROVE  FailedInv'
  <2>1. parse' = parse /\ phase' = phase
    BY <1>4 DEF Open, Close, Text, Tab, Key, Eq, Keyval, Span2, eSpan, Link2, eLink,
                Image2, Skip, Read, viewer
  <2> QED BY <2>1 DEF FailedInv
<1>5. ASSUME NEW t \in alphabet, Raise(t) \/ TextRaises(t) PROVE FailedInv'
  BY <1>5 DEF Raise, TextRaises, Fail, FailedInv
<1>6. CASE UNCHANGED vars
  BY <1>6 DEF vars, viewer, FailedInv
<1> QED BY <1>2, <1>3, <1>4, <1>5, <1>6 DEF Next

\* Where the viewer waits, the last document was set to its end.
NeverStuck == phase = "main" => parse # "failed"

LEMMA NextMaps ==
  ASSUME IInv, FailedInv, NeverStuck, [Next]_vars
  PROVE  [T!Next]_(T!vars)
<1>1. parse \in {"running", "done", "failed"} /\ flag \in Panes
  BY DEF IInv, ViewInv
<1>2. CASE Mainfunc \/ Follow \/ bslink
  <2>1. PICK name, left : Showfile(name, left) /\ parse # "running" /\ flag' \in Panes
    BY <1>1, <1>2 DEF Mainfunc, Follow, bslink, Idle
  <2>2. phase \in Panes \cup {"main"}
    BY <1>2 DEF Mainfunc, Follow, bslink, Idle
  <2>3. parse = "done"
    BY <1>1, <2>1, <2>2 DEF FailedInv, NeverStuck, Panes
  <2> QED BY <2>1, <2>3, ShowfileMaps
<1>3. CASE Flush
  BY <1>3, FlushMaps, Restyles
<1>4. ASSUME NEW t \in alphabet, Text(t) PROVE T!Next
  BY <1>1, <1>4, TextSets, Restyles, Puts
<1>5. ASSUME NEW t \in alphabet, Image2(t) \/ Raise(t) PROVE T!Next
  <2>1. UNCHANGED <<flag, ts, cache>>
    BY <1>5 DEF Image2, Raise, Fail, Read, viewer
  <2>2. "picture" \in Others /\ "blank" \in Others
    BY DEF Others
  <2>3. CASE page' = page
    BY <2>1, <2>3, SetKept, Restyles
  <2>4. CASE page' # page
    BY <1>5, <2>1, <2>2, <2>4, PictureMaps DEF Image2, Raise
  <2> QED BY <2>3, <2>4
<1>6. ASSUME NEW t \in alphabet,
             \/ Open(t) \/ Close(t) \/ Tab(t) \/ Key(t) \/ Eq(t) \/ Keyval(t)
             \/ Span2(t) \/ eSpan(t) \/ Link2(t) \/ eLink(t) \/ Skip(t)
      PROVE  T!Next
  <2>1. UNCHANGED <<cache, page, flag>>
    BY <1>6 DEF Open, Close, Tab, Key, Eq, Keyval, Span2, eSpan, Link2, eLink,
                Skip, Read, viewer
  <2> QED BY <2>1, SetKept, Restyles
<1>7. CASE FlushRaises \/ Quit \/ UNCHANGED vars
  <2>1. UNCHANGED <<cache, page, flag>>
    BY <1>7 DEF FlushRaises, Fail, Quit, vars, viewer
  <2> QED BY <2>1, SetKept, Restyles
<1>8. ASSUME NEW t \in alphabet, TextRaises(t) PROVE T!Next
  BY <1>8, TextRaisesMaps, Restyles
<1> QED BY <1>2, <1>3, <1>4, <1>5, <1>6, <1>7, <1>8 DEF Next

\* Whatever documents are shown, with pictures or without, in whatever order, and
\* however large the cache is: as long as no callback raises while the viewer
\* waits (which leaves the rest of a document in the cache), the panes are set as
\* Typeset says (pangdisp.py, the display cache).
THEOREM TypesetUntilTrap == Spec /\ []NeverStuck => Shows
<1>1. Init => T!Init
  <2> SUFFICES ASSUME Init PROVE T!Init
    OBVIOUS
  <2>1. IInv
    BY InitInv
  <2>2. accum = <<>> /\ page = [p \in Panes |-> <<>>] /\ ts = Plain
    BY DEF Init
  <2>3. SetPage = [p \in Panes |-> <<>>] /\ NoTab(ts) = Plain
    BY <2>1, <2>2, SetIs, PlainStyle
  <2> QED BY <2>3 DEF SetPage, Set, T!Init
<1>2. Init => FailedInv
  BY DEF Init, FailedInv
<1>3. IInv /\ FailedInv /\ NeverStuck /\ [Next]_vars => [T!Next]_(T!vars)
  BY NextMaps
<1> QED BY <1>1, <1>2, <1>3, Invariant, FailedNext, PTL DEF Spec, Shows, T!Spec

\* No escape is held and every text in the cache encodes.
Clean == held = Nothing /\ Encodes

LEMMA PlainText ==
  ASSUME NEW t, Len(Parts[t.x]) = 1, Parts[t.x][1].k = "run", held = Nothing
  PROVE  /\ Unescaped(t).ok /\ Unescaped(t).out = <<Parts[t.x][1].n>>
         /\ Kept(Unescaped(t)) = Nothing
<1> DEFINE p == Parts[t.x]
           u == [out |-> <<>>, tab |-> held.tab, len |-> held.len, ok |-> TRUE]
<1>1. Front(p) = <<>> /\ Last(p) = p[1]
  BY DEF Front, Last
<1>2. Unescaped(t) = Run(u, p[1].n)
  BY <1>1, NoParts DEF Unescaped, unescape, Ending
<1>3. ~Complete(u) /\ u.out = <<>>
  BY DEF Complete, Nothing
<1>4. Unescaped(t) =
        [out |-> <<p[1].n>>, tab |-> <<>>, len |-> 0, ok |-> TRUE]
  BY <1>2, <1>3 DEF Run, Stuck, United
<1> QED BY <1>4 DEF Kept, Nothing

LEMMA CleanNext ==
  ASSUME \A A \in Alphabets : Tame(A)
  PROVE  IInv /\ Clean /\ [Next]_vars => Clean'
<1> SUFFICES ASSUME IInv, Clean, [Next]_vars PROVE Clean'
  OBVIOUS
<1>1. CASE UNCHANGED <<held, accum>>
  BY <1>1 DEF Clean, Encodes
<1>2. CASE held' = held /\ accum' = <<>>
  BY <1>2 DEF Clean, Encodes
<1>3. ASSUME NEW t \in alphabet, Text(t) \/ TextRaises(t) PROVE Clean'
  <2>1. /\ t.x \in Texts /\ Len(Parts[t.x]) = 1 /\ Parts[t.x][1].k = "run"
    BY TokenIs DEF IInv
  <2>2. /\ Unescaped(t).ok /\ Unescaped(t).out = <<Parts[t.x][1].n>>
        /\ Kept(Unescaped(t)) = Nothing
    BY <2>1, PlainText DEF Clean
  <2>3. Text(t) /\ held' = Nothing
    BY <1>3, <2>2 DEF Text, TextRaises, Clean
  <2>4. \A s : Reads(t, s) # "surrogate"
    <3>1. 1 \in DOMAIN Parts[t.x]
      <4>1. Parts[t.x] \in Seq([k : {"run", "oct", "bs"}, n : Nat])
        BY <2>1, ViewerAssumption
      <4> QED BY <2>1, <4>1, LenProperties
    <3>2. Parts[t.x][1].n \notin Surrogates /\ t.x # "surrogate"
      BY <2>1, <3>1, ViewerAssumption
    <3> QED BY <2>2, <3>2 DEF Reads
  <2>5. accum \in Seq(Shown)
    BY DEF IInv, CacheInv
  <2>6. PICK x \in Shown :
          x # "surrogate" /\ accum' \in {accum, Append(accum, x), <<x>>}
    <3>1. \A s : Reads(t, s) \in Shown
      BY <2>1 DEF Reads, Shown
    <3> QED BY <2>3, <2>4, <3>1 DEF Text
  <2>7. \A i \in DOMAIN accum' : accum'[i] # "surrogate"
    BY <2>5, <2>6, AppendProperties, LenProperties DEF Clean, Encodes
  <2> QED BY <2>3, <2>7 DEF Clean, Encodes
<1>4. CASE Mainfunc \/ Follow \/ bslink
  <2>1. PICK name, left : Showfile(name, left)
    BY <1>4 DEF Mainfunc, Follow, bslink
  <2> QED BY <1>1, <2>1 DEF Showfile, cache
<1>5. CASE Flush \/ FlushRaises \/ Quit \/ UNCHANGED vars
  BY <1>1, <1>2, <1>5 DEF Flush, FlushRaises, Quit, vars, cache
<1>6. ASSUME NEW t \in alphabet,
             \/ Open(t) \/ Close(t) \/ Tab(t) \/ Key(t) \/ Eq(t) \/ Keyval(t)
             \/ Span2(t) \/ eSpan(t) \/ Link2(t) \/ eLink(t) \/ Image2(t)
             \/ Skip(t) \/ Raise(t)
      PROVE  Clean'
  BY <1>1, <1>6 DEF Open, Close, Tab, Key, Eq, Keyval, Span2, eSpan, Link2, eLink,
                    Image2, Skip, Raise, cache
<1> QED BY <1>3, <1>4, <1>5, <1>6 DEF Next

\* Tame documents never make a callback raise, in whatever order they are shown:
\* with them the viewer implements Typeset.
THEOREM PagesAreTypeset ==
  ASSUME \A A \in Alphabets : Tame(A)
  PROVE  Spec => Shows
<1>1. Init => Clean
  <2>1. DOMAIN <<>> = {}
    OBVIOUS
  <2> QED BY <2>1 DEF Init, Clean, Encodes
<1>2. IInv /\ Clean => NeverStuck
  <2> SUFFICES ASSUME IInv, Clean, phase = "main", parse = "failed" PROVE FALSE
    BY DEF NeverStuck
  <2>1. Tame(alphabet)
    BY DEF IInv, ViewInv, Tame, Kinds
  <2>2. ~Poisoned
    BY DEF Clean, Poisoned, Stuck, Complete, Nothing
  <2> QED BY <2>1, <2>2 DEF IInv, ParserInv, NoTrap
<1>3. IInv /\ Clean /\ [Next]_vars => Clean'
  BY CleanNext
<1> QED BY <1>1, <1>2, <1>3, Invariant, TypesetUntilTrap, PTL DEF Spec

-----------------------------------------------------------------------------
(* Nothing is lost. *)

LEMMA WholeIs ==
  ASSUME flag \in Panes, flag' = flag
  PROVE  SetPage[flag] = Whole /\ SetPage'[flag] = Whole'
  BY DEF SetPage, Set, Whole

\* Text comes to Text(): no other row of the table takes it.
LEMMA OnlyText ==
  ASSUME NEW t, fsm \in StateTxt, t.k \in TxtClass,
         \/ Open(t) \/ Close(t) \/ Tab(t) \/ Key(t) \/ Eq(t) \/ Keyval(t)
         \/ Span2(t) \/ eSpan(t) \/ Link2(t) \/ eLink(t) \/ Image2(t) \/ Skip(t)
  PROVE  FALSE
<1>1. fsm \notin {"key", "val", "span", "link", "image"}
  BY TextStates
<1>2. t.k \notin Openers \cup {"tab", "tab2", "espan", "elink"}
  BY OpenersAre DEF TxtClass, SetTags, Tags
<1>3. t.k \notin DOMAIN Closes
  BY DEF TxtClass, Closes
<1> QED BY <1>1, <1>2, <1>3 DEF Open, Close, Tab, Key, Eq, Keyval, Span2, eSpan,
           Link2, eLink, Image2, Skip

\* Each text that is read is set once, behind what is set and in the style in
\* force, whether it goes through the cache or makes room in it; and at the end
\* of a document all of it is on the page (pangfunc.py, Text and flush).
THEOREM NothingIsLost == Spec => NothingLost
<1> DEFINE Put == \E x \in Shown : Whole' = Append(Whole, [x |-> x, look |-> NoTab(ts)])
           Drop == Whole' = Whole /\ "wrap" \in ts.on /\ lastsp = "sp" /\ lastsp' = "sp"
           Reading == n' > n /\ fsm \in StateTxt /\ last' \in TxtClass
           Ends == parse = "running" /\ parse' = "done"
<1>1. IInv /\ [Next]_vars => (Reading => Put \/ Drop) /\ (Ends => page'[flag] = Whole)
  <2> SUFFICES ASSUME IInv, [Next]_vars
               PROVE  (Reading => Put \/ Drop) /\ (Ends => page'[flag] = Whole)
    OBVIOUS
  <2>1. n \in Nat /\ flag \in Panes /\ page \in [Panes -> Seq(Seen)]
    BY DEF IInv, ViewInv, PageInv
  <2>2. CASE Flush
    <3>1. n' = 0 /\ page' = [page EXCEPT ![flag] = @ \o Pending]
      BY <2>2 DEF Flush
    <3>2. page'[flag] = page[flag] \o Pending /\ ~(n' > n)
      <4> HIDE DEF Seen
      <4> QED BY <2>1, <3>1
    <3> QED BY <3>2 DEF Whole
  <2>3. CASE Mainfunc \/ Follow \/ bslink
    <3>1. PICK name, left : Showfile(name, left) /\ parse # "running"
      BY <2>3 DEF Mainfunc, Follow, bslink, Idle
    <3>2. \/ parse' = "running" /\ n' = 0
          \/ UNCHANGED <<args, doc, parse, text, parser, ts, cache, held>>
      BY <3>1 DEF Showfile
    <3>3. \/ parse' = "running" /\ n' = 0
          \/ parse' = parse /\ n' = n
      BY <3>2 DEF text
    <3> HIDE DEF Put, Drop
    <3> QED BY <2>1, <3>1, <3>3
  <2>4. CASE FlushRaises \/ Quit \/ UNCHANGED vars
    BY <2>1, <2>4 DEF FlushRaises, Fail, Quit, vars, text
  <2>5. ASSUME NEW t \in alphabet, Raise(t) \/ TextRaises(t)
        PROVE  ~Reading /\ ~Ends
    BY <2>1, <2>5 DEF Raise, TextRaises, Fail, text
  <2>6. ASSUME NEW t \in alphabet, Text(t) PROVE (Put \/ Drop) /\ ~Ends
    <3>1. parse' = parse
      BY <2>6 DEF Text
    <3>2. flag' = flag /\ SetPage[flag] = Whole /\ SetPage'[flag] = Whole'
      BY <2>1, <2>6, TextSets, WholeIs
    <3>3. CASE SetPage' = SetPage /\ Dropped(t) /\ lastsp' = lastsp
      BY <3>1, <3>2, <3>3 DEF Dropped
    <3>4. ASSUME NEW x \in Shown,
                 SetPage' = [SetPage EXCEPT ![flag] =
                               Append(@, [x |-> x, look |-> NoTab(ts)])]
          PROVE  Put
      <4>1. SetPage'[flag] = Append(SetPage[flag], [x |-> x, look |-> NoTab(ts)])
        BY <2>1, <3>4 DEF SetPage
      <4> QED BY <3>2, <4>1
    <3> QED BY <2>6, <3>1, <3>3, <3>4, TextSets
  <2>7. ASSUME NEW t \in alphabet,
               \/ Open(t) \/ Close(t) \/ Tab(t) \/ Key(t) \/ Eq(t) \/ Keyval(t)
               \/ Span2(t) \/ eSpan(t) \/ Link2(t) \/ eLink(t) \/ Image2(t) \/ Skip(t)
        PROVE  ~Reading /\ ~Ends
    <3>1. parse' = parse /\ last' = t.k
      BY <2>7 DEF Open, Close, Tab, Key, Eq, Keyval, Span2, eSpan, Link2, eLink,
                  Image2, Skip, Read
    <3> QED BY <2>7, <3>1, OnlyText
  <2> HIDE DEF Put, Drop, Reading, Ends
  <2> QED BY <2>2, <2>3, <2>4, <2>5, <2>6, <2>7 DEF Next
<1> QED BY <1>1, Invariant, PTL DEF Spec, NothingLost
=============================================================================
