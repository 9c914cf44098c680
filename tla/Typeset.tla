------------------------------ MODULE Typeset -------------------------------
(***************************************************************************)
(* What the documentation viewer promises the reader, without a parser,    *)
(* tags or a display cache.  A document is set from its first item to its  *)
(* last, each text behind everything before it and in the style in force   *)
(* where it was written; a new document starts with an empty page and in   *)
(* plain style.                                                            *)
(***************************************************************************)
EXTENDS Naturals, Sequences

CONSTANTS
  Pages,   \* the panes of the viewer
  Plain,   \* the style without any tag
  Items,   \* texts
  Others   \* pictures, and messages of the viewer

VARIABLES
  page,    \* of each pane: the items set in it, each with its style
  style    \* the style in force

vars == <<page, style>>

Init ==
  /\ page = [p \in Pages |-> <<>>]
  /\ style = Plain

Begin(p) ==
  /\ page' = [page EXCEPT ![p] = <<>>]
  /\ style' = Plain

\* A tag: any style may follow, and nothing already set changes.
Restyle == UNCHANGED page

Put(p) ==
  /\ \E x \in Items :
       page' = [page EXCEPT ![p] = Append(@, [x |-> x, look |-> style])]
  /\ UNCHANGED style

\* A picture, or a message of the viewer: plain, and where it lands is left open.
Insert(p) ==
  /\ \E i \in 0..Len(page[p]), x \in Others :
       page' = [page EXCEPT ![p] =
         SubSeq(@, 1, i) \o <<[x |-> x, look |-> Plain]>> \o SubSeq(@, i + 1, Len(@))]
  /\ UNCHANGED style

Next ==
  \/ Restyle
  \/ \E p \in Pages : Begin(p) \/ Put(p) \/ Insert(p)

Spec == Init /\ [][Next]_vars

=============================================================================
