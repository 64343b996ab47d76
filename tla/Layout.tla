------------------------------- MODULE Layout -------------------------------
(* The document of the layout (layout.rs): the windows, each with its tiles *)
(* and its floats.  Clients put whole layouts, made from the last one that  *)
(* they read; panes and windows are removed under them, windows are resized *)
(* and the focus moves.  A put that is refused, or is stale, changes        *)
(* nothing and is no step here.  Sessions, which only group windows, names, *)
(* variables, pixels and the revision are left out.                         *)
EXTENDS Tiles

CONSTANTS
  Sizes,      \* <<cols, rows>> that clients ask for a window
  NewSize,    \* of a window that is given no size
  DimMax,     \* the most cells of a window on an axis (Dim::MAX)
  MaxPanes,   \* bound: the panes that are ever made
  MaxWindows  \* bound: the windows that are ever made

VARIABLES
  layout,   \* by number, a window [cols, rows, zoom, focus, tree, floats],
            \* its floats in the order of z
  ids       \* Document.ids: the next pane and the next window

vars == <<layout, ids>>

PanesOf(w) == [i \in DOMAIN Leaves(w.tree) |-> Leaves(w.tree)[i].pane]
              \o [i \in DOMAIN w.floats |-> w.floats[i].pane]
Floating(w) == {w.floats[i].pane : i \in DOMAIN w.floats}
Holds(w, p) == p \in Floating(w) \/ Has(w.tree, p)
PanesIn(windows) == UNION {ToSet(PanesOf(windows[id])) : id \in DOMAIN windows}
Live == PanesIn(layout)
----------------------------------------------------------------------------
(* settle(): a window keeps its focus, or it goes to the next of the panes  *)
(* that were there, else to the one before.                                 *)
Nearest(order, at, w) ==
  LET kept == {i \in DOMAIN order : Holds(w, order[i])}
      next == {i \in kept : i >= at}
  IN IF next # {} THEN order[Min(next)]
     ELSE IF kept # {} THEN order[Max(kept)] ELSE w.focus

Settled(id, w) ==
  IF id \notin DOMAIN layout THEN w
  ELSE LET old == layout[id]
           order == PanesOf(old)
           at == CHOOSE i \in DOMAIN order : order[i] = old.focus
       IN [w EXCEPT !.focus = IF Holds(w, old.focus) THEN old.focus
                              ELSE Nearest(order, at, w)]
----------------------------------------------------------------------------
(* window(): sizes that are not given are those of before.                  *)
Wanted(id, w, axis) ==
  LET default == IF axis = "h" THEN NewSize[1] ELSE NewSize[2]
  IN Or(Along(axis, w), IF id \in DOMAIN layout THEN Along(axis, layout[id]) ELSE default)

Built(id, w) ==
  LET tree == Collapsed(w.tree)
      cols == Extent(tree, w.floats, "h", Wanted(id, w, "h"))
      rows == Extent(tree, w.floats, "v", Wanted(id, w, "v"))
  IN [cols |-> cols, rows |-> rows, zoom |-> w.zoom, focus |-> Leaves(tree)[1].pane,
      tree |-> Fit(tree, cols, rows), floats |-> Place(w.floats, cols, rows)]

Normal(id, w) == Settled(id, Built(id, w))
Normalized(draft) == [id \in DOMAIN draft |-> Normal(id, draft[id])]

(* put_with_shell(), with what normalize() refuses.                         *)
Allowed(w) ==
  w.cols <= DimMax /\ w.rows <= DimMax /\ (w.zoom = None \/ Holds(w, w.zoom))

Put(draft, claimed) ==
  /\ Live \subseteq PanesIn(draft)
  /\ claimed.pane <= MaxPanes + 1 /\ claimed.window <= MaxWindows + 1
  /\ \A id \in DOMAIN draft : Allowed(Normal(id, draft[id]))
  /\ ids' = claimed
  /\ layout' = Normalized(draft)
----------------------------------------------------------------------------
(* What clients send: a new pane, or one taken from its place, is put in a  *)
(* tree, over a window or in a window of its own; sizes are dropped or      *)
(* asked for, a pane is zoomed.                                             *)
RECURSIVE Without(_, _), Grafts(_, _), Unsized(_)
Without(n, p) ==
  IF IsLeaf(n) THEN n
  ELSE LET kept == SelectSeq(n.children, LAMBDA c : ~(IsLeaf(c) /\ c.pane = p))
       IN Split(n.split, [i \in DOMAIN kept |-> Without(kept[i], p)])

Grafts(n, leaf) ==
  {Split(axis, <<n, leaf>>) : axis \in Axes}
  \cup IF IsLeaf(n) THEN {}
       ELSE {Split(n.split, <<leaf>> \o n.children)}
            \cup UNION {{Split(n.split, Instead(n.children, i, graft)) :
                           graft \in Grafts(n.children[i], leaf)} : i \in DOMAIN n.children}

Unsized(n) ==
  IF IsLeaf(n) THEN Leaf(n.pane, None, None)
  ELSE Split(n.split, [i \in DOMAIN n.children |-> Unsized(n.children[i])])

Float(p, x, cols, border) ==
  [pane |-> p, x |-> x, y |-> None, cols |-> cols, rows |-> None, border |-> border]

Floated(w, p) ==
  {[w EXCEPT !.floats = floats] :
     floats \in {Append(w.floats, Float(p, None, None, TRUE)),
                 <<Float(p, 0, DimMax, FALSE)>> \o w.floats}}

WindowOf(p) ==
  [cols |-> None, rows |-> None, zoom |-> None, focus |-> None,
   tree |-> Leaf(p, None, None), floats |-> <<>>]

With(base, id, w) == (id :> w) @@ base

PutIn(base, id, trees, p, claimed) ==
  \E w \in {[base[id] EXCEPT !.tree = tree] : tree \in trees} \cup Floated(base[id], p) :
    Put(With(base, id, w), claimed)

PutAlone(base, p, claimed) ==
  Put(With(base, ids.window, WindowOf(p)), [claimed EXCEPT !.window = ids.window + 1])

NewPane ==
  LET p == ids.pane
      claimed == [ids EXCEPT !.pane = p + 1]
  IN \/ PutAlone(layout, p, claimed)
     \/ \E id \in DOMAIN layout :
          PutIn(layout, id, Grafts(layout[id].tree, Leaf(p, None, None)), p, claimed)

\* rollback(): when a pane does not start, what was given out stays so, the
\* number of a window that was made for it as well
Rollback ==
  /\ ids.pane <= MaxPanes
  /\ \E window \in {ids.window, ids.window + 1} \cap 1 .. MaxWindows + 1 :
       /\ layout = <<>> => window = ids.window + 1
       /\ ids' = [pane |-> ids.pane + 1, window |-> window]
  /\ UNCHANGED layout

\* a window whose only pane is moved goes; a client keeps a tile under floats
OnlyTile(w, p) == IsLeaf(w.tree) /\ w.tree.pane = p
Taken(w, p) ==
  [w EXCEPT !.tree = Without(w.tree, p), !.zoom = IF w.zoom = p THEN None ELSE w.zoom,
            !.floats = SelectSeq(w.floats, LAMBDA f : f.pane # p)]

MovePane(p) ==
  /\ \A id \in DOMAIN layout : OnlyTile(layout[id], p) => layout[id].floats = <<>>
  /\ LET left == {id \in DOMAIN layout : ~OnlyTile(layout[id], p)}
         base == [id \in left |-> Taken(layout[id], p)]
         Beside(tree) == {Split(axis, <<Leaf(p, None, None), tree>>) : axis \in Axes}
     IN \/ PutAlone(base, p, ids)
        \/ \E id \in left : PutIn(base, id, Beside(base[id].tree), p, ids)

EditWindow(id) ==
  LET w == layout[id]
  IN \/ Put(With(layout, id, [w EXCEPT !.tree = Unsized(w.tree)]), ids)
     \/ \E p \in ToSet(PanesOf(w)) \cup {None} : Put(With(layout, id, [w EXCEPT !.zoom = p]), ids)
     \/ \E size \in Sizes :
          Put(With(layout, id, [w EXCEPT !.cols = size[1], !.rows = size[2]]), ids)
----------------------------------------------------------------------------
(* resize_window(), remove_pane(), remove_window() and focus().             *)
Rescaled(w, size) ==
  LET cols == Extent(w.tree, w.floats, "h", size[1])
      rows == Extent(w.tree, w.floats, "v", size[2])
  IN [w EXCEPT !.cols = cols, !.rows = rows, !.tree = Resize(w.tree, cols, rows),
               !.floats = Place(w.floats, cols, rows)]

ResizeWindow(id, size) ==
  /\ layout' = With(layout, id, Rescaled(layout[id], size))
  /\ UNCHANGED ids

Unzoomed(w, p) == IF w.zoom = p THEN [w EXCEPT !.zoom = None] ELSE w

Untiled_Last(w, p) ==
  LET tree == RemoveLeaf(w.tree, p)
      f == w.floats[Len(w.floats)]
  IN IF tree # None THEN [w EXCEPT !.tree = tree]
     ELSE [w EXCEPT !.tree = Leaf(f.pane, w.cols, w.rows),
                    !.floats = SubSeq(w.floats, 1, Len(w.floats) - 1)]

\* the first float takes the place of the last tile
Untiled(w, p) ==
  LET tree == RemoveLeaf(w.tree, p)
  IN IF tree # None THEN [w EXCEPT !.tree = tree]
     ELSE [w EXCEPT !.tree = Leaf(w.floats[1].pane, w.cols, w.rows), !.floats = Tail(w.floats)]

Removed(w, p) ==
  Unzoomed(IF p \in Floating(w)
           THEN [w EXCEPT !.floats = SelectSeq(w.floats, LAMBDA f : f.pane # p)]
           ELSE Untiled(w, p), p)

RemovePane(p) ==
  LET id == CHOOSE i \in DOMAIN layout : Holds(layout[i], p)
      w == layout[id]
  IN /\ layout' = IF OnlyTile(w, p) /\ w.floats = <<>>
                  THEN [i \in DOMAIN layout \ {id} |-> layout[i]]
                  ELSE With(layout, id, Settled(id, Removed(w, p)))
     /\ UNCHANGED ids

RemoveWindow(id) ==
  /\ layout' = [i \in DOMAIN layout \ {id} |-> layout[i]]
  /\ UNCHANGED ids

Focus(id, p) ==
  /\ p # layout[id].focus
  /\ layout' = With(layout, id, [layout[id] EXCEPT !.focus = p])
  /\ UNCHANGED ids
----------------------------------------------------------------------------
Init == layout = <<>> /\ ids = [pane |-> 1, window |-> 1]

Next ==
  \/ NewPane \/ Rollback
  \/ \E p \in Live : MovePane(p) \/ RemovePane(p)
  \/ \E id \in DOMAIN layout :
       \/ EditWindow(id) \/ RemoveWindow(id)
       \/ \E size \in Sizes : ResizeWindow(id, size)
       \/ \E p \in ToSet(PanesOf(layout[id])) : Focus(id, p)

Spec == Init /\ [][Next]_vars
----------------------------------------------------------------------------
(* Whatever is put, removed and resized, a window is filled by its tiles to *)
(* the cell, its floats lie inside of it, it holds the pane that has its    *)
(* focus and the one that is zoomed, no pane is in two places and no number *)
(* is still to be given out (what the tests of layout.rs call check).       *)
RECURSIVE Fills(_, _, _)
Fills(n, cols, rows) ==
  IF IsLeaf(n) THEN n.cols = cols /\ n.rows = rows /\ cols >= 1 /\ rows >= 1
  ELSE /\ Len(n.children) >= 2
       /\ TiledSize(n, "h") = cols /\ TiledSize(n, "v") = rows
       /\ \A i \in DOMAIN n.children :
            LET c == n.children[i]
            IN IF n.split = "h" THEN Fills(c, TiledSize(c, "h"), rows)
               ELSE Fills(c, cols, TiledSize(c, "v"))

Inside(f, w) ==
  LET pad == IF f.border THEN 1 ELSE 0
  IN /\ f.x >= pad /\ f.x + f.cols + pad <= w.cols
     /\ f.y >= pad /\ f.y + f.rows + pad <= w.rows

WellFormed ==
  /\ \A a, b \in DOMAIN layout : a # b => ToSet(PanesOf(layout[a])) \cap ToSet(PanesOf(layout[b])) = {}
  /\ \A p \in Live : p < ids.pane
  /\ \A id \in DOMAIN layout :
       LET w == layout[id]
       IN /\ id < ids.window /\ IsInjective(PanesOf(w))
          /\ Fills(w.tree, w.cols, w.rows)
          /\ \A i \in DOMAIN w.floats : Inside(w.floats[i], w)
          /\ Holds(w, w.focus) /\ (w.zoom = None \/ Holds(w, w.zoom))

(* A client that puts back what it read changes nothing, in whatever way    *)
(* the document came to be: not only after a put, as the tests have it, but *)
(* after removals and resizes too.                                          *)
PutBackSame == Normalized(layout) = layout

(* The panes that stay when others are removed keep their cells or get      *)
(* more, in the same order, and a float is where it was; nothing but a      *)
(* removal makes panes fewer.                                               *)
LeafOf(w, p) == CHOOSE leaf \in ToSet(Leaves(w.tree)) : leaf.pane = p

KeepsCells(old, new) ==
  /\ old.cols = new.cols /\ old.rows = new.rows
  /\ PanesOf(new) = SelectSeq(PanesOf(old), LAMBDA p : Holds(new, p))
  /\ \A p \in ToSet(PanesOf(new)) :
       IF Has(old.tree, p)
       THEN /\ LeafOf(new, p).cols >= LeafOf(old, p).cols
            /\ LeafOf(new, p).rows >= LeafOf(old, p).rows
       ELSE Has(new.tree, p) \/ \E f \in ToSet(old.floats) : f \in ToSet(new.floats) /\ f.pane = p

NobodyShrinks ==
  [][Live' # Live /\ Live' \subseteq Live =>
       \A id \in DOMAIN layout' : KeepsCells(layout[id], layout'[id])]_vars
=============================================================================
