------------------------------- MODULE Tiles -------------------------------
(* The tiles of a window: the arithmetic of layout.rs.  A node is a leaf    *)
(* with its size in cells, or a split along an axis with its children, one  *)
(* cell of divider between two of them.  The same shapes with None for a    *)
(* size that is not given are what a client sends.                          *)
EXTENDS Integers, SequencesExt, FiniteSetsExt, TLC

CONSTANT None

Axes == {"h", "v"}
Tuple(s) == <<>> \o s        \* s itself; TLC then computes its items once
Leaf(p, cols, rows)   == [pane |-> p, cols |-> cols, rows |-> rows]
Split(axis, children) == [split |-> axis, children |-> Tuple(children)]
IsLeaf(n) == "pane" \in DOMAIN n
Along(axis, n) == IF axis = "h" THEN n.cols ELSE n.rows

Total(sizes) ==
  LET sum[i \in 0 .. Len(sizes)] == IF i = 0 THEN 0 ELSE sum[i - 1] + sizes[i]
  IN sum[Len(sizes)]
Greater(a, b) == IF a > b THEN a ELSE b
Lesser(a, b)  == IF a < b THEN a ELSE b
Less(a, b)    == Greater(a - b, 0)                        \* saturating_sub
Instead(children, i, child) == InsertAt(RemoveAt(children, i), i, child)
HalfUp(a)     == (a + 1) \div 2

RECURSIVE Leaves(_), Has(_, _), Minimum(_, _), Known(_, _)
Leaves(n) ==
  IF IsLeaf(n) THEN <<n>>
  ELSE FlattenSeq([i \in DOMAIN n.children |-> Leaves(n.children[i])])
Has(n, p) ==
  IF IsLeaf(n) THEN n.pane = p ELSE \E i \in DOMAIN n.children : Has(n.children[i], p)

\* one cell for each leaf and each divider
Minimum(n, axis) ==
  IF IsLeaf(n) THEN 1
  ELSE LET mins == Tuple([i \in DOMAIN n.children |-> Minimum(n.children[i], axis)])
       IN IF n.split = axis THEN Total(mins) + Len(mins) - 1 ELSE Max(ToSet(mins))

\* the size of a node as far as its leaves have one
Known(n, axis) ==
  IF IsLeaf(n) THEN Along(axis, n)
  ELSE LET given == SelectSeq([i \in DOMAIN n.children |-> Known(n.children[i], axis)],
                              LAMBDA size : size # None)
       IN IF given = <<>> THEN None
          ELSE IF n.split = axis THEN Total(given) + Len(given) - 1
               ELSE Max(ToSet(given))
----------------------------------------------------------------------------
(* shares(): a child without a size takes half of the nearest one before it *)
(* that has a size, else of the first after it.                             *)
Donor(prefs, i) ==
  LET sized == {j \in DOMAIN prefs : prefs[j] # None}
  IN IF \E j \in sized : j < i THEN Max({j \in sized : j < i}) ELSE Min(sized)

Donated(prefs, i) ==
  IF prefs[i] # None THEN prefs
  ELSE LET from == Donor(prefs, i)
           given == HalfUp(prefs[from]) - 1
       IN IF prefs[from] >= 3
          THEN [prefs EXCEPT ![i] = given, ![from] = @ - 1 - given]
          ELSE [prefs EXCEPT ![i] = 1]

Wishes(children, axis, total) ==
  LET n == Len(children)
      room == Less(total, n - 1)
      known == Tuple([i \in 1 .. n |-> Known(children[i], axis)])
  IN IF \A i \in 1 .. n : known[i] = None
     THEN [i \in 1 .. n |-> room \div n + (IF i <= room % n THEN 1 ELSE 0)]
     ELSE FoldLeft(Donated, known, [i \in 1 .. n |-> i])

(* In the order of the children: in proportion, but never less than the     *)
(* minimum, and leaving theirs to those after it; the last takes the rest.  *)
Share(wish, sum, room, left, min, reserve) ==
  Greater(Lesser((wish * room) \div sum, Less(left, reserve)), min)

Shares(children, axis, total) ==
  LET n == Len(children)
      wishes == Tuple(Wishes(children, axis, total))
      mins == Tuple([i \in 1 .. n |-> Minimum(children[i], axis)])
      sum == Total(wishes)
      Reserve(i) == Total(SubSeq(mins, i + 1, n)) + n - i
      cut[i \in 0 .. n] ==
        IF i = 0 THEN [left |-> total, share |-> 0]
        ELSE LET left == cut[i - 1].left
                 share == IF i = n THEN left
                          ELSE Share(wishes[i], sum, Less(total, n - 1), left, mins[i], Reserve(i))
             IN [left |-> Less(left, share + 1), share |-> share]
  IN [i \in 1 .. n |-> cut[i].share]

RECURSIVE Fit(_, _, _)
Fit(n, cols, rows) ==
  IF IsLeaf(n) THEN Leaf(n.pane, cols, rows)
  ELSE LET along == Tuple(Shares(n.children, n.split, IF n.split = "h" THEN cols ELSE rows))
       IN Split(n.split, [i \in DOMAIN n.children |->
                            IF n.split = "h" THEN Fit(n.children[i], along[i], rows)
                            ELSE Fit(n.children[i], cols, along[i])])
----------------------------------------------------------------------------
(* place(): floats lie inside of the window, with their border.             *)
Or(wanted, default) == IF wanted = None THEN default ELSE wanted

FloatExtent(wanted, window, pad) ==
  Lesser(Greater(Or(wanted, HalfUp(window)), 1), Greater(Less(window, 2 * pad), 1))

FloatOffset_Adds(wanted, window, extent, pad) ==
  LET offset == Or(wanted, Less(window, extent) \div 2) + pad
  IN IF offset + extent + pad <= window THEN offset ELSE pad

FloatOffset(wanted, window, extent, pad) ==
  LET offset == Greater(Or(wanted, Less(window, extent) \div 2), pad)
  IN IF offset + extent + pad <= window THEN offset
     ELSE IF extent + 2 * pad >= window THEN pad
     ELSE window - extent - pad

Placed(f, cols, rows) ==
  LET pad == IF f.border THEN 1 ELSE 0
      width  == FloatExtent(f.cols, cols, pad)
      height == FloatExtent(f.rows, rows, pad)
  IN [f EXCEPT !.cols = width, !.rows = height,
               !.x = FloatOffset(f.x, cols, width, pad),
               !.y = FloatOffset(f.y, rows, height, pad)]

Place(floats, cols, rows) == [i \in DOMAIN floats |-> Placed(floats[i], cols, rows)]

\* extent(): a window holds its tiles, and a float with its border
Outer(floats) == IF \E i \in DOMAIN floats : floats[i].border THEN 3 ELSE 1
Extent(tree, floats, axis, wanted) ==
  Max({wanted, Minimum(tree, axis), Outer(floats)})
----------------------------------------------------------------------------
RECURSIVE TiledSize(_, _), ResizeAxis(_, _, _), Deal(_, _, _, _, _)
TiledSize(n, axis) ==
  IF IsLeaf(n) THEN Along(axis, n)
  ELSE LET sizes == Tuple([i \in DOMAIN n.children |-> TiledSize(n.children[i], axis)])
       IN IF n.split = axis THEN Total(sizes) + Len(sizes) - 1
          ELSE Max(ToSet(sizes) \cup {1})

(* resize_axis(): the cells are dealt one at a time, in the order of the    *)
(* children, and taken the same way from those that can give one.           *)
Spares(n, axis) == TiledSize(n, axis) > Minimum(n, axis)

Deal(children, axis, left, by, i) ==
  IF left = 0 THEN children
  ELSE LET next == (i % Len(children)) + 1
           child == children[i]
           resized == ResizeAxis(child, axis, TiledSize(child, axis) + by)
       IN IF by = 1 \/ Spares(child, axis)
          THEN Deal(Instead(children, i, resized), axis, left - 1, by, next)
          ELSE Deal(children, axis, left, by, next)

ResizeAxis(n, axis, asked) ==
  LET wanted == Greater(asked, Minimum(n, axis))
      current == TiledSize(n, axis)
  IN IF IsLeaf(n)
     THEN IF axis = "h" THEN Leaf(n.pane, wanted, n.rows) ELSE Leaf(n.pane, n.cols, wanted)
     ELSE IF n.split = axis
          THEN Split(axis, IF wanted > current
                           THEN Deal(n.children, axis, wanted - current, 1, 1)
                           ELSE Deal(n.children, axis, current - wanted, -1, 1))
          ELSE Split(n.split, [i \in DOMAIN n.children |-> ResizeAxis(n.children[i], axis, wanted)])

Resize(n, cols, rows) == ResizeAxis(ResizeAxis(n, "h", cols), "v", rows)

(* remove_leaf(): the cells of a leaf and of its divider go to the child    *)
(* that takes its place, and a split of one child is that child.            *)
Freed_NoDivider(axis, leaf) == Along(axis, leaf)
Freed(axis, leaf) == Along(axis, leaf) + 1

RECURSIVE RemoveLeaf(_, _)
RemoveLeaf(n, p) ==
  IF IsLeaf(n) THEN IF n.pane = p THEN None ELSE n
  ELSE LET i == CHOOSE k \in DOMAIN n.children : Has(n.children[k], p)
           gone == n.children[i]
           others == RemoveAt(n.children, i)
           j == Lesser(i, Len(others))
           grown == ResizeAxis(others[j], n.split,
                               TiledSize(others[j], n.split) + Freed(n.split, gone))
           left == IF IsLeaf(gone) THEN Instead(others, j, grown)
                   ELSE Instead(n.children, i, RemoveLeaf(gone, p))
       IN IF Len(left) = 1 THEN left[1] ELSE Split(n.split, left)

\* Claims::node(): a split that a client sends with one child is that child
RECURSIVE Collapsed(_)
Collapsed(n) ==
  IF IsLeaf(n) THEN n
  ELSE IF Len(n.children) = 1 THEN Collapsed(n.children[1])
       ELSE Split(n.split, [i \in DOMAIN n.children |-> Collapsed(n.children[i])])
=============================================================================
