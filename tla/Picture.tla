---- MODULE Picture ----
(* What drawing promises the game: a picture of the pixels in the view,    *)
(* each with its own place in the maze and one thing to show, of which the *)
(* screen shows one whole state after the other.                           *)
EXTENDS Integers

CONSTANTS
    XDim, YDim,       \* size of the view
    Sizes,            \* of the rectangles drawn at once
    Start,            \* the view at the start of a level
    Lines, Things     \* what a line of the map shows; what may be drawn over it

VARIABLES view, pic, screen

picVars == <<view, pic, screen>>

PixelsOf(v) == (v[1] .. v[1] + XDim - 1) \X (v[2] .. v[2] + YDim - 1)

InPlace(things) == \A p \in PixelsOf(view) : pic[p] \in {p[1]} \X {p[2]} \X things

Whole == DOMAIN pic = PixelsOf(view) /\ InPlace(Things)

Init == Whole

\* The view moves by a pixel: what stays in it is kept.
Scroll ==
    /\ view' \in {<<view[1] + 1, view[2]>>, <<view[1] - 1, view[2]>>,
                  <<view[1], view[2] + 1>>, <<view[1], view[2] - 1>>}
    /\ \A p \in PixelsOf(view) \intersect PixelsOf(view') : pic'[p] = pic[p]
    /\ UNCHANGED screen

\* A rectangle is drawn, and nothing beside it.
Draw ==
    /\ UNCHANGED <<view, screen>>
    /\ \E size \in Sizes : \E c \in PixelsOf(<<view[1] - size[1], view[2] - size[2]>>) \union PixelsOf(view) :
           \A p \in PixelsOf(view) \ ((c[1] .. c[1] + size[1] - 1) \X (c[2] .. c[2] + size[2] - 1)) :
               pic'[p] = pic[p]

\* Another level: the map is drawn anew.
Jump == view' = Start /\ InPlace(Lines)' /\ UNCHANGED screen

\* The screen changes as a whole, to the picture.
Show ==
    /\ screen' = [p \in PixelsOf(<<0, 0>>) |-> pic[<<view[1] + p[1], view[2] + p[2]>>]]
    /\ UNCHANGED <<view, pic>>

Next == Whole' /\ (Scroll \/ Draw \/ Jump \/ Show)

Spec == Init /\ [][Next]_picVars
====
