--------------------------------- MODULE Raster ---------------------------------
(***************************************************************************)
(* What a renderer that works on other threads promises: each group of     *)
(* scanlines is drawn as if every polygon had been drawn at once, in the   *)
(* order in which they were asked for and with the data given then; and    *)
(* after a wait nothing is left to draw.                                   *)
(***************************************************************************)
EXTENDS Sequences

CONSTANTS Rows,    \* groups of scanlines
          Shapes, Values,  \* a polygon's extents, and the data it is drawn with
          NoDraw

VARIABLES given,     \* the data supplied last
          todo,      \* of each row: the draws asked for and not begun
          painting,  \* of each row: the draw that is being painted
          canvas,    \* of each row: what was painted last
          synced     \* has a wait returned since anything was asked for?

Init == /\ given = 0 /\ todo = [r \in Rows |-> <<>>]
        /\ painting = [r \in Rows |-> NoDraw] /\ canvas = [r \in Rows |-> NoDraw]
        /\ synced = FALSE

Supply(v) == given' = v /\ UNCHANGED <<todo, painting, canvas, synced>>

Ask(s, R) ==
  /\ todo' = [r \in Rows |-> IF r \in R THEN Append(todo[r], <<s, given>>) ELSE todo[r]]
  /\ synced' = FALSE
  /\ UNCHANGED <<given, painting, canvas>>

Begin(r) == /\ painting[r] = NoDraw /\ todo[r] # <<>>
            /\ painting' = [painting EXCEPT ![r] = Head(todo[r])]
            /\ todo' = [todo EXCEPT ![r] = Tail(@)]
            /\ UNCHANGED <<given, canvas, synced>>

End(r) == /\ painting[r] # NoDraw
          /\ canvas' = [canvas EXCEPT ![r] = painting[r]]
          /\ painting' = [painting EXCEPT ![r] = NoDraw]
          /\ UNCHANGED <<given, todo, synced>>

Sync == /\ \A r \in Rows : todo[r] = <<>> /\ painting[r] = NoDraw
        /\ synced' = TRUE
        /\ UNCHANGED <<given, todo, painting, canvas>>

Next == \/ \E v \in Values : Supply(v)
        \/ \E s \in Shapes, R \in SUBSET Rows : Ask(s, R)
        \/ \E r \in Rows : Begin(r) \/ End(r)
        \/ Sync

Spec == Init /\ [][Next]_<<given, todo, painting, canvas, synced>>

================================================================================
