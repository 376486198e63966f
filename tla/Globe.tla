--------------------------------- MODULE Globe ---------------------------------
(***************************************************************************)
(* The globe of a GEO round under a player's fingers (globe.component.ts): *)
(* one finger turns it, two zoom it, and a tap places the pin.  Positions  *)
(* are left out: a move is near (up to 3 px since the last one) or far.    *)
(***************************************************************************)
EXTENDS Integers, FiniteSets

CONSTANTS
  Fingers,
  Steps        \* bound: zoom steps between the limits of the scale

ASSUME GlobeAssumption == Steps \in Nat

VARIABLES
  interactive,   \* the input: the round is open and the answer not locked
  touching,      \* fingers on the glass
  pointers,      \* fingers the component knows of
  dragging, moved, pinching,
  scale, flat,
  placed,        \* the finger whose lift has just placed the pin, if one has
  clean,         \* history: fingers that went down on a globe nobody touched, with nobody
                 \* joining them and no far move since
  switched       \* history: the input has changed under the fingers

globeVars == <<interactive, touching, pointers, dragging, moved, pinching, scale, flat, placed, clean,
              switched>>
gesture == <<dragging, moved, pinching>>
shape == <<scale, flat>>

--------------------------------------------------------------------------------
Down(f) ==
  /\ f \notin touching /\ touching' = touching \cup {f}
  /\ clean' = IF touching = {} THEN {f} ELSE {}
  /\ IF ~interactive THEN UNCHANGED <<pointers, gesture>>
     ELSE /\ pointers' = pointers \cup {f}
          /\ dragging' = CASE Cardinality(pointers') = 1 -> TRUE
                           [] Cardinality(pointers') = 2 -> FALSE
                           [] OTHER -> dragging
          /\ moved' = (moved /\ Cardinality(pointers') # 1)
          /\ pinching' = (pinching \/ Cardinality(pointers') = 2)
  /\ placed' = {} /\ switched' = (switched /\ touching # {}) /\ UNCHANGED <<interactive, shape>>

\* Two fingers zoom, within the limits of the scale; one drags.
Move(f, far) ==
  /\ f \in touching /\ (far => Cardinality(touching) <= 2)
  /\ clean' = IF far THEN clean \ {f} ELSE clean
  /\ IF f \notin pointers THEN UNCHANGED <<moved, scale>>
     ELSE IF Cardinality(pointers) = 2 /\ pinching
     THEN moved' = TRUE /\ \E s \in {scale - 1, scale, scale + 1} \cap 0..Steps : scale' = s
     ELSE moved' = (moved \/ (dragging /\ far)) /\ UNCHANGED scale
  /\ placed' = {}
  /\ UNCHANGED <<interactive, touching, pointers, dragging, pinching, flat, switched>>

\* Mutant: whatever did not move was a tap.
TapIfStill(f) == ~moved /\ Cardinality(pointers) = 1

WasTap(f) == dragging /\ ~moved /\ Cardinality(pointers) = 1

\* A tap beside the disc of the globe is ignored.
Up(f) ==
  /\ f \in touching /\ touching' = touching \ {f}
  /\ pointers' = pointers \ {f}
  /\ placed' \in IF WasTap(f) THEN {{f}, {}} ELSE {{}}
  /\ WasTap(f) /\ flat => placed' = {f}
  /\ dragging' = FALSE /\ pinching' = FALSE
  /\ UNCHANGED <<interactive, moved, shape, clean, switched>>

\* The browser takes the gesture over, and with it every finger.
Cancel ==
  /\ touching # {}
  /\ touching' = {} /\ pointers' = {} /\ clean' = {}
  /\ dragging' = FALSE /\ pinching' = FALSE
  /\ placed' = {} /\ UNCHANGED <<interactive, moved, shape, switched>>

\* The buttons, and the wheel.
Zoom ==
  /\ interactive
  /\ \/ \E s \in {scale - 1, scale + 1} \cap 0..Steps : scale' = s /\ UNCHANGED flat
     \/ flat' = ~flat /\ UNCHANGED scale
  /\ placed' = {} /\ UNCHANGED <<interactive, touching, pointers, gesture, clean, switched>>

\* The round opens, or the answer is locked, under the player's fingers.
Switch ==
  /\ interactive' = ~interactive
  /\ switched' = (touching # {})
  /\ placed' = {} /\ UNCHANGED <<touching, pointers, gesture, shape, clean>>

GlobeInit ==
  /\ interactive = TRUE /\ touching = {} /\ pointers = {}
  /\ dragging = FALSE /\ moved = FALSE /\ pinching = FALSE
  /\ scale = 0 /\ flat = FALSE /\ placed = {} /\ clean = {}
  /\ switched = FALSE

GlobeNext ==
  \/ \E f \in Fingers : Down(f) \/ Up(f) \/ \E far \in BOOLEAN : Move(f, far)
  \/ Cancel \/ Zoom \/ Switch

--------------------------------------------------------------------------------
\* Turning and zooming never move the pin: it is placed by a finger that was alone on the
\* globe from its touch to its lift and made no far move -- unless the round was paused,
\* closed or opened, or the answer locked, while fingers were down (globe.component.ts:169).
TapPlaces == ~switched => placed \subseteq clean
================================================================================
