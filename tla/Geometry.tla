-------------------------------- MODULE Geometry --------------------------------
(***************************************************************************)
(* Is a pin inside the country asked for?  (geometry.ts)  A country is a   *)
(* set of polygons, a polygon its outer ring and its holes, a ring a       *)
(* closed sequence of <<longitude, latitude>>.  Degrees are whole numbers  *)
(* here and quotients are compared by multiplication, so that nothing is   *)
(* rounded.  How far a pin outside is from the boundary is arithmetic on   *)
(* real numbers and not modelled.                                          *)
(***************************************************************************)
EXTENDS Integers, Sequences, FiniteSets

CONSTANTS
  Geometries,   \* country code -> set of polygons
  Pins          \* where a participant may tap

VARIABLES country, pin, inside   \* the question, the answer and what reveal finds of it

vars == <<country, pin, inside>>

--------------------------------------------------------------------------------
\* Longitudes in (-180, 180].
normalizeLng(lng) ==
  LET x == ((lng + 180) % 360) - 180 IN IF x = -180 THEN 180 ELSE x

\* "Shift segment endpoints close to the point's meridian."
Near(lng, x) ==
  LET west == IF lng - x > 180 THEN lng - 360 ELSE lng
  IN IF x - west > 180 THEN west + 360 ELSE west

\* The ray from p to the east crosses the edge from a to b.
Crosses(p, a, b) ==
  LET x == p[1]  y == p[2]
      xi == Near(a[1], x)  yi == a[2]
      xj == Near(b[1], x)  yj == b[2]
  IN /\ (yi > y) # (yj > y)
     /\ IF yj > yi THEN (x - xi) * (yj - yi) < (xj - xi) * (y - yi)
                   ELSE (x - xi) * (yj - yi) > (xj - xi) * (y - yi)

Odd(S) == Cardinality(S) % 2 = 1

pointInRing(p, ring) ==
  Odd({i \in DOMAIN ring : Crosses(p, ring[i], ring[IF i = 1 THEN Len(ring) ELSE i - 1])})

pointInPolygon(p, polygon) == Odd({n \in DOMAIN polygon : pointInRing(p, polygon[n])})

\* distanceToCountry says distance 0.
Inside(code, p) ==
  \E polygon \in Geometries[code] : pointInPolygon(<<normalizeLng(p[1]), p[2]>>, polygon)

--------------------------------------------------------------------------------
Init ==
  /\ country \in DOMAIN Geometries
  /\ pin \in Pins
  /\ inside = FALSE

Reveal ==
  /\ inside' = Inside(country, pin)
  /\ UNCHANGED <<country, pin>>

Next == Reveal

Spec == Init /\ [][Next]_vars

--------------------------------------------------------------------------------
(***************************************************************************)
(* The reference, for convex rings written counter-clockwise: the point is *)
(* to the left of every edge, or on it.                                    *)
(***************************************************************************)
LeftOf(p, a, b) == (b[1] - a[1]) * (p[2] - a[2]) - (b[2] - a[2]) * (p[1] - a[1]) >= 0

Within(p, ring) == \A i \in 1..(Len(ring) - 1) : LeftOf(p, ring[i], ring[i + 1])

\* "d = 0 inside or on the boundary of any ring of the accepted geometry; otherwise the
\* shortest geodesic distance" (geometry.ts:10): a pin that counts as inside lies there.
\* Not so: see the README.
InsideIsInside ==
  inside => \E polygon \in Geometries[country] :
              Within(<<normalizeLng(pin[1]), pin[2]>>, polygon[1])
================================================================================
