------------------------------- MODULE MCGeometry -------------------------------
EXTENDS Geometry

\* Coarse convex outlines of two of the countries of the content bank.
MCGeometries == [
  AUS |-> {<< <<<<113, -26>>, <<115, -34>>, <<150, -37>>, <<153, -28>>, <<142, -11>>,
                <<131, -12>>, <<113, -26>>>> >>},
  BRA |-> {<< <<<<-74, -7>>, <<-53, -33>>, <<-35, -7>>, <<-51, 4>>, <<-60, 5>>,
                <<-74, -7>>>> >>}]

\* Every ten degrees of the southern half of the globe.
MCPins == {<<10 * i, 10 * k>> : i \in -18..18, k \in -6..1}
=============================================================================
