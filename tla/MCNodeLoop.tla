----------------------------- MODULE MCNodeLoop -----------------------------
(***************************************************************************)
(* An instance of NodeLoop for TLC: readings at the ends of their ranges,  *)
(* values on both sides of every boundary of the encodings.                *)
(***************************************************************************)
EXTENDS NodeLoop

World(l, m, t, h, p, b, q) ==
    [light |-> l, loudness |-> l, motion |-> m, temperature |-> t,
     humidity |-> h, pressure |-> p, battery |-> b, airquality |-> q]

MCWorlds ==
    {World(0, 0, -4000, -6, 30000, 0, -1),
     World(255, 1, 5453, 0, 65535, 255, 3),
     World(1023, 1, 12000, 118, 110000, 4851, 0)}

MCGarbage == {-30000, 9999}

MCValues == {<<1>>, <<44, 1>>, <<0, 0, 192, 63>>}

Entry(name, value) == [name |-> name, value |-> value]

MCNames == {<<97>>}
MCEntries ==
    {Entry(<<97>>, Whole(24)), Entry(<<98>>, Whole(-257)),
     Entry(<<99>>, Whole(65536)), Entry(<<99, 99>>, Truth(TRUE)),
     Entry(<<98>>, Text(<<97, 97>>)), Entry(<<99>>, Number(<<63, 192, 0, 0>>))}
MCMapSizes == {300}
MCFixes == {<<<<66, 75, 0, 0>>, <<64, 134, 0, 0>>, <<250, 24, 0, 1>>>>}
MCAxes == <<<<108>>, <<103>>, <<104>>>>

MCMessages == {<<123, 125>>, [k \in 1 .. 40 |-> 123]}

MCCredentials == <<55, 10, 255, 10>>
=============================================================================
