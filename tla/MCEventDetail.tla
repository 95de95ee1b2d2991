--------------------------- MODULE MCEventDetail ----------------------------
(* EventDetail on an event of up to two origins, four magnitudes and four   *)
(* picks, whose revisions combine every way an answer can go.               *)
EXTENDS EventDetail

Row(type, prefor, prefmag) == [type |-> type, prefor |-> prefor, prefmag |-> prefmag]

Origin(id, prefmag, gtype, rflag, ndef) ==
    [id |-> id, prefmag |-> prefmag, gtype |-> gtype, rflag |-> rflag, ndef |-> ndef]

Pick(id, origin, stream, phase, rflag, time, weight) ==
    [id |-> id, origin |-> origin, stream |-> stream, phase |-> phase,
     rflag |-> rflag, time |-> time, weight |-> weight]

Netmag(id, origin, type, magnitude) ==
    [id |-> id, origin |-> origin, type |-> type, rflag |-> "H",
     magnitude |-> magnitude, valued |-> TRUE]

Coda(magnitude, stream, mag, origins) ==
    [magnitude |-> magnitude, stream |-> stream, mag |-> mag, weight |-> -1,
     origins |-> origins]

\* A type the tables know, one they do not, and an event whose preferred
\* magnitude its origin does not prefer.
MCEvents == {Row("eq", 1, 12), Row("lp", 2, 0), Row("mi", 1, 11)}

\* The origin prefers its second local magnitude; the relocated one adds an
\* origin; the last was located by nothing.
MCOrigins1 == {Origin(1, 12, "l", "H", 7), Origin(2, 21, "", "", 4)}

MCOrigins ==
    {MCOrigins1, {Origin(1, 12, "l", "a", -1)},
     {Origin(1, 13, "l", "H", 7), Origin(2, 21, "x", "h", 0)}}

\* One pick on a missing stream and one not used; one without a phase; two
\* of the same phase on one channel.
MCPicks ==
    <<{Pick(1, 1, "A", "P", "H", 1, -1), Pick(2, 1, "A", "S", "A", 2, 1),
      Pick(3, 1, "", "P", "A", 1, 1), Pick(4, 1, "A", "P", "A", 3, 0)},
     {Pick(1, 1, "A", "P", "H", 1, -1), Pick(2, 1, "A", "", "A", 2, 1)},
     {Pick(1, 1, "A", "P", "H", 1, -1), Pick(2, 1, "A", "P", "A", 2, 1)}>>

\* Three magnitudes of two types on one origin, then a new value in place,
\* then a type the tables do not model and a row without a value.
MCMagnitudes ==
    {[netmags |-> {Netmag(11, 1, "l", 30), Netmag(12, 1, "l1", 32),
                   Netmag(13, 1, "d", 31)},
      observations |-> {Coda(11, "A", 29, {}), Coda(13, "A", 33, {1}),
                        Coda(13, "B", 30, {2})}],
     [netmags |-> {Netmag(11, 1, "l", 30), Netmag(12, 1, "l", 35),
                   Netmag(13, 1, "d", 34), Netmag(21, 2, "w", 40)},
      observations |-> {Coda(12, "A", 36, {1}), Coda(13, "A", 33, {1})}],
     [netmags |-> {Netmag(12, 1, "e", 32), Netmag(21, 2, "h", 39),
                   [Netmag(13, 1, "d", 0) EXCEPT !.valued = FALSE]},
      observations |-> {}]}

Revised(e, o, p, m) ==
    [event |-> e, origins |-> o, picks |-> p, netmags |-> m.netmags,
     observations |-> m.observations]

MCRevisions ==
    {Revised(e, o, MCPicks[1], m) :
        e \in MCEvents, o \in MCOrigins, m \in MCMagnitudes}
    \cup {Revised(Row("eq", 1, 12), MCOrigins1, p, [netmags |-> {}, observations |-> {}]) :
             p \in {MCPicks[2], MCPicks[3]}}
    \cup {Revised(Row("eq", 1, 12), {}, {}, [netmags |-> {}, observations |-> {}]),
          NothingRead}
=============================================================================
