---------------------------- MODULE MCWaveforms -----------------------------
(* Waveforms with two streams, one of which has a file for every way the    *)
(* packets of a file can follow each other.                                 *)
EXTENDS Waveforms, TLC

CONSTANTS t1, t2, none

Symmetry == Permutations({t1, t2})

Record(start, period, samples) ==
    [parses |-> TRUE, named |-> TRUE, stream |-> "A", start |-> start,
     period |-> period, format |-> "i", samples |-> samples]

Garbage == [Record(0, 1, <<>>) EXCEPT !.parses = FALSE]

\* Gapless and out of order, the clock drifting a little.  Fractions, a gap
\* of one sample, a packet twice, nothing but zeros, another rate, an empty
\* packet and a torn one.  Then what is no waveform at all.
MCFiles ==
    {<<Record(4400, 2001, <<6, 0>>), Record(0, 2000, <<2, -4>>),
       Record(8800, 2000, <<8, 10>>)>>,
     <<[Record(0, 2000, <<1, 4>>) EXCEPT !.format = "f"],
       Record(6000, 2000, <<0, 0>>), Record(6000, 2000, <<0, 0>>),
       Record(10000, 1000, <<-2>>), Record(10000, 2000, <<>>), Garbage,
       Record(11000, 1000, <<6>>)>>,
     <<[Record(0, 2000, <<2>>) EXCEPT !.stream = "B"], Record(2000, 2000, <<2>>)>>,
     <<Record(0, 0, <<2>>)>>, <<Garbage>>}

MCArchive == [A |-> MCFiles, B |-> {<<Record(0, 2000, <<2>>)>>}]

MCArrivals == {<<>>, <<none>>, <<"B", "A", none, "B">>}

\* One stream to an event: each time a root is looked up is a request of its
\* own.
OneStreamEach == {<<"B">>}
=============================================================================
