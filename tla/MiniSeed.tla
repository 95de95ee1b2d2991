------------------------------ MODULE MiniSeed ------------------------------
(***************************************************************************)
(* What becomes of the bytes of one archive file: unpack() parses the       *)
(* miniSEED records, setSegments() joins the gapless ones, writeSamples()   *)
(* puts their samples into JSON.  Nothing here keeps state.                 *)
(*                                                                         *)
(* A time and a sampling period are numbers of the same tick.  A sample is  *)
(* counted in halves: an even number is a whole count, an odd one is a      *)
(* fraction, which only the formats 'f' and 'd' can hold.  A record is      *)
(*   parses   whether msr3_parse accepts it                                 *)
(*   named    whether its source identifier names a stream                  *)
(*   stream, start, samples, and                                            *)
(*   period   1/rate, or 0 for a rate that is not positive                  *)
(*   format   'i', 'f', 'd', or something else                              *)
(***************************************************************************)
EXTENDS Integers, Sequences, FiniteSets

Abs(n) == IF n < 0 THEN -n ELSE n

MiniSeedRecord == [parses : BOOLEAN, named : BOOLEAN, stream : STRING,
                   start : Int, period : Int, format : STRING,
                   samples : Seq(Int)]

-----------------------------------------------------------------------------
(* unpack.                                                                 *)

\* What is parsed before the first record that is not one.
Parsed(buffer) ==
    SubSeq(buffer, 1,
           Cardinality({i \in DOMAIN buffer : \A j \in 1 .. i : buffer[j].parses}))

\* The records that make unpack() throw.
Throws(records) ==
    \E i \in DOMAIN records :
       \/ ~records[i].named
       \/ records[i].stream # records[1].stream
       \/ records[i].period <= 0
       \/ records[i].samples # <<>> /\ records[i].format \notin {"i", "f", "d"}

Segment(record) == [start   |-> record.start,
                    period  |-> record.period,
                    samples |-> record.samples]

\* Empty packets are of no use.
Segments(records) ==
    LET held[i \in 0 .. Len(records)] ==
          IF i = 0 THEN <<>>
          ELSE IF records[i].samples = <<>> THEN held[i - 1]
          ELSE Append(held[i - 1], Segment(records[i]))
    IN  held[Len(records)]

\* std::sort by start time leaves equal ones in any order.
Sorted(segments) ==
    LET Index == DOMAIN segments
    IN  {[i \in Index |-> segments[p[i]]] :
            p \in {q \in [Index -> Index] :
                     \A i, j \in Index : i < j =>
                        /\ q[i] # q[j]
                        /\ segments[q[i]].start <= segments[q[j]].start}}

\* The zeros at the end of a segment go, unless it is nothing else.
PurgeTrailingZeros(segment) ==
    LET Rest == {i \in DOMAIN segment.samples : segment.samples[i] # 0}
        End  == CHOOSE i \in Rest : \A j \in Rest : j <= i
    IN  IF Rest = {} THEN segment
        ELSE [segment EXCEPT !.samples = SubSeq(@, 1, End)]

\* The time of the last sample.
EndTime(segment) ==
    segment.start + segment.period * (Len(segment.samples) - 1)

\* Mutant: a whole period of tolerance.
ContiguousWithin(last, next) ==
    /\ \E longer \in {last.period, next.period} :
          1000 * Abs(last.period - next.period) < longer
    /\ Abs(EndTime(last) + last.period - next.start) <= last.period

\* Nearly the same rate, and the next sample due within half a period.
Contiguous(last, next) ==
    /\ \E longer \in {last.period, next.period} :
          1000 * Abs(last.period - next.period) < longer
    /\ Abs(EndTime(last) + last.period - next.start) < last.period \div 2

Join(last, next) == [last EXCEPT !.samples = @ \o next.samples]

\* setSegments with merge: every segment goes to the end of the one before
\* or begins another.
MergeSegments(segments) ==
    LET merged[i \in DOMAIN segments] ==
          IF i = 1 THEN <<segments[1]>>
          ELSE LET before == merged[i - 1]
                   last   == before[Len(before)]
               IN  IF Contiguous(last, segments[i])
                   THEN [before EXCEPT ![Len(before)] = Join(last, segments[i])]
                   ELSE Append(before, segments[i])
    IN  merged[Len(segments)]

\* The waveforms unpack() may return; none if it throws.
Unpack(buffer, purgeTrailingZeros) ==
    LET records  == Parsed(buffer)
        segments == Segments(records)
        Purged(s) == IF purgeTrailingZeros
                     THEN [i \in DOMAIN s |-> PurgeTrailingZeros(s[i])]
                     ELSE s
    IN  IF Throws(records) \/ segments = <<>>
        THEN {}
        ELSE {[stream   |-> records[1].stream,
               segments |-> MergeSegments(Purged(s))] : s \in Sorted(segments)}

\* readArchiveFile passes verbose, 0, in the place of purgeTrailingZeros and
\* purgeTrailingZeros in the place of verbose.
ReadArchiveFile(buffer) ==
    LET verbose == 0
    IN  Unpack(buffer, verbose # 0)

-----------------------------------------------------------------------------
(* writeSamples.                                                           *)

QuantizationLevels == 32767

Encodings == [enableDeltaEncoding : BOOLEAN, enableQuantization : BOOLEAN]

\* n/d rounded to a whole number, a half away from zero.
Round(n, d) == IF n < 0 THEN -((2 * (-n) + d) \div (2 * d))
               ELSE (2 * n + d) \div (2 * d)

\* The largest absolute value.
Peak(samples) ==
    LET Sizes == {Abs(samples[i]) : i \in DOMAIN samples}
    IN  CHOOSE p \in Sizes : \A s \in Sizes : s <= p

Whole(samples) == \A i \in DOMAIN samples : samples[i] % 2 = 0

\* Mutant: the first value is the first's difference from itself.
DifferencesOnly(samples) ==
    [i \in DOMAIN samples |->
        samples[i] - samples[IF i = 1 THEN 1 ELSE i - 1]]

Differences(samples) ==
    [i \in DOMAIN samples |->
        samples[i] - (IF i = 1 THEN 0 ELSE samples[i - 1])]

\* The data are in halves too, and the gain is the quotient of two numbers.
WriteSamples(samples, encoding) ==
    LET quantized == encoding.enableQuantization /\ Peak(samples) > 0
        gain   == IF quantized THEN <<2 * QuantizationLevels, Peak(samples)>>
                               ELSE <<1, 1>>
        values == IF quantized
                  THEN [i \in DOMAIN samples |->
                           2 * Round(samples[i] * QuantizationLevels,
                                     Peak(samples))]
                  ELSE samples
        delta  == encoding.enableDeltaEncoding /\ Whole(values)
    IN  [data         |-> IF delta THEN Differences(values) ELSE values,
         gain         |-> gain,
         deltaEncoded |-> delta]

\* toJSON of one waveform.
WaveformToJSON(waveform, encoding) ==
    [stream   |-> waveform.stream,
     segments |-> [i \in DOMAIN waveform.segments |->
        [startTime    |-> waveform.segments[i].start,
         samplingRate |-> waveform.segments[i].period,
         samples      |-> WriteSamples(waveform.segments[i].samples, encoding)]]]
=============================================================================
