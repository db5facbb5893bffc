------------------------------ MODULE WBufInfo ------------------------------
(***************************************************************************)
(* The book-keeping of one write buffer (wbh_Info / wbh_NumInfo): an       *)
(* ordered array of inclusive intervals that says which bytes of the       *)
(* buffer hold data that still has to be written to the server.  Pure      *)
(* operators only: WriteCache keeps the set of bytes the intervals stand   *)
(* for, and checks (InfoExact) that the array the code keeps is the same.  *)
(***************************************************************************)
EXTENDS Integers, Sequences, FiniteSets, SequencesExt

\* struct wbufhdrinfo: inclusive boundaries, relative to the buffer.
Interval(from, to) == [wbi_From |-> from, wbi_To |-> to]

\* The maximal runs of consecutive members of a set of byte offsets, and
\* their number: what wbh_Info lists and wbh_NumInfo counts.
RunStarts(D) == {d \in D : d - 1 \notin D}

RunFrom(D, d) == {e \in D : d <= e /\ d .. e \subseteq D}

Runs(D) == {RunFrom(D, d) : d \in RunStarts(D)}

NumRuns(D) == Cardinality(RunStarts(D))

\* The array that lists the runs of D in ascending order.
InfoTable(D) ==
    LET n == NumRuns(D)
        intervals == {Interval(Min(r), Max(r)) : r \in Runs(D)}
    IN  CHOOSE t \in [1 .. n -> intervals] :
          \A j, k \in 1 .. n : j < k => t[j].wbi_From < t[k].wbi_From

-----------------------------------------------------------------------------
\* "+1 means touch": data up to to and data from from on make one interval.
Touches(to, from) == from <= to + 1

\* The last entry that melts with an interval up to To that touches entry i.
MeltLast(info, i, To) ==
    LET stop == Min({k \in i + 1 .. Len(info) : k = Len(info) \/ To <= info[k].wbi_To})
    IN  IF Touches(To, info[stop].wbi_From) THEN stop ELSE stop - 1

\* Mutant: the far end of the last melted entry is forgotten.
WBufDoMeltShort(info, i, Offs, To) ==
    SubSeq(info, 1, i - 1)
      \o << Interval(Min({info[i].wbi_From, Offs}), To) >>
      \o SubSeq(info, MeltLast(info, i, To) + 1, Len(info))

\* WBufDoMelt: the interval Offs..To touches entry i and reaches at least to
\* entry i + 1.  Entries i..MeltLast become one, the rest moves up.
WBufDoMelt(info, i, Offs, To) ==
    LET last == MeltLast(info, i, To)
    IN  SubSeq(info, 1, i - 1)
          \o << Interval(Min({info[i].wbi_From, Offs}),
                         Max({To, info[last].wbi_To})) >>
          \o SubSeq(info, last + 1, Len(info))

\* WBufUpdateInfo: Length bytes at Offs have been copied into the buffer.
WBufUpdateInfo(info, Offs, Length) ==
    LET To == Offs + Length - 1
        i  == SelectInSeq(info, LAMBDA wbi : Touches(wbi.wbi_To, Offs))
    IN  IF i = 0 THEN Append(info, Interval(Offs, To))
        ELSE IF ~Touches(To, info[i].wbi_From)
               THEN InsertAt(info, i, Interval(Offs, To))
        ELSE IF Len(info) > i /\ Touches(To, info[i + 1].wbi_From)
               THEN WBufDoMelt(info, i, Offs, To)
        ELSE [info EXCEPT ![i] = Interval(Min({@.wbi_From, Offs}),
                                          Max({@.wbi_To, To}))]
=============================================================================
