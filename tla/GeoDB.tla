------------------------------- MODULE GeoDB -------------------------------
(* The country table of the client and GetCountry, its binary search.  A    *)
(* row is a range of addresses and a country; LoadCSV keeps the rows in the *)
(* order of the file.  Probe is one turn of the loop.  Rows of a Go slice   *)
(* count from 0, those of a TLA+ sequence from 1.                           *)
EXTENDS Integers, Sequences

CONSTANTS
    Tables,     \* the files LoadCSV may have read
    Countries   \* the country codes in them

Row == [from : Nat, to : Nat, ctry : Countries]

\* What GetCountry needs of a file, and nothing in the code checks: rows that
\* ascend and do not overlap, and at least one of them (on an empty table the
\* first probe is out of range).
Ascending(t) ==
    /\ Len(t) > 0
    /\ \A k \in 1..Len(t) : t[k].from <= t[k].to
    /\ \A j, k \in 1..Len(t) : j < k => t[j].to < t[k].from

ASSUME GeoAssumption ==
    /\ "UN" \notin Countries /\ "none" \notin Countries
    /\ \A t \in Tables : t \in Seq(Row) /\ Ascending(t)

VARIABLES
    slice,      \* geoDB.slice
    ipint,      \* the address asked for
    lo, hi,     \* the bounds of the search
    ctry        \* what GetCountry returns, "none" while it runs

geoVars == <<slice, ipint, lo, hi, ctry>>

\* GetCountry is called for an address.
GeoInit(ip) ==
    /\ slice \in Tables
    /\ ipint = ip
    /\ lo = 0 /\ hi = Len(slice)
    /\ ctry = "none"

\* Wrong forms of Holds, used by no action
HoldsBelowEnd(row) == row.from <= ipint /\ ipint < row.to

Holds(row) == row.from <= ipint /\ ipint <= row.to

Probe ==
    /\ ctry = "none"
    /\ LET mid == (lo + hi) \div 2
           row == slice[mid + 1]
       IN  \/ /\ Holds(row)
              /\ ctry' = row.ctry /\ UNCHANGED <<lo, hi>>
           \/ /\ ~Holds(row) /\ (lo = mid \/ mid = hi)
              /\ ctry' = "UN" /\ UNCHANGED <<lo, hi>>
           \/ /\ ~Holds(row) /\ lo # mid /\ mid # hi
              /\ IF ipint < row.from THEN hi' = mid /\ lo' = lo ELSE lo' = mid /\ hi' = hi
              /\ ctry' = ctry
    /\ UNCHANGED <<slice, ipint>>

GeoSpec == (\E ip \in Nat : GeoInit(ip)) /\ [][Probe]_geoVars

-----------------------------------------------------------------------------
\* Row k of the table holds the address.
Within(k) == slice[k].from <= ipint /\ ipint <= slice[k].to

\* The binary search returns what a look at every row would: the country of the
\* row that holds the address, and "UN" in the gaps and beyond both ends.
CountryIsRight ==
    ctry # "none" =>
      \/ \E k \in 1..Len(slice) : Within(k) /\ ctry = slice[k].ctry
      \/ ctry = "UN" /\ \A k \in 1..Len(slice) : ~Within(k)
=============================================================================
